SPECIFICATION Spec
CONSTANTS
  NumFragments = 2
  Capacity <- MCCapacity
  ImageBlocks <- MCImageBlocks
  Shipped <- MCErased
  Payload = {d1, d2}
  Blank = blank
  Window <- RestWindow
  Backlog = {}
  RespectsTimeout = TRUE
  Commands <- DownloadCommands
  Alternates = {1, 2}
  TransferBlocks = {}
  MaxPending = 2
  MaxImage = 3
INVARIANTS
  ManifestHoldsImage

SPECIFICATION FairSpec
CONSTANTS
  NoChannel = NoChannel
  Channels = {http}
  QueueLength = 3
  MaxTimeoutCount = 2
  SectorSize = 2
  FlashSize = 4
  ImageSizes = {3, 4}
INVARIANTS TypeOK ConfirmedIsComplete NoDirtyWrite QueuedInOrder CoreInv
PROPERTIES ReceivingEnds KeepsContract

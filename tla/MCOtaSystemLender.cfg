SPECIFICATION SystemSpec
CONSTANTS
  NoChannel = NoChannel
  Http = Http
  Matter = Matter
  Channels = {Http, Matter}
  QueueLength = 2
  MaxTimeoutCount = 1
  SectorSize = 1
  FlashSize = 1
  ImageSizes = {2}
  HttpBufferSize = 1
  HttpBodyRoom = 1
  MatterBlockSize = 1
INVARIANT LenderOwnsSession

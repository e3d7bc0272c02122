SPECIFICATION FairSpec
CONSTANTS
  MaxQueued = 2
  MaxMessages = 3
  MaxPackets = 3
INVARIANTS
  NothingIsMisread
  WrittenInOrder
PROPERTY EverythingIsWritten

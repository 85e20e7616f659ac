CONSTANTS
  Channels = {"volt", "curr"}
  Interval = 1
  BufMax = 2
  PerPacket = 2
  Polls = 1
  Times = {0, 1, 2, 3}
  Modes = {"none", "continuous"}
  Supported = {"none", "normal", "continuous"}
  Malformed = TRUE
SPECIFICATION FairSpec
INVARIANTS BufferInBounds FlagTellsTruth StaleAtMostTwice AveragesLocked ModeIsTheDevices
PROPERTIES ReadingsArrive

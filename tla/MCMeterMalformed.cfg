CONSTANTS
  Channels = {"volt"}
  Interval = 1
  BufMax = 3
  PerPacket = 2
  Polls = 2
  Times = {0, 1, 3, 4}
  Modes = {"none", "normal", "continuous"}
  Supported = {"none", "normal", "continuous"}
  Malformed = TRUE
SPECIFICATION Spec
INVARIANTS NoDataRace

CONSTANTS
  Channels = {"volt"}
  Interval = 1
  BufMax = 3
  PerPacket = 2
  Polls = 2
  Times = {0, 1, 3, 4}
  Modes = {"none", "normal", "continuous", "other"}
  Supported = {"none", "normal", "continuous"}
  Malformed = FALSE
SPECIFICATION Spec
INVARIANTS ModeIsTheDevices

CONSTANTS
  Nothing = Nothing
  Attrs <- Registers
  Values <- Words
  Contents <- Devices
  Width = 2
  Byte = 1
  Analog <- TwoChannels
  Pins = {0, 1, 2, 3}
  Bytes = {{}, {0}}
  Ports = {0, 1, 2, 3}
  Octets = {0, 1, 2}
  ValueLen = 3
  Widths = {1, 2}
  Faults = {"unplug", "refuse"}
SPECIFICATION Spec
INVARIANTS TextReadsBack MaskIsTheDevices RightRegister
PROPERTIES PinModeIsLocal InputAfterPull PinModeTruth LevelIsLocal LevelTruth OnlyThatPort WriteIsDone

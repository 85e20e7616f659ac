CONSTANTS
  Backends = {"linux", "windows"}
  MaxReports = 3
  MaxQueued = 0
  Uhids <- TwoNodes
  MacVersions = {"new"}
  MaxWrites = 2
  Blocks <- SomeBlocks
  MaxBlocks = 5
  Devices <- SomeDevices
  PortCount = 2
  MaxPlugs = 2
  Invasive = TRUE
  None = None
  Null = Null
  ReportIds = {{0}, {1, 2}}
  Payloads <- SomePayloads
  Room = 4
  UcrSize = 2
SPECIFICATION FairSpec
INVARIANT WriteIsSynchronous
CHECK_DEADLOCK FALSE

SPECIFICATION WebSpec
CONSTANTS
  None = None
  Backends = {"hidraw", "nusb", "macos", "windows", "web"}
  Devices <- MCDevices
  Paths = {1, 2}
  Requests <- MCRequests
  MaxEvents <- MCMaxEvents
  Callers = {c1, c2}
  Bodies <- MCBodies
  Answer <- MCAnswer
  ReportLen = 4
  QueueCapacity = 2
  MaxTurns = 4
  MaxReports = 3
CHECK_DEADLOCK FALSE
INVARIANTS
  TypeOK
  OpenIsHonest
  WebReadsInOrder
PROPERTIES
  ImplementsContract
SYMMETRY Symmetry

SPECIFICATION StreamSpec
CONSTANTS
  i1 = i1
  i2 = i2
  i3 = i3
  Interfaces = {i1, i2, i3}
  Kinds = {"log", "web", "export"}
  Number <- MCNumber
  Index <- MCIndex
  SizeOf <- MCSizeOf
  max_backlog = 4
  max_size = 3
  MaxPackets = 3
  MaxFiles = 3
INVARIANT FilesReadable
PROPERTIES CloseEnds ImplementsLog
CHECK_DEADLOCK FALSE

CONSTANTS
  FileSize = 4
  Regions <- MCRegions
  Vals = {0, 1, 2, 4}
  DefaultSectorSize = 2
  MaxReq = 5
SPECIFICATION Spec
PROPERTIES
  InBoundsWriteStored
CHECK_DEADLOCK FALSE

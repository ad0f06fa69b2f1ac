\* Disk controller: size of the file, confinement of DO_READ, what DO_WRITE stores.
CONSTANTS
  FileSize = 4
  Regions <- MCRegions
  Vals = {0, 1, 2, 4}
  DefaultSectorSize = 2
  MaxReq = 7
SPECIFICATION Spec
INVARIANTS
  TypeOK
  DiskSizeFixed
PROPERTIES
  DoReadCopiesFile
  DoWriteStoresRam
CHECK_DEADLOCK FALSE

\* The debug device implements SerialDevice: two vCPUs on one COM register,
\* writes of one, two and four bytes, two bytes of stdin.
CONSTANTS
  c1 = c1
  c2 = c2
  NoCpu = NoCpu
  CPUs <- MCCPUs
  Ports = {1}
  SizeCodes = {1, 2, 4}
  MaxReq = 2
  MaxIn = 2
SPECIFICATION Spec
INVARIANT TypeOK
PROPERTY ImplementsSerialDevice
\* Threads stop when their requests are used up or they have ended.
CHECK_DEADLOCK FALSE

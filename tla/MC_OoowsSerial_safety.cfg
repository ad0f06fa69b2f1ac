\* Safety of the serial device: two vCPUs on one COM line, queues of two.
CONSTANTS
  c1 = c1
  c2 = c2
  NoCpu = NoCpu
  CPUs <- MCCPUs
  Ports = {1}
  SizeCodes = {1, 2}
  QCap = 2
  MaxReq = 2
  MaxSend = 1
  MaxConns = 2
SPECIFICATION Spec
SYMMETRY MCSymmetry
INVARIANTS
  TypeOK
  RxInOrder
  TxWritesContiguous
CHECK_DEADLOCK FALSE

CONSTANTS
  c1 = c1
  c2 = c2
  NoCpu = NoCpu
  CPUs <- MCCPUs
  Ports = {1}
  SizeCodes = {1, 2}
  QCap = 2
  MaxReq = 2
  MaxSend = 1
  MaxConns = 1
SPECIFICATION Spec
INVARIANTS
  TxWriteNotSplit
CHECK_DEADLOCK FALSE

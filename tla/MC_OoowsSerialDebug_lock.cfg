\* A thread that dies inside RxCom or TxCom keeps the controller lock.
CONSTANTS
  c1 = c1
  c2 = c2
  NoCpu = NoCpu
  CPUs <- MCCPUs
  Ports = {1}
  SizeCodes = {1}
  MaxReq = 2
  MaxIn = 1
SPECIFICATION Spec
INVARIANT LockOwnerAlive
CHECK_DEADLOCK FALSE

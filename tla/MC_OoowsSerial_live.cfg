\* Liveness of TxCom with a console attached to the tx socket, and the
\* refinement of SerialDevice under the same behaviours.
CONSTANTS
  c1 = c1
  c2 = c2
  NoCpu = NoCpu
  CPUs <- MCCPUs
  Ports = {1}
  SizeCodes = {1, 2}
  QCap = 1
  MaxReq = 2
  MaxSend = 1
  MaxConns = 2
SPECIFICATION ConsoleSpec
PROPERTIES
  WriteCompletes
  ImplementsSerialDevice
CHECK_DEADLOCK FALSE

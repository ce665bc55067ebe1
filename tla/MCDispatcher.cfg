SPECIFICATION Spec
CONSTANTS
  Script <- Session
  CmdBuf = 4096
  Supported <- Rates
  FirstRate <- Rate115200
  Garbled <- MCGarbled
  FifoDepth = 8
  FaultKinds <- AllKinds
  MaxFaults = 2
  MaxRestarts = 2
  MaxWaiting = 5
INVARIANTS TypeOK OnlySentExecuted AnsweredWereExecuted RatesAgree
PROPERTIES ServedInTheEnd StubReturns
CHECK_DEADLOCK FALSE

CONSTANTS
  Text <- MCText
  Capitals <- MCCapitals
  Numbers <- MCNumbers
  NotInt = NotInt
  MinInt <- MCMinInt
  MaxInt = 127
  MsPerSec = 10
  Now = 20
  Ports <- MCPorts
  Addresses = {"host"}
  PortBound = 64
  DEFAULT_PORT = 69
  Argvs <- MCArgvs
  Scripts <- MCScripts
  CutScripts <- MCCutScripts
  BufferSize = 24
SPECIFICATION Spec
INVARIANTS
  ArgumentsUnderstood
  WholeCommandsAnswered
  OperationsExact
  OptionsUnderstood
CHECK_DEADLOCK FALSE

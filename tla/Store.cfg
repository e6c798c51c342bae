SPECIFICATION SharedSpec
CONSTANTS
  w1 = w1  w2 = w2  w3 = w3
  a = a  b = b  c = c  x = x
  v1 = v1  v2 = v2
  Worker = {w1, w2}
  Tool = {a, b, c, x}
  Version = {v1, v2}
  Foreign = Foreign  NoBin = NoBin  NoOne = NoOne  NoVersion = NoVersion
  ToolOf <- MCToolOf2
  VersionsOf <- MCVersionsOf2
  Prior <- MCPriorShared
  Limit = 2
  MaxFaults = 2
  OtherTools = {a}
INVARIANTS TypeOK LockDiscipline TornHasCause TrustedUnlessMixed
CHECK_DEADLOCK FALSE

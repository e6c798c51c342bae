SPECIFICATION Spec
CONSTANTS
  w1 = w1  w2 = w2  w3 = w3
  a = a  b = b  c = c  x = x
  v1 = v1  v2 = v2
  Worker = {w1, w2}
  Tool = {a, b, c, x}
  Version = {v1}
  Foreign = Foreign  NoBin = NoBin  NoOne = NoOne  NoVersion = NoVersion
  VersionsOf <- MCVersionsOfAny
  ToolOf <- MCToolOf2
  Prior <- MCPriorSound
  Limit = 3
  MaxFaults = 0
INVARIANTS AddedIsRecorded
CHECK_DEADLOCK FALSE

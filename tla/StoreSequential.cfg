SPECIFICATION SequentialSpec
CONSTANTS
  w1 = w1  w2 = w2  w3 = w3
  a = a  b = b  c = c  x = x
  v1 = v1  v2 = v2
  Worker = {w1, w2}
  Tool = {a, b}
  Version = {v1, v2}
  Foreign = Foreign  NoBin = NoBin  NoOne = NoOne  NoVersion = NoVersion
  VersionsOf <- MCVersionsOfAny
  ToolOf <- MCToolOf2
  Prior <- MCPriorAny
  Limit = 1
  MaxFaults = 2
INVARIANTS RunFindsTheTool
PROPERTY ImplementsAbs
CHECK_DEADLOCK FALSE

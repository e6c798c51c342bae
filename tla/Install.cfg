SPECIFICATION InstallSpec
CONSTANTS
  w1 = w1  w2 = w2  w3 = w3
  a = a  b = b  c = c  x = x
  v1 = v1  v2 = v2
  Worker = {w1, w2, w3}
  Tool = {a, b, x}
  Version = {v1}
  Foreign = Foreign  NoBin = NoBin  NoOne = NoOne  NoVersion = NoVersion
  VersionsOf <- MCVersionsOfAny
  ToolOf <- MCToolOfTwice
  ToolOpts <- MCToolOpts
  Prior <- MCPriorTwoRemoved
  Limit = 2
  MaxFaults = 1
INVARIANTS InstallTypeOK EveryResultIsListed SuccessMeansInPlace StagingIsTidied AddedIsOnDisk CheckIsSound
PROPERTIES CommandEnds TornIsForever
CHECK_DEADLOCK FALSE

SPECIFICATION Spec
CONSTANTS
  a = a  b = b  c = c
  v1 = v1  v2 = v2
  Tool = {a, b, c}
  Version = {v1, v2}
  Foreign = Foreign  NoBin = NoBin  None = None
  Config <- MCConfig
  Stored <- MCStored
  Include <- MCInclude
  MaxTampers = 1
INVARIANTS EverythingIsListed EachIsListedOnce LeftOutIsUpToDate PassedMeansInPlace
CHECK_DEADLOCK FALSE

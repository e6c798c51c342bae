SPECIFICATION Spec
CONSTANTS
  Limit = 32  Day = 3  Nil = Nil
  Raw <- MCRaw
INVARIANTS ToolIsWhole CooldownIsInForce
CHECK_DEADLOCK FALSE

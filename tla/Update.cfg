SPECIFICATION AddSpec
CONSTANTS
  w1 = w1  w2 = w2  w3 = w3
  a = a  b = b  c = c  d = d
  p1 = p1
  v1 = v1  v2 = v2
  Worker = {w1, w2, w3}
  Name = {a, b, c, d}
  Version = {v1, v2}
  NoPin = NoPin  Nil = Nil  NoOne = NoOne
  OptOf <- MCOptOf
  ToolOpts <- MCToolOpts
  Configured <- MCConfigured
  Limit = 2
  StopOnError = {FALSE, TRUE}
  EditorFile <- MCEditorFileOfAdd
  MaxEdits = 1
  Adder = {p1}
  ToolOfAdd <- MCToolOfAdd
INVARIANTS PinsAreTheVersionsFound DamageHasCause
PROPERTIES ToolsAreKept WritesOnlyWhenAllSucceeded EditsOfOthersSurvive EndsWithoutStopOnError
CHECK_DEADLOCK FALSE

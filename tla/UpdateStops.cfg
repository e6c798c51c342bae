SPECIFICATION Spec
CONSTANTS
  w1 = w1  w2 = w2  w3 = w3
  a = a  b = b  c = c
  v1 = v1  v2 = v2
  Worker = {w1, w2, w3}
  Name = {a, b, c}
  Version = {v1, v2}
  NoPin = NoPin  Nil = Nil  NoOne = NoOne
  OptOf <- MCOptOf
  ToolOpts <- MCToolOpts
  Configured <- MCConfigured
  Limit = 2
  StopOnError = {TRUE}
  EditorFile <- MCEditorFile
  MaxEdits = 0
PROPERTY UpdateEnds
CHECK_DEADLOCK FALSE

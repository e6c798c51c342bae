---------------------------- MODULE MCToolConfig ----------------------------
(* Instances of ToolConfig for TLC: a time.Duration of six bits, a day of three.  *)
EXTENDS ToolConfig
R(kind, n) == [kind |-> kind, n |-> n]
\* ten is the last number of days that fits, eleven wraps below zero, 22 above it
MCRaw == {R("unset", 0), R("time", 0), R("time", 31), R("number", 2), R("bad", 0),
          R("days", -1), R("days", 1), R("days", 10), R("days", 11), R("days", 22)}
=============================================================================

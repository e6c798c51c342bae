------------------------- MODULE MCGoProxyResolver -------------------------
(* Instances of GoProxyResolver for TLC. *)
EXTENDS GoProxyResolver
CONSTANT pseudo
MCConstraint == {{1}, {1, 2}}
MCListings == SUBSET Tag
=============================================================================

---------------------------- MODULE MCAddCommand ----------------------------
(* Instances of AddCommand for TLC. *)
EXTENDS MCUpdate, AddCommand
CONSTANTS d, p1

MCToolOfAdd == p1 :> Pin(d, v1)
\* a tool that moved and one that got a pin; and one that is gone, with the tool to add there
MCEditorFileOfAdd == {<<Pin(b, v2), Pin(a, v1), Pin(c, v1)>>, <<Pin(a, v2), Pin(d, NoPin)>>}
=============================================================================

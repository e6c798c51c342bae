------------------------------ MODULE MCUpdate ------------------------------
(* Instances of Update for TLC. *)
EXTENDS Update, TLC
CONSTANTS w1, w2, w3, a, b, c, v1, v2
Pin(n, v) == [name |-> n, want |-> v]

\* every tool but the last, which has no pin, is updated; a name is configured twice
MCOptOf == w1 :> 1 @@ w2 :> 2 @@ w3 :> 3
MCToolOpts == <<w1, w2, w3>>
MCConfigured == <<Pin(a, v1), Pin(b, v2), Pin(a, v2), Pin(c, NoPin)>>
\* a tool that moved and one that got a pin, and a tool that is gone
MCEditorFile == {<<Pin(b, v2), Pin(a, v1), Pin(c, v1)>>, <<Pin(a, v2), Pin(c, NoPin)>>}
=============================================================================

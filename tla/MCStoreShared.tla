--------------------------- MODULE MCStoreShared ---------------------------
(* Instances of StoreShared for TLC. *)
EXTENDS MCStore, StoreShared
\* ours install one version; the other process upgrades and downgrades one of their tools
MCVersionsOf2 == w1 :> {v1} @@ w2 :> {v1}
MCPriorShared == {Fresh, TwoRemoved}
=============================================================================

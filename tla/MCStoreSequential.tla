------------------------- MODULE MCStoreSequential -------------------------
(* Instances of StoreSequential for TLC. *)
EXTENDS MCStore, StoreSequential
MCPriorAny == {Fresh, Intact, Tampered, Removed}
=============================================================================

----------------------------- MODULE MCInstall -----------------------------
(* Instances of Install for TLC. *)
EXTENDS MCStore, Install
MCToolOpts == <<w1, w2, w3>>
=============================================================================

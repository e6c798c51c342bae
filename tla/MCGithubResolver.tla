-------------------------- MODULE MCGithubResolver --------------------------
(* Instances of GithubResolver for TLC. *)
EXTENDS GithubResolver
CONSTANT nightly
MCConstraint == {{1}, {1, 2}}
=============================================================================

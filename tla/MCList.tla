------------------------------- MODULE MCList -------------------------------
(* Instances of List for TLC. *)
EXTENDS List, TLC
CONSTANTS a, b, c, v1, v2

E(t, v) == [name |-> t, version |-> v, digest |-> v]
Bins(f) == [t \in Tool |-> IF t \in DOMAIN f THEN f[t] ELSE NoBin]

\* nothing, three tools, one gone and one replaced, and a name twice
MCStored ==
    {[entries |-> <<>>, bin |-> Bins(<<>>)],
     [entries |-> <<E(a, v1), E(b, v2), E(c, v1)>>,
      bin |-> Bins(a :> v1 @@ b :> v2 @@ c :> v1)],
     [entries |-> <<E(a, v1), E(b, v2)>>, bin |-> Bins(b :> Foreign)],
     [entries |-> <<E(b, v1), E(a, v1), E(b, v2)>>, bin |-> Bins(a :> v1 @@ b :> v2)]}
MCConfig == {<<a>>, <<a, b>>, <<b, b>>, <<c, a, b>>}
MCInclude == SUBSET Tool
=============================================================================

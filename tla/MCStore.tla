------------------------------ MODULE MCStore ------------------------------
(* Instances of Store for TLC. *)
EXTENDS Store, TLC
CONSTANTS w1, w2, w3, a, b, c, x, v1, v2

MCVersionsOfAny == [w \in Worker |-> Version]
\* a is configured twice, which nothing refuses
MCToolOfTwice == w1 :> a @@ w2 :> b @@ w3 :> a
MCToolOf2 == w1 :> a @@ w2 :> b

E(t, v) == [name |-> t, version |-> v, digest |-> v]
Bins(f) == [t \in Tool |-> IF t \in DOMAIN f THEN f[t] ELSE NoBin]
Absent == [status |-> "absent", entries |-> <<>>]
Whole(s) == [status |-> "whole", entries |-> s]
P(f, bins) == [file |-> f, bin |-> Bins(bins)]

Fresh == P(Absent, <<>>)
\* a and b installed, every binary in place
Intact == P(Whole(<<E(a, v1), E(b, v1)>>), a :> v1 @@ b :> v1)
\* b's binary was replaced by hand
Tampered == P(Whole(<<E(b, v1)>>), a :> Foreign @@ b :> Foreign)
\* a's binary was removed by hand
Removed == P(Whole(<<E(a, v1), E(b, v1)>>), b :> v1)
\* two binaries removed by hand, in front of b, and b replaced
TwoRemoved == P(Whole(<<E(x, v1), E(a, v1), E(b, v1)>>), b :> Foreign)

MCPriorSound == {Fresh, Intact, Tampered}
MCPriorTwoRemoved == {TwoRemoved}
=============================================================================

------------------------- MODULE MCResilientStorage -------------------------
(* Instances of ResilientStorage for TLC. *)
EXTENDS ResilientStorage, TLC

CONSTANTS s1, s2, s3

Servers == <<s1, s2, s3>>

\* The router's replication factor is that of the quorums, or smaller.
FullAndShort == {<<s1, s2, s3>>, <<s2>>}

Symmetric == Permutations(Coordinator)
=============================================================================

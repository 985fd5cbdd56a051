-------------------------- MODULE MCStorageEngine --------------------------
(* Instances of StorageEngine for TLC. *)
EXTENDS StorageEngine

CONSTANTS c1, c2, k1, k2

OneClient == {c1}
TwoClients == {c1, c2}
OneKey == {k1}
TwoKeys == {k1, k2}
=============================================================================

------------------------- MODULE MCWriteCoordinator -------------------------
(* Instances of WriteCoordinator for TLC. *)
EXTENDS WriteCoordinator, TLC

CONSTANTS n1, n2, n3, k, w1, w2

MCKeyOf == [w \in Write |-> k]

\* Two servers, and a cluster too small for the quorum.
TwoNodeRoutes == {[x \in {k} |-> s] : s \in {<<n1, n2>>, <<n1>>}}
ThreeNodeRoutes == {[x \in {k} |-> <<n1, n2, n3>>]}
=============================================================================

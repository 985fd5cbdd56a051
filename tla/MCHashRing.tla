----------------------------- MODULE MCHashRing -----------------------------
(* Instances of HashRing for TLC. *)
EXTENDS HashRing, TLC

CONSTANTS n1, n2, n3

\* All hash functions without a collision, and those under which the first
\* virtual nodes of n1 and n2 collide (n3 fixes the rotation of the ring and is next to itself or across).
MCHashFunctions ==
    LET Images(h) == {h[v] : v \in VirtualNode}
        size == Cardinality(VirtualNode)
    IN  {h \in [VirtualNode -> Position] :
            \/ Cardinality(Images(h)) = size
            \/ /\ Cardinality(Images(h)) = size - 1
               /\ h[<<n1, 0>>] = h[<<n2, 0>>]
               /\ h[<<n3, 1>>] = 0
               /\ h[<<n3, 0>>] \in {1, 3}}
=============================================================================

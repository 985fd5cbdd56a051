--------------------------- MODULE MCNodeCluster ---------------------------
(* An instance of Server, and so of NodeCluster, for TLC. *)
EXTENDS Server, TLC

CONSTANTS n1, n2, n3

\* One node cut off from the other two.
MCSplits == {<<{n1}, {n2, n3}>>}

\* The two nodes on the same side are interchangeable, and so are the clients.
Symmetric == Permutations({n2, n3}) \cup Permutations(Client)
=============================================================================

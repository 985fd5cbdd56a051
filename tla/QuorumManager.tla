--------------------------- MODULE QuorumManager ---------------------------
(***************************************************************************)
(* clotho/resilience.py, class QuorumManager: which nodes a write or a     *)
(* read of a key goes to, given the key's preference list and the nodes    *)
(* that are available.  Node lists are sequences without repetition.       *)
(***************************************************************************)
EXTENDS Integers, Sublist

CONSTANTS AllServers,   \* Router.get_all_servers, in its order
          N, W, R,      \* replication factor, write and read quorum
          QuorumType    \* "STRICT" or "SLOPPY"

ASSUME QuorumAssumption == N \in Nat \ {0} /\ W \in 1 .. N /\ R \in 1 .. N
ASSUME QuorumTypeAssumption == QuorumType \in {"STRICT", "SLOPPY"}

Members(s) == {s[i] : i \in DOMAIN s}

Server == Members(AllServers)

ASSUME ServersAssumption ==
    AllServers \in Seq(Server) /\ \A i, j \in DOMAIN AllServers : AllServers[i] = AllServers[j] => i = j

\* Python's s[:n]
Prefix(s, n) == SubSeq(s, 1, IF n <= Len(s) THEN n ELSE Len(s))

\* The preference list without the nodes that are down
Reachable(preference, available) ==
    Sublist(preference, {i \in DOMAIN preference : preference[i] \in available})

\* The available servers outside the preference list
Substitutes(preference, available) ==
    Sublist(AllServers, {i \in DOMAIN AllServers : AllServers[i] \in available \ Members(preference)})

\* Mistake: substitutes are taken instead of the preference list, not after it.
WriteNodesElsewhere(preference, available) ==
    IF Len(Reachable(preference, available)) < W
    THEN Prefix(Substitutes(preference, available), W)
    ELSE Prefix(Reachable(preference, available), N)

\* get_write_nodes
GetWriteNodes(preference, available) ==
    LET writable == Reachable(preference, available)
        short == W - Len(writable)
    IN  Prefix(IF QuorumType = "SLOPPY" /\ short > 0
               THEN writable \o Prefix(Substitutes(preference, available), short)
               ELSE writable,
               N)

\* get_read_nodes, which ResilientStorage does not use
GetReadNodes(preference, available) == Reachable(preference, available)

IsWriteQuorumPossible(available) == Cardinality(available) >= W

IsReadQuorumPossible(available) == Cardinality(available) >= R
=============================================================================

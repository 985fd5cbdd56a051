------------------------------ MODULE HashRing ------------------------------
(***************************************************************************)
(* clotho/consistent_hash.py: ConsistentHashRing and the Router on top of  *)
(* it.  A node is placed on the ring as Replicas virtual nodes, a key      *)
(* belongs to the nodes met clockwise from its hash.                       *)
(*                                                                         *)
(* MD5 is a constant of a behaviour, any of HashFunctions; keys are        *)
(* represented by the position they hash to, and every position is asked.  *)
(* add_node and remove_node loop over the virtual nodes: one step of the   *)
(* model is one iteration, and op says how far the loop has come.  The     *)
(* methods do not await, so queries only see states with op.kind "none".   *)
(***************************************************************************)
EXTENDS Integers, SequencesExt, Sublist

CONSTANTS NodeId,
          Replicas,       \* virtual nodes per physical node
          RingSize,       \* 2^128 in the code
          HashFunctions   \* what self.hash_func may compute for virtual nodes

VirtualNode == NodeId \X (0 .. Replicas - 1)
Position == 0 .. RingSize - 1

ASSUME ReplicasAssumption == Replicas \in Nat \ {0}
ASSUME HashAssumption == HashFunctions \subseteq [VirtualNode -> Position]
ASSUME RingSizeAssumption == RingSize \in Nat \ {0}

VARIABLES hash,      \* the hash function of this behaviour
          members,   \* _node_map and _nodes
          ring,      \* _ring: position -> node
          keys,      \* _keys: the sorted positions
          op         \* the call under way: kind, node, next virtual node, and
                     \* the ring and keys it found (before)

vars == <<hash, members, ring, keys, op>>

Idle == [kind |-> "none"]
Ring == UNION {[D -> NodeId] : D \in SUBSET Position}
Call == [kind : {"add", "remove"}, node : NodeId, i : 0 .. Replicas - 1,
         ring : Ring, keys : Seq(Position)]

TypeOK ==
    /\ hash \in HashFunctions
    /\ members \subseteq NodeId
    /\ ring \in Ring
    /\ keys \in Seq(Position)
    /\ op \in {Idle} \cup Call

Init ==
    /\ hash \in HashFunctions
    /\ members = {}
    /\ ring = [p \in {} |-> 0]
    /\ keys = << >>
    /\ op = Idle
-----------------------------------------------------------------------------
\* bisect.bisect_right: how many entries of the sorted list s are <= p.
Bisect(s, p) == Cardinality({i \in DOMAIN s : s[i] <= p})

\* Mistake: the new position is appended and the sort forgotten.
InsertLast(s, p) == Append(s, p)

\* bisect.insort
Insort(s, p) == InsertAt(s, Bisect(s, p) + 1, p)

\* Mistake: probing does not wrap at the end of the ring.
ProbePastTheEnd(r, p) ==
    CHOOSE q \in p .. p + RingSize :
        q \notin DOMAIN r /\ \A x \in p .. q - 1 : x \in DOMAIN r

\* The probing of add_node: the first position from p on that is not taken.
FreePosition(r, p) ==
    LET Probe(d) == (p + d) % RingSize
        free == {d \in Position : Probe(d) \notin DOMAIN r}
    IN  Probe(CHOOSE d \in free : \A e \in free : d <= e)

\* Mistake: the loop leaves out the last virtual node.
AdvanceEarly == op' = IF op.i + 2 < Replicas THEN [op EXCEPT !.i = @ + 1] ELSE Idle

\* After an iteration the call goes on with the next virtual node or returns.
Advance == op' = IF op.i + 1 < Replicas THEN [op EXCEPT !.i = @ + 1] ELSE Idle

\* add_node(n) up to its loop; a known id raises ValueError.  Bound: there are
\* free positions, as there always are among 2^128.
AddNode(n) ==
    /\ op = Idle
    /\ n \notin members
    /\ Cardinality(DOMAIN ring) + Replicas <= RingSize
    /\ members' = members \cup {n}
    /\ op' = [kind |-> "add", node |-> n, i |-> 0, ring |-> ring, keys |-> keys]
    /\ UNCHANGED <<hash, ring, keys>>

AddVirtualNode ==
    /\ op.kind = "add"
    /\ LET p == FreePosition(ring, hash[<<op.node, op.i>>])
       IN  /\ ring' = [q \in DOMAIN ring \cup {p} |-> IF q = p THEN op.node ELSE ring[q]]
           /\ keys' = Insort(keys, p)
    /\ Advance
    /\ UNCHANGED <<hash, members>>

\* remove_node(n) up to its loop; an unknown id raises ValueError.
RemoveNode(n) ==
    /\ op = Idle
    /\ n \in members
    /\ members' = members \ {n}
    /\ op' = [kind |-> "remove", node |-> n, i |-> 0, ring |-> ring, keys |-> keys]
    /\ UNCHANGED <<hash, ring, keys>>

\* The position is computed again; it is not where the node was placed if
\* add_node had to probe.
RemoveVirtualNode ==
    /\ op.kind = "remove"
    /\ LET p == hash[<<op.node, op.i>>]
       IN  IF p \in DOMAIN ring
           THEN /\ ring' = [q \in DOMAIN ring \ {p} |-> ring[q]]
                /\ keys' = RemoveFirst(keys, p)
           ELSE UNCHANGED <<ring, keys>>
    /\ Advance
    /\ UNCHANGED <<hash, members>>

Next ==
    \/ \E n \in NodeId : AddNode(n) \/ RemoveNode(n)
    \/ AddVirtualNode
    \/ RemoveVirtualNode

Spec == Init /\ [][Next]_vars
-----------------------------------------------------------------------------
\* Mistake: the search starts as hash-modulo-size partitioning does.
StartModulo(s, h) == h % Len(s)

\* Index (from 0) of the first position clockwise of h, in the sorted list s.
Start(s, h) == Bisect(s, h) % Len(s)

\* The owners met on one turn clockwise from h.
Walk(r, s, h) == [j \in 1 .. Len(s) |-> r[s[((Start(s, h) + j - 1) % Len(s)) + 1]]]

\* get_node, on the ring r with sorted positions s; "none" is Python's None.
GetNode(r, s, h) == IF s = << >> THEN "none" ELSE r[s[Start(s, h) + 1]]

\* Mistake: one node more than asked for.
CollectOneMore(w, n) ==
    FoldLeft(LAMBDA result, node : IF Len(result) > n \/ Contains(result, node)
                                   THEN result ELSE Append(result, node), << >>, w)

\* The loop of get_nodes: the first n different nodes of the walk w.
Collect(w, n) ==
    FoldLeft(LAMBDA result, node : IF Len(result) >= n \/ Contains(result, node)
                                   THEN result ELSE Append(result, node), << >>, w)

\* get_nodes, and Router.get_replica_nodes with n the replication factor.
GetNodes(r, s, h, n) == IF s = << >> \/ n <= 0 THEN << >> ELSE Collect(Walk(r, s, h), n)
-----------------------------------------------------------------------------
\* No two virtual nodes hash to one position.
NoCollision == \A v, w \in VirtualNode : hash[v] = hash[w] => v = w

\* At every step the sorted list has exactly the positions of the
\* dictionary, whatever the probing did: the two structures of add_node
\* (lines 125-126) and remove_node (lines 148-149) never drift apart.
KeysMatchRing ==
    /\ ToSet(keys) = DOMAIN ring
    /\ \A i, j \in DOMAIN keys : i < j => keys[i] < keys[j]

\* Without collisions the ring holds every virtual node of every member at its
\* hash, and nothing else: it depends on who is a member and not on the order of
\* the calls, so two servers that know the same members route every key alike.
RingFollowsMembers ==
    (NoCollision /\ op = Idle) =>
        /\ DOMAIN ring = {hash[v] : v \in members \X (0 .. Replicas - 1)}
        /\ \A v \in members \X (0 .. Replicas - 1) : ring[hash[v]] = v[1]

\* get_nodes returns min(n, nodes on the ring) different nodes, the node
\* get_node returns first, and a shorter answer is a prefix of a longer one:
\* route_key and the coordinator rely on replicas[0] being the primary.
ReplicasAreDistinct ==
    op = Idle =>
        LET owners == {ring[p] : p \in DOMAIN ring}
            size == Cardinality(owners)
        IN  \A h \in Position : \A n \in 0 .. size + 1 :
                LET answer == GetNodes(ring, keys, h, n)
                IN  /\ Len(answer) = IF n <= size THEN n ELSE size
                    /\ Cardinality(ToSet(answer)) = Len(answer)
                    /\ answer # << >> => answer[1] = GetNode(ring, keys, h)
                    /\ IsPrefix(answer, GetNodes(ring, keys, h, n + 1))

\* The answer without the node of the call.
Others(answer, x) == Sublist(answer, {i \in DOMAIN answer : answer[i] # x})

\* The step that ends a call, without collisions.
OnlyItsKeysMove ==
    (NoCollision /\ op # Idle /\ op' = Idle) =>
        \A h \in Position : \A n \in 1 .. Cardinality(NodeId) :
            LET old == GetNodes(op.ring, op.keys, h, n)
                new == GetNodes(ring', keys', h, n)
            IN  IF op.kind = "add"
                THEN IsPrefix(Others(new, op.node), old)
                ELSE ~Contains(new, op.node) /\ IsPrefix(Others(old, op.node), new)

\* Adding or removing a node moves no key between two other nodes: for every key
\* and every replication factor, the replicas that stay keep their order, and
\* only the node of the call enters or leaves.
ReorganizationIsMinimal == [][OnlyItsKeysMove]_vars
=============================================================================

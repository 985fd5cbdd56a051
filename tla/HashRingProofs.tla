--------------------------- MODULE HashRingProofs ---------------------------
(***************************************************************************)
(* For any nodes, any number of virtual nodes and any ring size:           *)
(*   - IInv says what the ring holds, in the middle of the loops of        *)
(*     add_node and remove_node too, when no two virtual nodes collide;    *)
(*   - KInv that the dictionary and the sorted list of positions agree at  *)
(*     every iteration, with or without collisions, from which follows     *)
(*     what get_nodes answers;                                             *)
(*   - MovesInv adds what a call under way has changed so far, from which  *)
(*     follows which keys it moves.                                        *)
(***************************************************************************)
EXTENDS HashRing, DataProofs

\* The virtual nodes that are on the ring: those of the members, except for the
\* node being added, which has the first op.i, or removed, which lost them.
Placed(v) ==
    IF op.kind = "none" \/ op.node # v[1] THEN v[1] \in members
    ELSE IF op.kind = "add" THEN v[2] < op.i ELSE v[2] >= op.i

MembersAnnounced ==
    /\ op.kind = "add" => op.node \in members
    /\ op.kind = "remove" => op.node \notin members

\* Every placed virtual node owns its hash.
PlacedOwnTheirHash == \A v \in VirtualNode : Placed(v) => hash[v] \in DOMAIN ring /\ ring[hash[v]] = v[1]

\* Every position that is taken is the hash of a placed virtual node.
OnlyPlaced == \A p \in DOMAIN ring : \E v \in VirtualNode : Placed(v) /\ hash[v] = p

IInv == TypeOK /\ MembersAnnounced /\ PlacedOwnTheirHash /\ OnlyPlaced
-----------------------------------------------------------------------------
\* InsertAt at a position within or just after a sequence gives a sequence.
LEMMA InsertAtType ==
    ASSUME NEW T, NEW s \in Seq(T), NEW i \in 1 .. Len(s) + 1, NEW e \in T
    PROVE  InsertAt(s, i, e) \in Seq(T)
BY DEF InsertAt

\* Inserting in a sequence, wherever bisect says, gives a sequence.
LEMMA InsortType ==
    ASSUME NEW s \in Seq(Position), NEW p \in Position
    PROVE  Insort(s, p) \in Seq(Position)
<1>1. Bisect(s, p) \in Nat
  <2> DEFINE I == {i \in DOMAIN s : s[i] <= p}
  <2>1. IsFiniteSet(1 .. Len(s)) /\ DOMAIN s = 1 .. Len(s)
    BY FS_Interval
  <2>2. IsFiniteSet(I)
    BY <2>1, FS_Subset
  <2> QED
    BY <2>2, FS_CardinalityType DEF Bisect
<1>2. Bisect(s, p) <= Len(s)
  <2>0. Len(s) \in Nat
    OBVIOUS
  <2> DEFINE n == Len(s)
  <2>1. IsFiniteSet(1 .. n) /\ Cardinality(1 .. n) = n
    <3>1. 1 \in Int /\ n \in Int
      BY <2>0
    <3> HIDE DEF n
    <3>2. IsFiniteSet(1 .. n) /\ Cardinality(1 .. n) = IF 1 > n THEN 0 ELSE n - 1 + 1
      BY <3>1, FS_Interval, Zenon
    <3>3. n \in Nat
      BY <2>0 DEF n
    <3> QED
      BY <3>2, <3>3
  <2>2. {i \in DOMAIN s : s[i] <= p} \subseteq 1 .. Len(s)
    OBVIOUS
  <2> QED
    BY <2>1, <2>2, FS_Subset DEF Bisect
<1>3. Bisect(s, p) + 1 \in 1 .. Len(s) + 1
  BY <1>1, <1>2
<1> QED
  BY <1>3, InsertAtType DEF Insort

\* Removing the first occurrence from a sequence gives a sequence.
LEMMA RemoveFirstType ==
    ASSUME NEW s \in Seq(Position), NEW p \in Position
    PROVE  RemoveFirst(s, p) \in Seq(Position)
<1> DEFINE I == {i \in 1 .. Len(s) : s[i] = p}
<1>1. CASE I = {}
  BY <1>1 DEF RemoveFirst
<1>2. CASE I # {}
  <2>1. I \subseteq Nat /\ I \subseteq 1 .. Len(s)
    OBVIOUS
  <2> DEFINE first == Min(I)
  <2>2. RemoveFirst(s, p) = RemoveAt(s, first)
    BY <1>2 DEF RemoveFirst, SelectInSeq
  <2> HIDE DEF I
  <2>3. \E x \in I : \A y \in I : x <= y
    <3>1. I \in SUBSET Nat /\ I # {}
      BY <1>2, <2>1 DEF I
    <3> QED
      BY <3>1, Least
  <2>4. first \in I
    BY <2>3, Zenon DEF Min
  <2> HIDE DEF first
  <2>5. first \in 1 .. Len(s)
    BY <2>1, <2>4
  <2> QED
    BY <2>2, <2>5 DEF RemoveAt
<1> QED
  BY <1>1, <1>2

\* Where nothing is taken, probing stays where it started.
LEMMA FreeStays ==
    ASSUME NEW r, NEW p \in Position, p \notin DOMAIN r
    PROVE  FreePosition(r, p) = p
<1> DEFINE Probe(d) == (p + d) % RingSize
           free == {d \in Position : Probe(d) \notin DOMAIN r}
           first == CHOOSE d \in free : \A e \in free : d <= e
<1>1. Probe(0) = p /\ 0 \in Position
  BY RingSizeAssumption DEF Position
<1>2. 0 \in free
  BY <1>1
<1>3. \A d \in free : d \in Nat
  BY RingSizeAssumption DEF Position
<1> HIDE DEF free
<1>4. \A e \in free : 0 <= e
  BY <1>3
<1>5. first \in free /\ \A e \in free : first <= e
  BY <1>2, <1>4
<1>6. first = 0
  BY <1>2, <1>3, <1>5
<1>7. FreePosition(r, p) = Probe(first)
  BY DEF FreePosition, free
<1> QED
  BY <1>1, <1>6, <1>7
-----------------------------------------------------------------------------
\* Nothing is on the ring at first.
LEMMA InitIInv == Init => IInv
<1> SUFFICES ASSUME Init PROVE IInv
  OBVIOUS
<1>1. ring \in Ring
  BY DEF Init, Ring
<1>2. TypeOK
  BY <1>1 DEF Init, TypeOK
<1>3. MembersAnnounced
  BY DEF Init, MembersAnnounced, Idle
<1>4. \A v \in VirtualNode : ~Placed(v)
  BY DEF Init, Placed, Idle
<1> QED
  BY <1>2, <1>3, <1>4 DEF Init, IInv, PlacedOwnTheirHash, OnlyPlaced

\* A call that starts changes no virtual node: a new member has none yet, a
\* former one still has all.
LEMMA StartKeepsIInv ==
    ASSUME IInv, NEW n \in NodeId, AddNode(n) \/ RemoveNode(n)
    PROVE  IInv'
<1>1. TypeOK /\ op = Idle /\ op.kind = "none"
  BY DEF IInv, AddNode, RemoveNode, Idle
<1> DEFINE kind == op'.kind
<1>2. /\ op' = [kind |-> kind, node |-> n, i |-> 0, ring |-> ring, keys |-> keys]
      /\ \/ kind = "add" /\ n \notin members /\ members' = members \cup {n}
         \/ kind = "remove" /\ n \in members /\ members' = members \ {n}
      /\ hash' = hash /\ ring' = ring /\ keys' = keys
  <2>1. CASE AddNode(n)
    <3>1. kind = "add"
      BY <2>1 DEF AddNode
    <3> QED
      BY <2>1, <3>1 DEF AddNode
  <2>2. CASE RemoveNode(n)
    <3>1. op' = [kind |-> "remove", node |-> n, i |-> 0, ring |-> ring, keys |-> keys]
      BY <2>2 DEF RemoveNode
    <3>2. kind = "remove"
      BY <3>1 DEF kind
    <3>3. members' = members \ {n} /\ hash' = hash /\ ring' = ring /\ keys' = keys
      BY <2>2 DEF RemoveNode
    <3>4. n \in members
      BY <2>2 DEF RemoveNode
    <3> HIDE DEF kind
    <3> QED
      BY <3>1, <3>2, <3>3, <3>4
  <2> QED
    BY <2>1, <2>2
<1> HIDE DEF kind
<1>3. op' \in Call
  BY <1>1, <1>2, ReplicasAssumption DEF TypeOK, Call
<1>4. TypeOK'
  BY <1>1, <1>2, <1>3 DEF TypeOK
<1>5. MembersAnnounced'
  BY <1>2 DEF MembersAnnounced
<1>6. ASSUME NEW v \in VirtualNode PROVE Placed(v)' <=> Placed(v)
  <2>1. v[1] \in NodeId /\ v[2] \in 0 .. Replicas - 1
    BY DEF VirtualNode
  <2>2. ~(v[2] < 0) /\ v[2] >= 0
    BY <2>1, ReplicasAssumption
  <2> QED
    BY <1>1, <1>2, <2>2 DEF Placed
<1>7. PlacedOwnTheirHash'
  BY <1>2, <1>6 DEF IInv, PlacedOwnTheirHash
<1>8. OnlyPlaced'
  BY <1>2, <1>6 DEF IInv, OnlyPlaced
<1> QED
  BY <1>4, <1>5, <1>7, <1>8 DEF IInv

\* What an iteration does to op.
LEMMA AdvanceIsTyped ==
    ASSUME op \in Call, Advance
    PROVE  \/ op.i + 1 = Replicas /\ op' = Idle
           \/ /\ op.i + 1 < Replicas
              /\ op' \in Call
              /\ op'.kind = op.kind /\ op'.node = op.node /\ op'.i = op.i + 1
<1>1. op.i \in 0 .. Replicas - 1
  BY DEF Call
<1>2. CASE op.i + 1 < Replicas
  <2>1. op' = [op EXCEPT !.i = op.i + 1]
    BY <1>2 DEF Advance
  <2>2. op.i + 1 \in 0 .. Replicas - 1
    BY <1>1, <1>2, ReplicasAssumption
  <2> QED
    BY <1>2, <2>1, <2>2 DEF Call
<1>3. CASE ~(op.i + 1 < Replicas)
  BY <1>1, <1>3, ReplicasAssumption DEF Advance
<1> QED
  BY <1>2, <1>3

\* The virtual node that add_node places goes to its own hash, which is free.
LEMMA AddVirtualNodeKeepsIInv ==
    ASSUME NoCollision, IInv, AddVirtualNode
    PROVE  IInv'
<1> DEFINE w == <<op.node, op.i>>
           p == FreePosition(ring, hash[w])
<1>1. TypeOK /\ op \in Call /\ op.kind = "add" /\ op.node \in members
  BY DEF IInv, AddVirtualNode, TypeOK, MembersAnnounced, Idle
<1>2. op.node \in NodeId /\ op.i \in 0 .. Replicas - 1 /\ w \in VirtualNode
  BY <1>1 DEF Call, VirtualNode
<1>3. hash \in [VirtualNode -> Position] /\ hash[w] \in Position
  BY <1>1, <1>2, HashAssumption DEF TypeOK
<1>4. \A u, v \in VirtualNode : hash[u] = hash[v] => u = v
  BY DEF NoCollision
<1>5. ~Placed(w)
  BY <1>1, <1>2 DEF Placed
<1>6. hash[w] \notin DOMAIN ring
  BY <1>2, <1>4, <1>5 DEF IInv, OnlyPlaced
<1>7. p = hash[w]
  BY <1>3, <1>6, FreeStays
<1>8. /\ ring' = [q \in DOMAIN ring \cup {p} |-> IF q = p THEN op.node ELSE ring[q]]
      /\ keys' = Insort(keys, p)
      /\ Advance
      /\ hash' = hash /\ members' = members
  BY DEF AddVirtualNode
<1> HIDE DEF p
<1>9. \/ op.i + 1 = Replicas /\ op' = Idle
      \/ op' \in Call /\ op'.kind = op.kind /\ op'.node = op.node /\ op'.i = op.i + 1
  BY <1>1, <1>8, AdvanceIsTyped
<1>10. TypeOK'
  <2>1. PICK D \in SUBSET Position : ring \in [D -> NodeId]
    BY <1>1 DEF TypeOK, Ring
  <2>2. ring' \in [D \cup {p} -> NodeId] /\ D \cup {p} \in SUBSET Position
    BY <1>2, <1>3, <1>7, <1>8, <2>1
  <2>3. ring' \in Ring
    BY <2>2 DEF Ring
  <2>4. keys' \in Seq(Position)
    BY <1>1, <1>3, <1>7, <1>8, InsortType DEF TypeOK
  <2> QED
    BY <1>1, <1>8, <1>9, <2>3, <2>4 DEF TypeOK
<1>11. MembersAnnounced'
  BY <1>1, <1>8, <1>9 DEF MembersAnnounced, Idle
<1>12. ASSUME NEW v \in VirtualNode PROVE Placed(v)' <=> (Placed(v) \/ v = w)
  <2>1. v = <<v[1], v[2]>> /\ v[1] \in NodeId /\ v[2] \in 0 .. Replicas - 1
    BY DEF VirtualNode
  <2>2. v = w <=> (v[1] = op.node /\ v[2] = op.i)
    BY <2>1
  <2>3. CASE v[1] # op.node
    BY <1>1, <1>8, <1>9, <2>2, <2>3 DEF Placed, Idle
  <2>4. CASE v[1] = op.node
    <3>1. Placed(v) <=> v[2] < op.i
      BY <1>1, <2>4 DEF Placed
    <3>2. Placed(v)' <=> v[2] < op.i + 1
      <4>1. CASE op.i + 1 = Replicas /\ op' = Idle
        <5>1. Placed(v)'
          BY <1>1, <1>8, <2>4, <4>1 DEF Placed, Idle
        <5> QED
          BY <2>1, <4>1, <5>1, ReplicasAssumption
      <4>2. CASE op' \in Call /\ op'.kind = op.kind /\ op'.node = op.node /\ op'.i = op.i + 1
        BY <1>1, <2>4, <4>2 DEF Placed
      <4> QED
        BY <1>9, <4>1, <4>2
    <3> QED
      BY <1>2, <2>1, <2>2, <2>4, <3>1, <3>2, ReplicasAssumption
  <2> QED
    BY <2>3, <2>4
<1>13. PlacedOwnTheirHash'
  <2> SUFFICES ASSUME NEW v \in VirtualNode, Placed(v)'
               PROVE  hash[v] \in DOMAIN ring' /\ ring'[hash[v]] = v[1]
    BY <1>8 DEF PlacedOwnTheirHash
  <2>1. CASE v = w
    BY <1>7, <1>8, <2>1
  <2>2. CASE v # w
    <3>1. Placed(v)
      BY <1>12, <2>2
    <3>2. hash[v] \in DOMAIN ring /\ ring[hash[v]] = v[1]
      BY <3>1 DEF IInv, PlacedOwnTheirHash
    <3>3. hash[v] # p
      BY <1>6, <1>7, <3>2
    <3> QED
      BY <1>8, <3>2, <3>3
  <2> QED
    BY <2>1, <2>2
<1>14. OnlyPlaced'
  <2> SUFFICES ASSUME NEW q \in DOMAIN ring'
               PROVE  \E v \in VirtualNode : Placed(v)' /\ hash[v] = q
    BY <1>8 DEF OnlyPlaced
  <2>1. CASE q = p
    BY <1>2, <1>7, <1>12, <2>1
  <2>2. CASE q # p
    <3>1. q \in DOMAIN ring
      BY <1>8, <2>2
    <3> QED
      BY <1>12, <3>1 DEF IInv, OnlyPlaced
  <2> QED
    BY <2>1, <2>2
<1> QED
  BY <1>10, <1>11, <1>13, <1>14 DEF IInv

\* The virtual node that remove_node takes away is at its hash.
LEMMA RemoveVirtualNodeKeepsIInv ==
    ASSUME NoCollision, IInv, RemoveVirtualNode
    PROVE  IInv'
<1> DEFINE w == <<op.node, op.i>>
           p == hash[w]
<1>1. TypeOK /\ op \in Call /\ op.kind = "remove" /\ op.node \notin members
  BY DEF IInv, RemoveVirtualNode, TypeOK, MembersAnnounced, Idle
<1>2. op.node \in NodeId /\ op.i \in 0 .. Replicas - 1 /\ w \in VirtualNode
  BY <1>1 DEF Call, VirtualNode
<1>3. hash \in [VirtualNode -> Position] /\ p \in Position
  BY <1>1, <1>2, HashAssumption DEF TypeOK
<1>4. \A u, v \in VirtualNode : hash[u] = hash[v] => u = v
  BY DEF NoCollision
<1>5. Placed(w)
  BY <1>1, <1>2, ReplicasAssumption DEF Placed
<1>6. p \in DOMAIN ring
  BY <1>2, <1>5 DEF IInv, PlacedOwnTheirHash
<1>7. /\ ring' = [q \in DOMAIN ring \ {p} |-> ring[q]]
      /\ keys' = RemoveFirst(keys, p)
      /\ Advance
      /\ hash' = hash /\ members' = members
  BY <1>6 DEF RemoveVirtualNode
<1> HIDE DEF p
<1>8. \/ op.i + 1 = Replicas /\ op' = Idle
      \/ op' \in Call /\ op'.kind = op.kind /\ op'.node = op.node /\ op'.i = op.i + 1
  BY <1>1, <1>7, AdvanceIsTyped
<1>9. TypeOK'
  <2>1. PICK D \in SUBSET Position : ring \in [D -> NodeId]
    BY <1>1 DEF TypeOK, Ring
  <2>2. ring' \in [D \ {p} -> NodeId] /\ D \ {p} \in SUBSET Position
    BY <1>7, <2>1
  <2>3. ring' \in Ring
    BY <2>2 DEF Ring
  <2>4. keys' \in Seq(Position)
    BY <1>1, <1>3, <1>7, RemoveFirstType DEF TypeOK
  <2> QED
    BY <1>1, <1>7, <1>8, <2>3, <2>4 DEF TypeOK
<1>10. MembersAnnounced'
  BY <1>1, <1>7, <1>8 DEF MembersAnnounced, Idle
<1>11. ASSUME NEW v \in VirtualNode PROVE Placed(v)' <=> (Placed(v) /\ v # w)
  <2>1. v = <<v[1], v[2]>> /\ v[1] \in NodeId /\ v[2] \in 0 .. Replicas - 1
    BY DEF VirtualNode
  <2>2. v = w <=> (v[1] = op.node /\ v[2] = op.i)
    BY <2>1
  <2>3. CASE v[1] # op.node
    BY <1>1, <1>7, <1>8, <2>2, <2>3 DEF Placed, Idle
  <2>4. CASE v[1] = op.node
    <3>1. Placed(v) <=> v[2] >= op.i
      BY <1>1, <2>4 DEF Placed
    <3>2. Placed(v)' <=> v[2] >= op.i + 1
      <4>1. CASE op.i + 1 = Replicas /\ op' = Idle
        <5>1. ~Placed(v)'
          BY <1>1, <1>7, <2>4, <4>1 DEF Placed, Idle
        <5> QED
          BY <2>1, <4>1, <5>1, ReplicasAssumption
      <4>2. CASE op' \in Call /\ op'.kind = op.kind /\ op'.node = op.node /\ op'.i = op.i + 1
        BY <1>1, <2>4, <4>2 DEF Placed
      <4> QED
        BY <1>8, <4>1, <4>2
    <3> QED
      BY <1>2, <2>1, <2>2, <2>4, <3>1, <3>2, ReplicasAssumption
  <2> QED
    BY <2>3, <2>4
<1>12. PlacedOwnTheirHash'
  <2> SUFFICES ASSUME NEW v \in VirtualNode, Placed(v)'
               PROVE  hash[v] \in DOMAIN ring' /\ ring'[hash[v]] = v[1]
    BY <1>7 DEF PlacedOwnTheirHash
  <2>1. Placed(v) /\ v # w
    BY <1>11
  <2>2. hash[v] \in DOMAIN ring /\ ring[hash[v]] = v[1]
    BY <2>1 DEF IInv, PlacedOwnTheirHash
  <2>3. hash[v] # p
    BY <1>2, <1>4, <2>1 DEF p
  <2> QED
    BY <1>7, <2>2, <2>3
<1>13. OnlyPlaced'
  <2> SUFFICES ASSUME NEW q \in DOMAIN ring'
               PROVE  \E v \in VirtualNode : Placed(v)' /\ hash[v] = q
    BY <1>7 DEF OnlyPlaced
  <2>1. q \in DOMAIN ring /\ q # p
    BY <1>7
  <2>2. PICK v \in VirtualNode : Placed(v) /\ hash[v] = q
    BY <2>1 DEF IInv, OnlyPlaced
  <2>3. v # w
    BY <2>1, <2>2 DEF p
  <2> QED
    BY <1>11, <2>2, <2>3
<1> QED
  BY <1>9, <1>10, <1>12, <1>13 DEF IInv

\* Every step keeps the invariant.
LEMMA NextIInv == NoCollision /\ IInv /\ [Next]_vars => IInv'
<1> SUFFICES ASSUME NoCollision, IInv, [Next]_vars PROVE IInv'
  OBVIOUS
<1>1. CASE \E n \in NodeId : AddNode(n) \/ RemoveNode(n)
  BY <1>1, StartKeepsIInv
<1>2. CASE AddVirtualNode
  BY <1>2, AddVirtualNodeKeepsIInv
<1>3. CASE RemoveVirtualNode
  BY <1>3, RemoveVirtualNodeKeepsIInv
<1>4. CASE UNCHANGED vars
  BY <1>4 DEF IInv, TypeOK, MembersAnnounced, PlacedOwnTheirHash, OnlyPlaced, Placed, vars
<1> QED
  BY <1>1, <1>2, <1>3, <1>4 DEF Next

LEMMA HashIsFixed == [Next]_vars => hash' = hash
BY DEF Next, AddNode, RemoveNode, AddVirtualNode, RemoveVirtualNode, vars

\* Between calls the invariant is the property.
LEMMA IInvImplies == IInv => RingFollowsMembers
<1> SUFFICES ASSUME IInv, op = Idle
             PROVE  /\ DOMAIN ring = {hash[v] : v \in members \X (0 .. Replicas - 1)}
                    /\ \A v \in members \X (0 .. Replicas - 1) : ring[hash[v]] = v[1]
  BY DEF RingFollowsMembers
<1> DEFINE M == members \X (0 .. Replicas - 1)
<1>1. op.kind = "none" /\ members \subseteq NodeId
  BY DEF IInv, TypeOK, Idle
<1>2. \A v \in VirtualNode : Placed(v) <=> v[1] \in members
  BY <1>1 DEF Placed
<1>3. \A v \in VirtualNode : v[1] \in members <=> v \in M
  BY DEF VirtualNode
<1>4. M \subseteq VirtualNode
  BY <1>1 DEF VirtualNode
<1>5. \A v \in M : hash[v] \in DOMAIN ring /\ ring[hash[v]] = v[1]
  BY <1>2, <1>3, <1>4 DEF IInv, PlacedOwnTheirHash
<1>6. \A q \in DOMAIN ring : \E v \in M : hash[v] = q
  BY <1>2, <1>3 DEF IInv, OnlyPlaced
<1> HIDE DEF M
<1>7. DOMAIN ring = {hash[v] : v \in M}
  BY <1>5, <1>6
<1> QED
  BY <1>5, <1>7 DEF M

-----------------------------------------------------------------------------
\* The dictionary and the list agree with or without collisions.

Sorted(s) == \A i, j \in DOMAIN s : i < j => s[i] < s[j]

\* While add_node runs there is a free position for every virtual node it has
\* still to place.
RoomIsLeft == op.kind = "add" => Cardinality(DOMAIN ring) + Replicas <= RingSize + op.i

KInv == TypeOK /\ KeysMatchRing /\ RoomIsLeft

\* What the arithmetic on lists of positions needs.
LEMMA PositionsAreNumbers ==
    Position \subseteq Int /\ \A s \in Seq(Position) :
        Len(s) \in Nat /\ DOMAIN s = 1 .. Len(s) /\ \A i \in DOMAIN s : s[i] \in Int
<1>1. Position \subseteq Int
  BY RingSizeAssumption DEF Position
<1>2. \A s \in Seq(Position) : Len(s) \in Nat /\ DOMAIN s = 1 .. Len(s)
  OBVIOUS
<1>3. \A s \in Seq(Position) : \A i \in DOMAIN s : s[i] \in Position
  OBVIOUS
<1> QED
  BY <1>1, <1>2, <1>3

\* The rest of a list from an entry on, and the entries of two lists joined.
LEMMA PartProperties ==
    ASSUME NEW s \in Seq(Position), NEW k \in 0 .. Len(s)
    PROVE  /\ SubSeq(s, k + 1, Len(s)) \in Seq(Position)
           /\ Len(SubSeq(s, k + 1, Len(s))) = Len(s) - k
           /\ \A i \in 1 .. Len(s) - k : SubSeq(s, k + 1, Len(s))[i] = s[i + k]
<1> DEFINE n == Len(s)
           a == k + 1
<1>1. n \in Int /\ k \in Int /\ a \in Int /\ k <= n /\ 0 <= k
  OBVIOUS
<1>2. \A i \in a .. n : s[i] \in Position
  OBVIOUS
<1> HIDE DEF n, a
<1>3. /\ SubSeq(s, a, n) \in Seq(Position)
      /\ Len(SubSeq(s, a, n)) = IF a <= n THEN n - a + 1 ELSE 0
      /\ \A i \in 1 .. n - a + 1 : SubSeq(s, a, n)[i] = s[a + i - 1]
  BY <1>1, <1>2, SubSeqProperties
<1>4. n - a + 1 = n - k /\ (IF a <= n THEN n - a + 1 ELSE 0) = n - k
  BY <1>1 DEF a
<1>5. \A i \in 1 .. n - k : a + i - 1 = i + k
  BY <1>1 DEF a
<1> QED
  BY <1>3, <1>4, <1>5 DEF n, a

LEMMA JoinProperties ==
    ASSUME NEW u \in Seq(Position), NEW v \in Seq(Position)
    PROVE  /\ DOMAIN (u \o v) = 1 .. Len(u) + Len(v)
           /\ \A i \in 1 .. Len(u) : (u \o v)[i] = u[i]
           /\ \A i \in 1 .. Len(v) : (u \o v)[i + Len(u)] = v[i]
<1>1. Len(u) \in Nat /\ Len(v) \in Nat
  OBVIOUS
<1>2. /\ u \o v \in Seq(Position)
      /\ Len(u \o v) = Len(u) + Len(v)
      /\ \A i \in 1 .. Len(u) + Len(v) : (u \o v)[i] = IF i <= Len(u) THEN u[i] ELSE v[i - Len(u)]
  BY ConcatProperties, Zenon
<1> QED
  BY <1>1, <1>2

\* bisect_right cuts a sorted list where the greater entries begin.
LEMMA BisectCuts ==
    ASSUME NEW s \in Seq(Position), Sorted(s), NEW p \in Position
    PROVE  /\ Bisect(s, p) \in 0 .. Len(s)
           /\ \A i \in DOMAIN s : s[i] <= p <=> i <= Bisect(s, p)
<1> DEFINE n == Len(s)
           below == {i \in DOMAIN s : s[i] <= p}
           above == {i \in DOMAIN s : ~(s[i] <= p)}
<1>1. n \in Nat /\ DOMAIN s = 1 .. n /\ \A i \in DOMAIN s : s[i] \in Int
  BY PositionsAreNumbers
<1>2. p \in Int
  BY PositionsAreNumbers
<1>3. \E k \in 0 .. n : \A i \in DOMAIN s : s[i] <= p <=> i <= k
  <2>1. CASE above = {}
    <3>1. \A i \in DOMAIN s : s[i] <= p
      BY <2>1
    <3>2. n \in 0 .. n /\ \A i \in DOMAIN s : i <= n
      BY <1>1
    <3> QED
      BY <3>1, <3>2
  <2>2. CASE above # {}
    <3>1. above \in SUBSET Nat
      BY <1>1
    <3> HIDE DEF above
    <3>2. PICK m \in above : \A i \in above : m <= i
      BY <2>2, <3>1, Least
    <3>3. m \in 1 .. n /\ ~(s[m] <= p)
      BY <1>1, <3>2 DEF above
    <3>4. ASSUME NEW i \in DOMAIN s PROVE s[i] <= p <=> i <= m - 1
      <4>1. CASE i < m
        BY <1>1, <3>1, <3>2, <3>3, <4>1 DEF above
      <4>2. CASE i = m
        BY <3>3, <4>2
      <4>3. CASE m < i
        <5>1. s[m] < s[i]
          BY <1>1, <3>3, <4>3 DEF Sorted
        <5> QED
          BY <1>1, <1>2, <3>3, <4>3, <5>1
      <4> QED
        BY <1>1, <3>3, <4>1, <4>2, <4>3
    <3>5. m - 1 \in 0 .. n
      BY <1>1, <3>3
    <3> QED
      BY <3>4, <3>5
  <2> QED
    BY <2>1, <2>2
<1>4. PICK k \in 0 .. n : \A i \in DOMAIN s : s[i] <= p <=> i <= k
  BY <1>3
<1>5. below = 1 .. k
  BY <1>1, <1>4
<1> HIDE DEF n
<1>6. Cardinality(1 .. k) = k
  <2>1. 1 \in Int /\ k \in Int /\ k \in Nat
    BY <1>1, <1>4
  <2> HIDE <1>4
  <2>2. Cardinality(1 .. k) = IF 1 > k THEN 0 ELSE k - 1 + 1
    BY <2>1, FS_Interval, Zenon
  <2> QED
    BY <2>1, <2>2
<1>7. Bisect(s, p) = k
  BY <1>5, <1>6 DEF Bisect
<1> QED
  BY <1>4, <1>7 DEF n

\* insort of an entry the list has not keeps it sorted and adds just the entry.
LEMMA InsortKeepsSorted ==
    ASSUME NEW s \in Seq(Position), Sorted(s), NEW p \in Position, p \notin ToSet(s)
    PROVE  Sorted(Insort(s, p)) /\ ToSet(Insort(s, p)) = ToSet(s) \cup {p}
<1> DEFINE k == Bisect(s, p)
           t == Insort(s, p)
<1>1. k \in 0 .. Len(s) /\ \A i \in DOMAIN s : s[i] <= p <=> i <= k
  BY BisectCuts
<1>2. Len(s) \in Nat /\ DOMAIN s = 1 .. Len(s) /\ \A i \in DOMAIN s : s[i] \in Int
  BY PositionsAreNumbers
<1>3. p \in Int /\ \A i \in DOMAIN s : s[i] # p
  BY PositionsAreNumbers DEF ToSet
<1>4. t = SubSeq(s, 1, k) \o <<p>> \o SubSeq(s, k + 1, Len(s))
  <2> DEFINE j == k + 1
  <2>1. t = InsertAt(s, j, p)
    BY DEF Insort
  <2> HIDE DEF k, t, j
  <2>2. k = j - 1
    BY <1>1, <1>2 DEF j
  <2>3. t = SubSeq(s, 1, k) \o <<p>> \o SubSeq(s, j, Len(s))
    BY <2>1, <2>2, Zenon DEF InsertAt
  <2> QED
    BY <2>3, Zenon DEF j
<1> HIDE DEF k, t
<1>5. /\ DOMAIN t = 1 .. Len(s) + 1
      /\ \A i \in 1 .. k : t[i] = s[i]
      /\ t[k + 1] = p
      /\ \A i \in k + 1 .. Len(s) : t[i + 1] = s[i]
  <2> DEFINE a == SubSeq(s, 1, k)
             b == a \o <<p>>
             c == SubSeq(s, k + 1, Len(s))
  <2>1. a \in Seq(Position) /\ Len(a) = k /\ \A i \in 1 .. k : a[i] = s[i]
    BY <1>1, <1>2
  <2>2. c \in Seq(Position) /\ Len(c) = Len(s) - k /\ \A i \in 1 .. Len(s) - k : c[i] = s[i + k]
    BY <1>1, <1>2, PartProperties
  <2>3. t = b \o c
    BY <1>4
  <2> HIDE DEF a, c
  <2>4. b \in Seq(Position) /\ Len(b) = k + 1 /\ b[k + 1] = p /\ \A i \in 1 .. k : b[i] = a[i]
    <3> DEFINE d == <<p>>
    <3>1. d \in Seq(Position) /\ Len(d) = 1 /\ d[1] = p
      OBVIOUS
    <3>2. b = a \o d
      OBVIOUS
    <3> HIDE DEF b, d
    <3>3. b \in Seq(Position) /\ Len(b) = Len(a) + Len(d)
      BY <2>1, <3>1, <3>2, ConcatProperties, Zenon
    <3>4. DOMAIN b = 1 .. Len(a) + Len(d)
          /\ (\A i \in 1 .. Len(a) : b[i] = a[i])
          /\ \A i \in 1 .. Len(d) : b[i + Len(a)] = d[i]
      BY <2>1, <3>1, <3>2, JoinProperties, Zenon
    <3>5. b[1 + k] = p
      BY <2>1, <3>1, <3>4
    <3>6. 1 + k = k + 1
      BY <1>1, <1>2
    <3> QED
      BY <2>1, <3>1, <3>3, <3>4, <3>5, <3>6
  <2> HIDE DEF b
  <2>5. /\ DOMAIN t = 1 .. (k + 1) + (Len(s) - k)
        /\ \A i \in 1 .. k + 1 : t[i] = b[i]
        /\ \A i \in 1 .. Len(s) - k : t[i + (k + 1)] = c[i]
    <3>1. /\ DOMAIN t = 1 .. Len(b) + Len(c)
          /\ \A i \in 1 .. Len(b) : t[i] = b[i]
          /\ \A i \in 1 .. Len(c) : t[i + Len(b)] = c[i]
      BY <2>2, <2>3, <2>4, JoinProperties, Zenon
    <3> QED
      BY <2>2, <2>4, <3>1, Zenon
  <2>6. \A i \in k + 1 .. Len(s) : t[i + 1] = s[i]
    <3> TAKE i \in k + 1 .. Len(s)
    <3>1. i - k \in 1 .. Len(s) - k /\ (i - k) + (k + 1) = i + 1 /\ (i - k) + k = i
      BY <1>1, <1>2
    <3> QED
      BY <2>2, <2>5, <3>1
  <2> QED
    BY <1>1, <1>2, <2>1, <2>4, <2>5, <2>6
<1>6. \A i \in DOMAIN t : \/ i \in 1 .. k /\ t[i] = s[i] /\ s[i] < p
                          \/ i = k + 1 /\ t[i] = p
                          \/ i - 1 \in k + 1 .. Len(s) /\ t[i] = s[i - 1] /\ p < s[i - 1]
  <2> TAKE i \in DOMAIN t
  <2>1. CASE i <= k
    BY <1>1, <1>2, <1>3, <1>5, <2>1
  <2>2. CASE i = k + 1
    BY <1>5, <2>2
  <2>3. CASE i > k + 1
    <3>1. i - 1 \in k + 1 .. Len(s) /\ i = (i - 1) + 1
      BY <1>1, <1>2, <1>5, <2>3
    <3>2. t[i] = s[i - 1]
      BY <1>5, <3>1
    <3>3. ~(s[i - 1] <= p) /\ s[i - 1] \in Int
      BY <1>1, <1>2, <3>1
    <3> QED
      BY <1>3, <3>1, <3>2, <3>3
  <2> QED
    BY <1>1, <1>2, <1>5, <2>1, <2>2, <2>3
<1>7. Sorted(t)
  <2> SUFFICES ASSUME NEW i \in DOMAIN t, NEW j \in DOMAIN t, i < j PROVE t[i] < t[j]
    BY DEF Sorted
  <2>1. \A a, b \in DOMAIN s : a < b => s[a] < s[b]
    BY DEF Sorted
  <2>2. CASE i \in 1 .. k /\ j \in 1 .. k
    BY <1>1, <1>2, <1>5, <2>1, <2>2
  <2>3. CASE i - 1 \in k + 1 .. Len(s) /\ j - 1 \in k + 1 .. Len(s)
    <3>1. t[i] = s[i - 1] /\ t[j] = s[j - 1]
      BY <1>1, <1>2, <1>6, <2>3
    <3>2. i - 1 \in DOMAIN s /\ j - 1 \in DOMAIN s /\ i - 1 < j - 1
      BY <1>1, <1>2, <1>5, <2>3
    <3> QED
      BY <2>1, <3>1, <3>2
  <2>4. CASE ~(i \in 1 .. k /\ j \in 1 .. k) /\ ~(i - 1 \in k + 1 .. Len(s) /\ j - 1 \in k + 1 .. Len(s))
    <3>1. i \in 1 .. Len(s) + 1 /\ j \in 1 .. Len(s) + 1
      BY <1>5
    <3>2. \/ i \in 1 .. k /\ t[i] < p /\ ((j = k + 1 /\ t[j] = p) \/ t[j] > p)
          \/ i = k + 1 /\ t[i] = p /\ t[j] > p
      <4>1. CASE i \in 1 .. k
        BY <1>1, <1>2, <1>3, <1>6, <2>4, <4>1
      <4>2. CASE i = k + 1
        BY <1>1, <1>2, <1>3, <1>6, <3>1, <4>2
      <4>3. CASE i > k + 1
        BY <1>1, <1>2, <2>4, <3>1, <4>3
      <4> QED
        BY <1>1, <1>2, <3>1, <4>1, <4>2, <4>3
    <3>3. t[i] \in Int /\ t[j] \in Int
      BY <1>2, <1>3, <1>6, <1>1
    <3> QED
      BY <1>3, <3>2, <3>3
  <2> QED
    BY <2>2, <2>3, <2>4
<1>8. ASSUME NEW x PROVE x \in ToSet(t) <=> x \in ToSet(s) \/ x = p
  <2>1. ASSUME x \in ToSet(t) PROVE x \in ToSet(s) \/ x = p
    <3>1. PICK i \in DOMAIN t : x = t[i]
      BY <2>1 DEF ToSet
    <3> QED
      BY <1>1, <1>2, <1>6, <3>1 DEF ToSet
  <2>2. ASSUME x \in ToSet(s) PROVE x \in ToSet(t)
    <3>1. PICK i \in DOMAIN s : x = s[i]
      BY <2>2 DEF ToSet
    <3>2. CASE i <= k
      BY <1>1, <1>2, <1>5, <3>1, <3>2 DEF ToSet
    <3>3. CASE i > k
      <4>1. i \in k + 1 .. Len(s) /\ i + 1 \in DOMAIN t
        BY <1>1, <1>2, <1>5, <3>3
      <4> QED
        BY <1>5, <3>1, <4>1 DEF ToSet
    <3> QED
      BY <1>1, <1>2, <3>2, <3>3
  <2>3. p \in ToSet(t)
    BY <1>1, <1>2, <1>5 DEF ToSet
  <2> QED
    BY <2>1, <2>2, <2>3
<1>9. ToSet(t) = ToSet(s) \cup {p}
  BY <1>8
<1> QED
  BY <1>7, <1>9 DEF t

\* Removing an entry of a sorted list keeps it sorted and drops just the entry.
LEMMA RemoveFirstKeepsSorted ==
    ASSUME NEW s \in Seq(Position), Sorted(s), NEW p \in ToSet(s)
    PROVE  Sorted(RemoveFirst(s, p)) /\ ToSet(RemoveFirst(s, p)) = ToSet(s) \ {p}
<1> DEFINE t == RemoveFirst(s, p)
           I == {i \in 1 .. Len(s) : s[i] = p}
           m == Min(I)
<1>1. Len(s) \in Nat /\ DOMAIN s = 1 .. Len(s) /\ \A i \in DOMAIN s : s[i] \in Int
  BY PositionsAreNumbers
<1>2. I # {} /\ I \in SUBSET Nat
  BY <1>1 DEF ToSet
<1>3. t = RemoveAt(s, m)
  BY <1>2 DEF RemoveFirst, SelectInSeq
<1>4. m \in I
  <2> HIDE DEF I
  <2>1. \E x \in I : \A y \in I : x <= y
    BY <1>2, Least
  <2> QED
    BY <2>1, Zenon DEF Min
<1> HIDE DEF m
<1>5. m \in 1 .. Len(s) /\ s[m] = p
  BY <1>4
<1>6. t = SubSeq(s, 1, m - 1) \o SubSeq(s, m + 1, Len(s))
  BY <1>3 DEF RemoveAt
<1> HIDE DEF t, I
<1>7. /\ DOMAIN t = 1 .. Len(s) - 1
      /\ \A i \in 1 .. m - 1 : t[i] = s[i]
      /\ \A i \in m + 1 .. Len(s) : t[i - 1] = s[i]
  <2> DEFINE a == SubSeq(s, 1, m - 1)
             c == SubSeq(s, m + 1, Len(s))
  <2>1. a \in Seq(Position) /\ Len(a) = m - 1 /\ \A i \in 1 .. m - 1 : a[i] = s[i]
    BY <1>1, <1>5
  <2>2. c \in Seq(Position) /\ Len(c) = Len(s) - m /\ \A i \in 1 .. Len(s) - m : c[i] = s[i + m]
    <3>1. m \in 0 .. Len(s)
      BY <1>1, <1>5
    <3> QED
      BY <3>1, PartProperties, Zenon
  <2>3. t = a \o c
    BY <1>6
  <2> HIDE DEF a, c
  <2>4. /\ DOMAIN t = 1 .. (m - 1) + (Len(s) - m)
        /\ \A i \in 1 .. m - 1 : t[i] = a[i]
        /\ \A i \in 1 .. Len(s) - m : t[i + (m - 1)] = c[i]
    <3>1. /\ DOMAIN t = 1 .. Len(a) + Len(c)
          /\ \A i \in 1 .. Len(a) : t[i] = a[i]
          /\ \A i \in 1 .. Len(c) : t[i + Len(a)] = c[i]
      BY <2>1, <2>2, <2>3, JoinProperties, Zenon
    <3> QED
      BY <2>1, <2>2, <3>1, Zenon
  <2>5. \A i \in m + 1 .. Len(s) : t[i - 1] = s[i]
    <3> TAKE i \in m + 1 .. Len(s)
    <3>1. i - m \in 1 .. Len(s) - m /\ (i - m) + (m - 1) = i - 1 /\ (i - m) + m = i
      BY <1>1, <1>5
    <3> QED
      BY <2>2, <2>4, <3>1
  <2> QED
    BY <1>1, <1>5, <2>1, <2>4, <2>5
<1>8. \A a, b \in DOMAIN s : a < b => s[a] < s[b]
  BY DEF Sorted
<1> DEFINE From(i) == IF i < m THEN i ELSE i + 1
<1>9. \A i \in DOMAIN t : From(i) \in DOMAIN s /\ From(i) # m /\ t[i] = s[From(i)]
  <2> TAKE i \in DOMAIN t
  <2>1. CASE i < m
    BY <1>1, <1>5, <1>7, <2>1
  <2>2. CASE ~(i < m)
    <3>1. i + 1 \in m + 1 .. Len(s) /\ (i + 1) - 1 = i
      BY <1>1, <1>5, <1>7, <2>2
    <3> QED
      BY <1>1, <1>5, <1>7, <2>2, <3>1
  <2> QED
    BY <2>1, <2>2
<1>10. Sorted(t)
  <2> SUFFICES ASSUME NEW i \in DOMAIN t, NEW j \in DOMAIN t, i < j PROVE t[i] < t[j]
    BY DEF Sorted
  <2>1. From(i) < From(j)
    BY <1>5, <1>7, <1>1
  <2> HIDE DEF From
  <2> QED
    BY <1>8, <1>9, <2>1
<1>11. ASSUME NEW x PROVE x \in ToSet(t) <=> x \in ToSet(s) /\ x # p
  <2>1. ASSUME x \in ToSet(t) PROVE x \in ToSet(s) /\ x # p
    <3>1. PICK i \in DOMAIN t : x = t[i]
      BY <2>1 DEF ToSet
    <3> DEFINE j == From(i)
    <3>2. j \in DOMAIN s /\ j # m /\ x = s[j]
      BY <1>9, <3>1
    <3> HIDE DEF j
    <3>3. s[j] # s[m]
      <4>1. j < m \/ m < j
        BY <1>1, <1>5, <3>2
      <4> QED
        BY <1>1, <1>5, <1>8, <3>2, <4>1
    <3> QED
      BY <1>5, <3>2, <3>3 DEF ToSet
  <2>2. ASSUME x \in ToSet(s), x # p PROVE x \in ToSet(t)
    <3>1. PICK i \in DOMAIN s : x = s[i]
      BY <2>2 DEF ToSet
    <3>2. i # m
      BY <1>5, <2>2, <3>1
    <3>3. CASE i < m
      BY <1>1, <1>5, <1>7, <3>1, <3>3, SMTT(40) DEF ToSet
    <3>4. CASE i > m
      <4>1. i \in m + 1 .. Len(s) /\ i - 1 \in DOMAIN t
        BY <1>1, <1>5, <1>7, <3>4
      <4> QED
        BY <1>7, <3>1, <4>1 DEF ToSet
    <3> QED
      BY <1>1, <1>5, <3>2, <3>3, <3>4
  <2> QED
    BY <2>1, <2>2
<1>12. ToSet(t) = ToSet(s) \ {p}
  BY <1>11
<1> QED
  BY <1>10, <1>12 DEF t

\* Going once around a circle of n places from place p meets every place.
LEMMA TurnMeetsAll ==
    ASSUME NEW n \in Nat \ {0}, NEW p \in 0 .. n - 1, NEW q \in 0 .. n - 1
    PROVE  \E d \in 0 .. n - 1 : (p + d) % n = q
<1>1. CASE p <= q
  <2>1. q - p \in 0 .. n - 1 /\ p + (q - p) = q
    BY <1>1
  <2>2. q % n = q
    OBVIOUS
  <2> QED
    BY <2>1, <2>2
<1>2. CASE q < p
  <2>1. q - p + n \in 0 .. n - 1 /\ p + (q - p + n) = q + n
    BY <1>2
  <2>2. (q + n) % n = q
    OBVIOUS
  <2> QED
    BY <2>1, <2>2
<1> QED
  BY <1>1, <1>2

\* Probing once around the ring meets every position.
LEMMA ProbingMeetsAll ==
    ASSUME NEW p \in Position, NEW q \in Position
    PROVE  \E d \in Position : (p + d) % RingSize = q
BY RingSizeAssumption, TurnMeetsAll DEF Position

\* Probing finds a free position as long as there is one.
LEMMA FreeIsFree ==
    ASSUME NEW r, DOMAIN r \subseteq Position, Cardinality(DOMAIN r) < RingSize,
           NEW p \in Position
    PROVE  FreePosition(r, p) \in Position \ DOMAIN r
<1> DEFINE Probe(d) == (p + d) % RingSize
           free == {d \in Position : Probe(d) \notin DOMAIN r}
           first == CHOOSE d \in free : \A e \in free : d <= e
<1>1. IsFiniteSet(Position) /\ Cardinality(Position) = RingSize
  <2>1. 0 \in Int /\ RingSize - 1 \in Int /\ RingSize \in Nat \ {0}
    BY RingSizeAssumption
  <2>2. IsFiniteSet(0 .. RingSize - 1)
        /\ Cardinality(0 .. RingSize - 1) = IF 0 > RingSize - 1 THEN 0 ELSE RingSize - 1 - 0 + 1
    BY <2>1, FS_Interval, Zenon
  <2> QED
    BY <2>1, <2>2 DEF Position
<1>2. PICK q \in Position : q \notin DOMAIN r
  <2>1. DOMAIN r # Position
    BY <1>1, RingSizeAssumption
  <2> QED
    BY <2>1
<1>3. free # {}
  BY <1>2, ProbingMeetsAll
<1>4. free \in SUBSET Nat
  BY RingSizeAssumption DEF Position
<1>5. FreePosition(r, p) = Probe(first)
  BY DEF FreePosition
<1>6. first \in free
  <2> HIDE DEF free
  <2>1. \E d \in free : \A e \in free : d <= e
    BY <1>3, <1>4, Least
  <2> QED
    BY <2>1
<1> HIDE DEF first
<1>7. Probe(first) \notin DOMAIN r /\ first \in Position
  BY <1>6
<1>8. Probe(first) \in Position
  BY <1>7, RingSizeAssumption DEF Position
<1> QED
  BY <1>5, <1>7, <1>8

\* Nothing is on the ring at first.
LEMMA InitKInv == Init => KInv
<1> SUFFICES ASSUME Init PROVE KInv
  OBVIOUS
<1>1. TypeOK
  BY InitIInv DEF IInv
<1>2. keys = << >> /\ DOMAIN ring = {} /\ op = Idle
  BY DEF Init
<1>3. ToSet(keys) = {} /\ Sorted(keys)
  BY <1>2 DEF ToSet, Sorted
<1> QED
  BY <1>1, <1>2, <1>3 DEF KInv, KeysMatchRing, RoomIsLeft, Idle, Sorted

\* A call starts with room for all its virtual nodes.
LEMMA StartKeepsKInv ==
    ASSUME KInv, NEW n \in NodeId, AddNode(n) \/ RemoveNode(n)
    PROVE  KInv'
<1>1. TypeOK /\ ring' = ring /\ keys' = keys /\ hash' = hash
  BY DEF KInv, AddNode, RemoveNode
<1>2. op' \in Call /\ members' \subseteq NodeId
  <2>1. 0 \in 0 .. Replicas - 1
    BY ReplicasAssumption
  <2>2. CASE AddNode(n)
    BY <1>1, <2>1, <2>2 DEF AddNode, TypeOK, Call
  <2>3. CASE RemoveNode(n)
    BY <1>1, <2>1, <2>3 DEF RemoveNode, TypeOK, Call
  <2> QED
    BY <2>2, <2>3
<1>3. TypeOK'
  BY <1>1, <1>2 DEF TypeOK
<1>4. KeysMatchRing'
  BY <1>1 DEF KInv, KeysMatchRing
<1>5. RoomIsLeft'
  <2>1. CASE AddNode(n)
    <3>1. op'.i = 0
      BY <2>1 DEF AddNode
    <3>2. Cardinality(DOMAIN ring) + Replicas <= RingSize
      BY <2>1 DEF AddNode
    <3>3. RingSize + 0 = RingSize
      BY RingSizeAssumption
    <3> QED
      BY <1>1, <3>1, <3>2, <3>3 DEF RoomIsLeft
  <2>2. CASE RemoveNode(n)
    BY <2>2 DEF RemoveNode, RoomIsLeft
  <2> QED
    BY <2>1, <2>2
<1> QED
  BY <1>3, <1>4, <1>5 DEF KInv

\* Where add_node places a virtual node nothing was, in the dictionary and in
\* the list.
LEMMA AddVirtualNodeKeepsKInv ==
    ASSUME KInv, AddVirtualNode
    PROVE  KInv'
<1> DEFINE p == FreePosition(ring, hash[<<op.node, op.i>>])
<1>1. TypeOK /\ op \in Call /\ op.kind = "add"
  BY DEF KInv, AddVirtualNode, TypeOK, Idle
<1>2. op.node \in NodeId /\ op.i \in 0 .. Replicas - 1 /\ hash[<<op.node, op.i>>] \in Position
  BY <1>1, HashAssumption DEF TypeOK, Call, VirtualNode
<1>3. PICK D \in SUBSET Position : ring \in [D -> NodeId]
  BY <1>1 DEF TypeOK, Ring
<1>4. IsFiniteSet(DOMAIN ring) /\ Cardinality(DOMAIN ring) \in Nat
  <2>1. IsFiniteSet(Position)
    BY RingSizeAssumption, FS_Interval DEF Position
  <2> QED
    BY <1>3, <2>1, FS_Subset, FS_CardinalityType
<1>5. Cardinality(DOMAIN ring) + Replicas <= RingSize + op.i
  BY <1>1 DEF KInv, RoomIsLeft
<1>6. p \in Position \ DOMAIN ring
  <2>1. Cardinality(DOMAIN ring) < RingSize
    BY <1>2, <1>4, <1>5, ReplicasAssumption, RingSizeAssumption
  <2> QED
    BY <1>2, <1>3, <2>1, FreeIsFree
<1>7. /\ ring' = [q \in DOMAIN ring \cup {p} |-> IF q = p THEN op.node ELSE ring[q]]
      /\ keys' = Insort(keys, p)
      /\ Advance
      /\ hash' = hash /\ members' = members
  BY DEF AddVirtualNode
<1> HIDE DEF p
<1>8. \/ op' = Idle
      \/ op' \in Call /\ op'.i = op.i + 1
  BY <1>1, <1>7, AdvanceIsTyped
<1>9. TypeOK'
  <2>1. ring' \in [D \cup {p} -> NodeId] /\ D \cup {p} \in SUBSET Position
    BY <1>2, <1>3, <1>6, <1>7
  <2>2. ring' \in Ring
    BY <2>1 DEF Ring
  <2>3. keys' \in Seq(Position)
    BY <1>1, <1>6, <1>7, InsortType DEF TypeOK
  <2> QED
    BY <1>1, <1>7, <1>8, <2>2, <2>3 DEF TypeOK
<1>10. KeysMatchRing'
  <2>1. keys \in Seq(Position) /\ Sorted(keys) /\ p \notin ToSet(keys) /\ ToSet(keys) = DOMAIN ring
    BY <1>1, <1>6 DEF KInv, TypeOK, KeysMatchRing, Sorted
  <2>2. Sorted(Insort(keys, p)) /\ ToSet(Insort(keys, p)) = ToSet(keys) \cup {p}
    BY <1>6, <2>1, InsortKeepsSorted
  <2>3. DOMAIN ring' = DOMAIN ring \cup {p}
    BY <1>7
  <2>4. ToSet(keys') = DOMAIN ring' /\ Sorted(keys')
    BY <1>7, <2>1, <2>2, <2>3
  <2> QED
    BY <2>4 DEF KeysMatchRing, Sorted
<1>11. RoomIsLeft'
  <2>1. CASE op' = Idle
    BY <2>1 DEF RoomIsLeft, Idle
  <2>2. CASE op' \in Call /\ op'.i = op.i + 1
    <3>1. DOMAIN ring' = DOMAIN ring \cup {p}
      BY <1>7
    <3>2. Cardinality(DOMAIN ring') = Cardinality(DOMAIN ring) + 1
      BY <1>4, <1>6, <3>1, FS_AddElement
    <3>3. Cardinality(DOMAIN ring') + Replicas <= RingSize + op'.i
      BY <1>2, <1>4, <1>5, <2>2, <3>2, ReplicasAssumption, RingSizeAssumption
    <3> QED
      BY <3>3 DEF RoomIsLeft
  <2> QED
    BY <1>8, <2>1, <2>2
<1> QED
  BY <1>9, <1>10, <1>11 DEF KInv

\* remove_node takes a position from both or from none.
LEMMA RemoveVirtualNodeKeepsKInv ==
    ASSUME KInv, RemoveVirtualNode
    PROVE  KInv'
<1> DEFINE p == hash[<<op.node, op.i>>]
<1>1. TypeOK /\ op \in Call /\ op.kind = "remove"
  BY DEF KInv, RemoveVirtualNode, TypeOK, Idle
<1>2. p \in Position
  BY <1>1, HashAssumption DEF TypeOK, Call, VirtualNode
<1>3. /\ IF p \in DOMAIN ring
         THEN ring' = [q \in DOMAIN ring \ {p} |-> ring[q]] /\ keys' = RemoveFirst(keys, p)
         ELSE ring' = ring /\ keys' = keys
      /\ Advance
      /\ hash' = hash /\ members' = members
  BY DEF RemoveVirtualNode
<1> HIDE DEF p
<1>4. \/ op' = Idle
      \/ op' \in Call /\ op'.kind = op.kind
  BY <1>1, <1>3, AdvanceIsTyped
<1>5. RoomIsLeft'
  BY <1>1, <1>4 DEF RoomIsLeft, Idle
<1>6. keys \in Seq(Position) /\ Sorted(keys) /\ ToSet(keys) = DOMAIN ring
  BY <1>1 DEF KInv, TypeOK, KeysMatchRing, Sorted
<1>7. ring' \in Ring /\ keys' \in Seq(Position)
  <2>1. CASE p \in DOMAIN ring
    <3>1. PICK D \in SUBSET Position : ring \in [D -> NodeId]
      BY <1>1 DEF TypeOK, Ring
    <3>2. ring' \in [D \ {p} -> NodeId] /\ D \ {p} \in SUBSET Position
      BY <1>3, <2>1, <3>1
    <3>3. ring' \in Ring
      BY <3>2 DEF Ring
    <3> QED
      BY <1>2, <1>3, <1>6, <2>1, <3>3, RemoveFirstType
  <2>2. CASE p \notin DOMAIN ring
    BY <1>1, <1>3, <2>2 DEF TypeOK
  <2> QED
    BY <2>1, <2>2
<1>8. TypeOK'
  BY <1>1, <1>3, <1>4, <1>7 DEF TypeOK
<1>9. ToSet(keys') = DOMAIN ring' /\ Sorted(keys')
  <2>1. CASE p \in DOMAIN ring
    <3>1. Sorted(RemoveFirst(keys, p)) /\ ToSet(RemoveFirst(keys, p)) = ToSet(keys) \ {p}
      BY <1>6, <2>1, RemoveFirstKeepsSorted
    <3>2. DOMAIN ring' = DOMAIN ring \ {p}
      BY <1>3, <2>1
    <3> QED
      BY <1>3, <1>6, <2>1, <3>1, <3>2
  <2>2. CASE p \notin DOMAIN ring
    BY <1>3, <1>6, <2>2
  <2> QED
    BY <2>1, <2>2
<1>10. KeysMatchRing'
  BY <1>9 DEF KeysMatchRing, Sorted
<1> QED
  BY <1>5, <1>8, <1>10 DEF KInv

\* Every step keeps the dictionary and the list alike.
LEMMA NextKInv == KInv /\ [Next]_vars => KInv'
<1> SUFFICES ASSUME KInv, [Next]_vars PROVE KInv'
  OBVIOUS
<1>1. CASE \E n \in NodeId : AddNode(n) \/ RemoveNode(n)
  BY <1>1, StartKeepsKInv
<1>2. CASE AddVirtualNode
  BY <1>2, AddVirtualNodeKeepsKInv
<1>3. CASE RemoveVirtualNode
  BY <1>3, RemoveVirtualNodeKeepsKInv
<1>4. CASE UNCHANGED vars
  BY <1>4 DEF KInv, TypeOK, KeysMatchRing, RoomIsLeft, vars
<1> QED
  BY <1>1, <1>2, <1>3, <1>4 DEF Next
-----------------------------------------------------------------------------
\* The loop of get_nodes.

\* What one iteration makes of the result, at node x.
Keep(result, x, n) == IF Len(result) >= n \/ Contains(result, x) THEN result ELSE Append(result, x)

\* c[m] is the result after the first m nodes of the walk w.
IsLoop(w, n, c) ==
    /\ c \in [0 .. Len(w) -> Seq(NodeId)]
    /\ c[0] = << >>
    /\ \A m \in 1 .. Len(w) : c[m] = Keep(c[m - 1], w[m], n)
    /\ c[Len(w)] = Collect(w, n)

LEMMA KeepType ==
    ASSUME NEW result \in Seq(NodeId), NEW x \in NodeId, NEW n
    PROVE  Keep(result, x, n) \in Seq(NodeId)
<1>1. Append(result, x) \in Seq(NodeId)
  OBVIOUS
<1> QED
  BY <1>1, Zenon DEF Keep

\* A set of positions of a list has a last one.
LEMMA LastOf ==
    ASSUME NEW n \in Nat, NEW s \in SUBSET (1 .. n), s # {}
    PROVE  Max(s) \in s /\ \A i \in s : Max(s) >= i
<1> DEFINE T == {k \in 0 .. n : n - k \in s}
<1>1. T \in SUBSET Nat /\ T # {}
  <2>1. PICK i \in s : TRUE
    OBVIOUS
  <2>2. n - i \in 0 .. n /\ n - (n - i) = i
    OBVIOUS
  <2>3. n - i \in T
    BY <2>2
  <2>4. \A k \in T : k \in Nat
    OBVIOUS
  <2> HIDE DEF T
  <2> QED
    BY <2>3, <2>4
<1>2. PICK k \in T : \A l \in T : k <= l
  <2> HIDE DEF T
  <2> QED
    BY <1>1, Least
<1>3. n - k \in s /\ k \in 0 .. n
  BY <1>2
<1>4. \A i \in s : n - k >= i
  <2> SUFFICES ASSUME NEW i \in s PROVE n - k >= i
    OBVIOUS
  <2>1. n - i \in T
    <3>1. n - i \in 0 .. n /\ n - (n - i) = i
      OBVIOUS
    <3> QED
      BY <3>1
  <2> QED
    BY <1>2, <1>3, <2>1
<1>5. \E x \in s : \A y \in s : x >= y
  BY <1>3, <1>4
<1> QED
  BY <1>5, Zenon DEF Max

\* The fold that get_nodes' loop is modelled by is that loop.
LEMMA LoopExists ==
    ASSUME NEW w \in Seq(NodeId), NEW n
    PROVE  \E c : IsLoop(w, n, c)
<1> DEFINE D == DOMAIN w
           V == Seq(NodeId)
           last == [s \in SUBSET D |-> Max(s)]
           F == [p \in D \X V |-> Keep(p[2], w[p[1]], n)]
           IsIter(g) == g = [s \in SUBSET D |->
                                IF s = {} THEN << >>
                                ELSE LET x == Max(s)
                                     IN  IF Len(g[s \ {x}]) >= n \/ Contains(g[s \ {x}], w[x])
                                         THEN g[s \ {x}] ELSE Append(g[s \ {x}], w[x])]
           iter == CHOOSE g : IsIter(g)
<1>1. Collect(w, n) = iter[D]
  BY DEF Collect, FoldLeft, MapThenFoldSet
<1>2. Len(w) \in Nat /\ D = 1 .. Len(w) /\ \A m \in D : w[m] \in NodeId
  OBVIOUS
<1>3. IsFiniteSet(D)
  <2> HIDE DEF D
  <2> QED
    BY <1>2, FS_Interval
<1>4. \A s \in SUBSET D : last[s] = Max(s)
  OBVIOUS
<1>5. Chooses(last, D)
  <2> HIDE DEF last, D
  <2>1. \A s \in SUBSET D : s # {} => Max(s) \in s
    BY <1>2, LastOf
  <2> QED
    BY <1>4, <2>1 DEF Chooses
<1>6. F \in [D \X V -> V] /\ \A x \in D, v \in V : F[<<x, v>>] = Keep(v, w[x], n)
  <2>1. \A x \in D, v \in V : Keep(v, w[x], n) \in V
    BY <1>2, KeepType
  <2> HIDE DEF V, D
  <2> QED
    BY <2>1
<1>7. << >> \in V
  OBVIOUS
<1> HIDE DEF D, V, last, F, iter
<1>8. \E h \in [SUBSET D -> V] : IsFold(F, << >>, last, D, h)
  BY <1>3, <1>5, <1>6, <1>7, FoldExists
<1>9. PICK h \in [SUBSET D -> V] :
          \A s \in SUBSET D : h[s] = IF s = {} THEN << >> ELSE F[<<last[s], h[s \ {last[s]}]>>]
  BY <1>8 DEF IsFold
<1>10. \A s \in SUBSET D : h[s] = IF s = {} THEN << >> ELSE Keep(h[s \ {Max(s)}], w[Max(s)], n)
  <2> SUFFICES ASSUME NEW s \in SUBSET D, s # {} PROVE h[s] = Keep(h[s \ {Max(s)}], w[Max(s)], n)
    BY <1>9
  <2>1. Max(s) \in s /\ last[s] = Max(s)
    BY <1>4, <1>5 DEF Chooses
  <2>2. Max(s) \in D /\ s \ {Max(s)} \in SUBSET D
    BY <2>1
  <2>3. h[s \ {Max(s)}] \in V
    BY <2>2
  <2> QED
    BY <1>6, <1>9, <2>1, <2>2, <2>3
<1>11. IsIter(h)
  BY <1>10, Zenon DEF Keep
<1>12. IsIter(iter)
  BY <1>11, Zenon DEF iter
<1> DEFINE c == [m \in 0 .. Len(w) |-> iter[1 .. m]]
<1>13. \A m \in 0 .. Len(w) : c[m] = iter[1 .. m] /\ 1 .. m \in SUBSET D
  BY <1>2
<1>14. \A s \in SUBSET D : iter[s] = IF s = {} THEN << >> ELSE Keep(iter[s \ {Max(s)}], w[Max(s)], n)
  <2> HIDE DEF c
  <2> QED
    BY <1>12, Zenon DEF Keep
<1>15. c[0] = << >>
  <2>1. 1 .. 0 = {} /\ 0 \in 0 .. Len(w)
    BY <1>2
  <2> QED
    BY <1>13, <1>14, <2>1
<1> HIDE DEF c, IsIter
<1>16. \A m \in 1 .. Len(w) : c[m] = Keep(c[m - 1], w[m], n)
  <2> SUFFICES ASSUME NEW m \in 1 .. Len(w) PROVE c[m] = Keep(c[m - 1], w[m], n)
    OBVIOUS
  <2>1. m \in Nat /\ m \in 1 .. m /\ 1 .. m \in SUBSET (1 .. m) /\ m - 1 \in 0 .. Len(w) /\ m \in 0 .. Len(w)
    BY <1>2
  <2>2. Max(1 .. m) \in 1 .. m /\ \A i \in 1 .. m : Max(1 .. m) >= i
    BY <2>1, LastOf
  <2> DEFINE x == Max(1 .. m)
  <2>3. x = m
    <3> HIDE DEF x
    <3> QED
      BY <2>1, <2>2 DEF x
  <2>4. (1 .. m) \ {m} = 1 .. m - 1 /\ 1 .. m # {}
    <3>1. \A i : i \in 1 .. m - 1 <=> i \in 1 .. m /\ i # m
      BY <2>1
    <3> QED
      BY <2>1, <3>1
  <2> QED
    BY <1>13, <1>14, <2>1, <2>3, <2>4
<1>17. \A m \in 0 .. Len(w) : c[m] \in V
  <2> DEFINE T == {m \in 0 .. Len(w) : c[m] \in V}
  <2>1. 0 \in T
    BY <1>2, <1>7, <1>15
  <2>2. ASSUME NEW m \in 0 .. Len(w), m \in T, m < Len(w) PROVE m + 1 \in T
    <3>1. m + 1 \in 1 .. Len(w) /\ (m + 1) - 1 = m /\ w[m + 1] \in NodeId
      BY <1>2, <2>2
    <3>2. c[m + 1] = Keep(c[m], w[m + 1], n)
      BY <1>16, <3>1
    <3> QED
      BY <2>2, <3>1, <3>2, KeepType DEF V
  <2> HIDE DEF T
  <2>3. 0 .. Len(w) \subseteq T
    BY <1>2, <2>1, <2>2, UpTo
  <2> QED
    BY <2>3 DEF T
<1>18. c \in [0 .. Len(w) -> V]
  BY <1>17 DEF c
<1>19. c[Len(w)] = Collect(w, n)
  BY <1>1, <1>2, <1>13
<1> QED
  BY <1>15, <1>16, <1>18, <1>19 DEF IsLoop, V

\* What the result of the loop is after m nodes of the walk.
Answers(w, n, m, r) ==
    /\ Distinct(r) /\ Len(r) <= n
    /\ \A i \in DOMAIN r : \E j \in 1 .. m : r[i] = w[j]
    /\ Len(r) < n => \A j \in 1 .. m : Contains(r, w[j])
    /\ m >= 1 => Len(r) >= 1 /\ r[1] = w[1]

LEMMA LoopAnswers ==
    ASSUME NEW w \in Seq(NodeId), NEW n \in Nat \ {0}, NEW c, IsLoop(w, n, c)
    PROVE  \A m \in 0 .. Len(w) : Answers(w, n, m, c[m])
<1>1. Len(w) \in Nat /\ \A m \in 1 .. Len(w) : w[m] \in NodeId
  OBVIOUS
<1>2. /\ \A m \in 0 .. Len(w) : c[m] \in Seq(NodeId)
      /\ c[0] = << >>
      /\ \A m \in 1 .. Len(w) : c[m] = Keep(c[m - 1], w[m], n)
  BY DEF IsLoop
<1> DEFINE T == {m \in 0 .. Len(w) : Answers(w, n, m, c[m])}
<1>3. 0 \in T
  <2>1. Answers(w, n, 0, << >>)
    BY DEF Answers, Distinct
  <2> QED
    BY <1>1, <1>2, <2>1
<1>4. ASSUME NEW m \in 0 .. Len(w), m \in T, m < Len(w) PROVE m + 1 \in T
  <2> DEFINE r == c[m]
             x == w[m + 1]
  <2>1. m + 1 \in 1 .. Len(w) /\ m + 1 \in 0 .. Len(w) /\ (m + 1) - 1 = m /\ m \in Nat
    BY <1>1, <1>4
  <2>2. c[m + 1] = Keep(r, x, n) /\ r \in Seq(NodeId) /\ x \in NodeId
    BY <1>1, <1>2, <2>1
  <2>3. Answers(w, n, m, r)
    BY <1>4
  <2>4. \A j \in 1 .. m + 1 : j \in 1 .. m \/ j = m + 1
    BY <2>1
  <2>5. \A j \in 1 .. m : j \in 1 .. m + 1
    BY <2>1
  <2>6. m + 1 \in 1 .. m + 1
    BY <2>1
  <2> SUFFICES Answers(w, n, m + 1, Keep(r, x, n))
    BY <2>1, <2>2
  <2>7. Len(r) \in Nat /\ DOMAIN r = 1 .. Len(r)
    BY <2>2
  <2> HIDE DEF r, T
  <2>8. CASE Len(r) >= n \/ Contains(r, x)
    <3>1. Keep(r, x, n) = r
      BY <2>8 DEF Keep
    <3>2. Len(r) < n => \A j \in 1 .. m + 1 : Contains(r, w[j])
      BY <2>3, <2>4, <2>7, <2>8 DEF Answers
    <3>3. \A i \in DOMAIN r : \E j \in 1 .. m + 1 : r[i] = w[j]
      BY <2>3, <2>5 DEF Answers
    <3>4. Len(r) >= 1 /\ r[1] = w[1]
      <4>1. CASE m >= 1
        BY <2>3, <4>1 DEF Answers
      <4>2. CASE m = 0
        <5>1. Len(r) >= 1
          BY <2>7, <2>8 DEF Contains
        <5>2. 1 \in DOMAIN r
          BY <2>7, <5>1
        <5>3. \E j \in 1 .. m : r[1] = w[j]
          BY <2>3, <5>2 DEF Answers
        <5> QED
          BY <4>2, <5>3
      <4> QED
        BY <2>1, <4>1, <4>2
    <3> QED
      BY <2>3, <3>1, <3>2, <3>3, <3>4 DEF Answers
  <2>9. CASE ~(Len(r) >= n) /\ ~Contains(r, x)
    <3> DEFINE t == Append(r, x)
    <3>1. Keep(r, x, n) = t
      BY <2>9 DEF Keep
    <3>2. /\ Len(t) = Len(r) + 1 /\ DOMAIN t = 1 .. Len(r) + 1
          /\ \A i \in 1 .. Len(r) : t[i] = r[i]
          /\ t[Len(r) + 1] = x
      BY <2>2
    <3> HIDE DEF t
    <3>3. \A i \in DOMAIN t : (i \in 1 .. Len(r) /\ t[i] = r[i]) \/ (i = Len(r) + 1 /\ t[i] = x)
      BY <2>7, <3>2
    <3>4. \A i \in 1 .. Len(r) : r[i] # x
      BY <2>9 DEF Contains
    <3>5. Distinct(t)
      <4>1. \A i, j \in 1 .. Len(r) : r[i] = r[j] => i = j
        BY <2>3, <2>7 DEF Answers, Distinct
      <4> QED
        BY <3>3, <3>4, <4>1 DEF Distinct
    <3>6. Len(t) <= n
      BY <2>7, <2>9, <3>2
    <3>7. \A i \in DOMAIN t : \E j \in 1 .. m + 1 : t[i] = w[j]
      <4>1. \A i \in 1 .. Len(r) : \E j \in 1 .. m : r[i] = w[j]
        BY <2>3, <2>7 DEF Answers
      <4> QED
        BY <2>5, <2>6, <3>3, <4>1
    <3>8. \A j \in 1 .. m + 1 : Contains(t, w[j])
      <4>1. Len(r) < n
        BY <2>7, <2>9
      <4>2. \A j \in 1 .. m : \E i \in 1 .. Len(r) : r[i] = w[j]
        BY <2>3, <4>1 DEF Answers, Contains
      <4>3. \A i \in 1 .. Len(r) : i \in 1 .. Len(t)
        BY <2>7, <3>2
      <4>4. Len(r) + 1 \in 1 .. Len(t)
        BY <2>7, <3>2
      <4> QED
        BY <2>4, <3>2, <4>2, <4>3, <4>4 DEF Contains
    <3>9. Len(t) >= 1 /\ t[1] = w[1]
      <4>1. CASE m >= 1
        BY <2>3, <2>7, <3>2, <4>1 DEF Answers
      <4>2. CASE m = 0
        <5>1. Len(r) = 0
          <6>1. \A i \in DOMAIN r : FALSE
            BY <2>3, <4>2 DEF Answers
          <6>2. ~(1 \in 1 .. Len(r))
            BY <2>7, <6>1
          <6> QED
            BY <2>7, <6>2
        <5> QED
          BY <3>2, <4>2, <5>1
      <4> QED
        BY <2>1, <4>1, <4>2
    <3> QED
      BY <3>1, <3>5, <3>6, <3>7, <3>8, <3>9 DEF Answers
  <2> QED
    BY <2>8, <2>9
<1> HIDE DEF T
<1>5. 0 .. Len(w) \subseteq T
  BY <1>1, <1>3, <1>4, UpTo
<1> QED
  BY <1>5 DEF T

\* r is the first part of t.
Begins(r, t) == Len(r) <= Len(t) /\ \A i \in 1 .. Len(r) : r[i] = t[i]

LEMMA BeginsIsPrefix ==
    ASSUME NEW r \in Seq(NodeId), NEW t \in Seq(NodeId), Begins(r, t)
    PROVE  IsPrefix(r, t)
<1> DEFINE k == Len(r)
<1>1. k \in Nat /\ k <= Len(t) /\ Len(t) \in Nat
  BY DEF Begins
<1>2. /\ SubSeq(r, 1, k) \in Seq(NodeId) /\ Len(SubSeq(r, 1, k)) = k
      /\ \A i \in 1 .. k : SubSeq(r, 1, k)[i] = r[i]
  BY <1>1
<1>3. /\ SubSeq(t, 1, k) \in Seq(NodeId) /\ Len(SubSeq(t, 1, k)) = k
      /\ \A i \in 1 .. k : SubSeq(t, 1, k)[i] = t[i]
  <2> HIDE DEF k
  <2> QED
    BY <1>1
<1>4. SubSeq(r, 1, k) = SubSeq(t, 1, k)
  <2> DEFINE a == SubSeq(r, 1, k)
             b == SubSeq(t, 1, k)
  <2>1. a \in Seq(NodeId) /\ b \in Seq(NodeId) /\ Len(a) = Len(b)
        /\ \A i \in 1 .. Len(a) : a[i] = b[i]
    BY <1>2, <1>3 DEF Begins
  <2> HIDE DEF a, b
  <2>2. a = b
    BY <2>1, SMTT(20)
  <2> QED
    BY <2>2 DEF a, b
<1> QED
  BY <1>1, <1>4 DEF IsPrefix

\* Asking for one node more does not change the nodes before it.
LEMMA LoopLonger ==
    ASSUME NEW w \in Seq(NodeId), NEW n \in Nat \ {0},
           NEW c, IsLoop(w, n, c), NEW d, IsLoop(w, n + 1, d)
    PROVE  \A m \in 0 .. Len(w) : Begins(c[m], d[m]) /\ (Len(c[m]) < n => c[m] = d[m])
<1> DEFINE Good(m) == Begins(c[m], d[m]) /\ (Len(c[m]) < n => c[m] = d[m])
           T == {m \in 0 .. Len(w) : Good(m)}
<1>1. Len(w) \in Nat /\ \A m \in 1 .. Len(w) : w[m] \in NodeId
  OBVIOUS
<1>2. /\ \A m \in 0 .. Len(w) : c[m] \in Seq(NodeId) /\ d[m] \in Seq(NodeId)
      /\ c[0] = << >> /\ d[0] = << >>
      /\ \A m \in 1 .. Len(w) : c[m] = Keep(c[m - 1], w[m], n) /\ d[m] = Keep(d[m - 1], w[m], n + 1)
  BY DEF IsLoop
<1>3. 0 \in T
  BY <1>1, <1>2 DEF Begins
<1>4. ASSUME NEW m \in 0 .. Len(w), m \in T, m < Len(w) PROVE m + 1 \in T
  <2> DEFINE r == c[m]
             t == d[m]
             x == w[m + 1]
  <2>1. m + 1 \in 1 .. Len(w) /\ m + 1 \in 0 .. Len(w) /\ (m + 1) - 1 = m
    BY <1>1, <1>4
  <2>2. c[m + 1] = Keep(r, x, n) /\ d[m + 1] = Keep(t, x, n + 1)
        /\ r \in Seq(NodeId) /\ t \in Seq(NodeId) /\ x \in NodeId
    BY <1>1, <1>2, <2>1
  <2>3. Begins(r, t) /\ (Len(r) < n => r = t)
    BY <1>4
  <2>4. Len(r) \in Nat /\ Len(t) \in Nat
    BY <2>2
  <2> SUFFICES /\ Begins(Keep(r, x, n), Keep(t, x, n + 1))
               /\ Len(Keep(r, x, n)) < n => Keep(r, x, n) = Keep(t, x, n + 1)
    BY <2>1, <2>2
  <2> HIDE DEF r, t, x, T
  <2>5. \A u \in Seq(NodeId) : Begins(u, u)
    BY DEF Begins
  <2>6. CASE Len(r) < n
    <3>1. r = t /\ ~(Len(r) >= n) /\ ~(Len(t) >= n + 1)
      BY <2>3, <2>4, <2>6
    <3>2. Keep(r, x, n) = Keep(t, x, n + 1)
      BY <3>1 DEF Keep
    <3> QED
      BY <2>2, <2>5, <3>2, KeepType
  <2>7. CASE ~(Len(r) < n)
    <3>1. Len(r) >= n
      BY <2>4, <2>7
    <3>2. Keep(r, x, n) = r
      BY <3>1 DEF Keep
    <3>3. Begins(r, Append(t, x))
      <4>1. Len(Append(t, x)) = Len(t) + 1 /\ \A i \in 1 .. Len(t) : Append(t, x)[i] = t[i]
        BY <2>2
      <4>2. \A i \in 1 .. Len(r) : i \in 1 .. Len(t)
        BY <2>3, <2>4 DEF Begins
      <4> QED
        BY <2>3, <2>4, <4>1, <4>2 DEF Begins
    <3>4. Begins(r, Keep(t, x, n + 1))
      BY <2>3, <3>3 DEF Keep
    <3> QED
      BY <2>7, <3>2, <3>4
  <2> QED
    BY <2>6, <2>7
<1> HIDE DEF T
<1>5. 0 .. Len(w) \subseteq T
  BY <1>1, <1>3, <1>4, UpTo
<1> QED
  BY <1>5 DEF T

\* s lists the positions of r.
Lists(s, r) == r \in Ring /\ s \in Seq(Position) /\ Sorted(s) /\ ToSet(s) = DOMAIN r

Owners(r) == {r[p] : p \in DOMAIN r}

\* One turn of the ring meets every owner, first the one get_node returns.
LEMMA WalkMeetsAll ==
    ASSUME NEW r, NEW s, Lists(s, r), s # << >>, NEW h \in Position
    PROVE  /\ Walk(r, s, h) \in Seq(NodeId)
           /\ Len(Walk(r, s, h)) = Len(s) /\ Len(s) \in Nat \ {0}
           /\ {Walk(r, s, h)[j] : j \in 1 .. Len(s)} = Owners(r)
           /\ Walk(r, s, h)[1] = GetNode(r, s, h)
<1>1. PICK D \in SUBSET Position : r \in [D -> NodeId] /\ DOMAIN r = D
  BY DEF Lists, Ring
<1>2. s \in Seq(Position) /\ Sorted(s) /\ ToSet(s) = D
  BY <1>1 DEF Lists
<1> DEFINE n == Len(s)
           x == Start(s, h)
           at(j) == ((x + j - 1) % n) + 1
           w == Walk(r, s, h)
<1>3. n \in Nat \ {0} /\ DOMAIN s = 1 .. n
  BY <1>2
<1>4. x \in 0 .. n - 1
  <2>1. Bisect(s, h) \in Nat
    BY <1>2, BisectCuts
  <2> DEFINE b == Bisect(s, h)
  <2> HIDE DEF b, n
  <2>2. b % n \in 0 .. n - 1
    BY <1>3, <2>1 DEF b
  <2> QED
    BY <2>2 DEF Start, b, n
<1>5. \A j \in 1 .. n : w[j] = r[s[at(j)]]
  BY DEF Walk
<1>6. w = [j \in 1 .. n |-> r[s[at(j)]]]
  BY DEF Walk
<1> HIDE DEF n, x, w
<1>7. \A j \in 1 .. n : at(j) \in 1 .. n
  BY <1>3, <1>4
<1>8. \A i \in 1 .. n : s[i] \in D /\ r[s[i]] \in NodeId
  BY <1>1, <1>3, <1>2 DEF ToSet
<1>9. w \in [1 .. n -> NodeId]
  BY <1>6, <1>7, <1>8
<1>10. w \in Seq(NodeId) /\ Len(w) = n
  BY <1>3, <1>9
<1>11. \A i \in 1 .. n : \E j \in 1 .. n : at(j) = i
  <2> SUFFICES ASSUME NEW i \in 1 .. n PROVE \E j \in 1 .. n : at(j) = i
    OBVIOUS
  <2>1. i - 1 \in 0 .. n - 1
    BY <1>3
  <2>2. PICK d \in 0 .. n - 1 : (x + d) % n = i - 1
    BY <1>3, <1>4, <2>1, TurnMeetsAll
  <2>3. d + 1 \in 1 .. n /\ x + (d + 1) - 1 = x + d
    BY <1>3, <1>4
  <2>4. at(d + 1) = i
    BY <2>2, <2>3
  <2> QED
    BY <2>3, <2>4
<1>12. \A p \in D : \E i \in 1 .. n : s[i] = p
  BY <1>3, <1>2 DEF ToSet
<1>13. {w[j] : j \in 1 .. n} = {r[p] : p \in D}
  <2>1. \A j \in 1 .. n : \E p \in D : w[j] = r[p]
    BY <1>5, <1>7, <1>8
  <2>2. \A p \in D : \E j \in 1 .. n : w[j] = r[p]
    <3> SUFFICES ASSUME NEW p \in D PROVE \E j \in 1 .. n : w[j] = r[p]
      OBVIOUS
    <3>1. PICK i \in 1 .. n : s[i] = p
      BY <1>12
    <3>2. PICK j \in 1 .. n : at(j) = i
      BY <1>11
    <3> QED
      BY <1>5, <3>1, <3>2
  <2> QED
    BY <2>1, <2>2
<1>14. w[1] = GetNode(r, s, h)
  <2>1. 1 \in 1 .. n /\ at(1) = x + 1
    BY <1>3, <1>4
  <2> QED
    BY <1>5, <2>1 DEF GetNode, x
<1> QED
  BY <1>1, <1>3, <1>10, <1>13, <1>14 DEF n, w, Owners

\* What ReplicasAreDistinct says of one call of get_nodes.
Replies(r, s, h, n) ==
    LET size == Cardinality(Owners(r))
        answer == GetNodes(r, s, h, n)
    IN  /\ Len(answer) = IF n <= size THEN n ELSE size
        /\ Cardinality(ToSet(answer)) = Len(answer)
        /\ answer # << >> => answer[1] = GetNode(r, s, h)
        /\ IsPrefix(answer, GetNodes(r, s, h, n + 1))

LEMMA FewOwners ==
    ASSUME NEW r \in Ring
    PROVE  IsFiniteSet(Owners(r)) /\ Cardinality(Owners(r)) \in Nat
<1>1. PICK D \in SUBSET Position : r \in [D -> NodeId] /\ DOMAIN r = D
  BY DEF Ring
<1>2. IsFiniteSet(D)
  <2>1. IsFiniteSet(Position)
    BY RingSizeAssumption, FS_Interval DEF Position
  <2> QED
    BY <2>1, FS_Subset
<1>3. r \in [D -> Owners(r)] /\ \A x \in Owners(r) : \E p \in D : r[p] = x
  BY <1>1 DEF Owners
<1>4. r \in Surjection(D, Owners(r))
  BY <1>3 DEF Surjection
<1> QED
  BY <1>2, <1>4, FS_Surjection, FS_CardinalityType

\* get_nodes replies as it should when the list of positions is right.
LEMMA GetNodesReplies ==
    ASSUME NEW r, NEW s, Lists(s, r), NEW h \in Position, NEW n \in Nat
    PROVE  Replies(r, s, h, n)
<1> DEFINE owners == Owners(r)
           size == Cardinality(owners)
           w == Walk(r, s, h)
           a == GetNodes(r, s, h, n)
           b == GetNodes(r, s, h, n + 1)
<1>1. r \in Ring /\ s \in Seq(Position) /\ ToSet(s) = DOMAIN r
  BY DEF Lists
<1>2. IsFiniteSet(owners) /\ size \in Nat
  BY <1>1, FewOwners
<1>3. ASSUME s = << >> \/ n = 0 PROVE Replies(r, s, h, n)
  <2>1. a = << >>
    BY <1>3 DEF GetNodes
  <2>2. ToSet(<< >>) = {} /\ Cardinality({}) = 0 /\ Len(<< >>) = 0
    BY FS_EmptySet DEF ToSet
  <2>3. s = << >> => size = 0
    <3> SUFFICES ASSUME s = << >> PROVE owners = {}
      BY <2>2
    <3> QED
      BY <1>1, <2>2 DEF Owners
  <2>4. 0 = IF n <= size THEN n ELSE size
    <3> HIDE DEF size
    <3> QED
      BY <1>2, <1>3, <2>3
  <2>5. IsPrefix(<< >>, b)
    <3>1. b \in Seq(NodeId)
      <4>1. CASE s = << >>
        BY <4>1 DEF GetNodes
      <4>2. CASE s # << >>
        <5>1. w \in Seq(NodeId) /\ b = Collect(w, n + 1)
          BY <4>2, WalkMeetsAll DEF GetNodes
        <5>2. PICK c : IsLoop(w, n + 1, c)
          BY <5>1, LoopExists
        <5> QED
          BY <5>1, <5>2 DEF IsLoop
      <4> QED
        BY <4>1, <4>2
    <3> HIDE DEF b
    <3>2. Begins(<< >>, b) /\ << >> \in Seq(NodeId)
      BY <3>1 DEF Begins
    <3> QED
      BY <3>1, <3>2, BeginsIsPrefix
  <2> QED
    BY <2>1, <2>2, <2>4, <2>5 DEF Replies
<1>4. ASSUME s # << >>, n # 0 PROVE Replies(r, s, h, n)
  <2>1. /\ w \in Seq(NodeId) /\ Len(w) = Len(s) /\ Len(s) \in Nat \ {0}
        /\ {w[j] : j \in 1 .. Len(s)} = owners
        /\ w[1] = GetNode(r, s, h)
    BY <1>4, WalkMeetsAll
  <2>2. a = Collect(w, n) /\ b = Collect(w, n + 1)
    BY <1>4 DEF GetNodes
  <2> HIDE DEF w, a, b, owners
  <2>3. PICK c : IsLoop(w, n, c)
    BY <2>1, LoopExists
  <2>4. PICK d : IsLoop(w, n + 1, d)
    BY <2>1, LoopExists
  <2>5. n \in Nat \ {0} /\ Len(w) \in 0 .. Len(w)
    BY <1>4, <2>1
  <2>6. c[Len(w)] = a /\ d[Len(w)] = b /\ a \in Seq(NodeId) /\ b \in Seq(NodeId)
    BY <2>2, <2>3, <2>4, <2>5 DEF IsLoop
  <2>7. Answers(w, n, Len(w), a)
    BY <2>1, <2>3, <2>5, <2>6, LoopAnswers
  <2>8. Begins(a, b)
    BY <2>1, <2>3, <2>4, <2>5, <2>6, LoopLonger
  <2>9. ToSet(a) \subseteq owners
    BY <2>1, <2>7 DEF Answers, ToSet
  <2>10. Cardinality(ToSet(a)) = Len(a) /\ Len(a) \in Nat /\ IsFiniteSet(ToSet(a))
    <3>1. Distinct(a)
      BY <2>7 DEF Answers
    <3>2. ToSet(a) = Elements(a)
      BY DEF ToSet, Elements
    <3> QED
      BY <2>6, <3>1, <3>2, DistinctCount
  <2>11. Len(a) <= size
    BY <1>2, <2>9, <2>10, FS_Subset
  <2>12. Len(a) < n => Len(a) = size
    <3> SUFFICES ASSUME Len(a) < n PROVE Len(a) = size
      OBVIOUS
    <3>1. \A j \in 1 .. Len(w) : \E i \in 1 .. Len(a) : a[i] = w[j]
      BY <2>7 DEF Answers, Contains
    <3>2. owners \subseteq ToSet(a)
      BY <2>1, <2>6, <3>1 DEF ToSet
    <3>3. owners = ToSet(a)
      BY <2>9, <3>2
    <3> QED
      BY <2>10, <3>3
  <2>13. Len(a) <= n /\ Len(a) >= 1 /\ a[1] = w[1]
    BY <2>1, <2>7 DEF Answers
  <2>14. Len(a) = IF n <= size THEN n ELSE size
    <3> DEFINE k == Len(a)
    <3> HIDE DEF k, size
    <3>1. k \in Nat /\ k <= size /\ k <= n /\ (k < n => k = size)
      BY <2>10, <2>11, <2>12, <2>13 DEF k
    <3>2. k = IF n <= size THEN n ELSE size
      BY <1>2, <3>1
    <3> QED
      BY <3>2 DEF k
  <2>15. IsPrefix(a, b)
    BY <2>6, <2>8, BeginsIsPrefix
  <2> QED
    BY <2>1, <2>10, <2>13, <2>14, <2>15 DEF a, b, owners, Replies
<1> QED
  BY <1>3, <1>4

\* The dictionary and the list agree, so get_nodes answers as it should.
LEMMA KInvReplies == KInv => ReplicasAreDistinct
<1> SUFFICES ASSUME KInv, NEW h \in Position, NEW n \in 0 .. Cardinality(Owners(ring)) + 1
             PROVE  Replies(ring, keys, h, n)
  BY Zenon DEF ReplicasAreDistinct, Replies, Owners
<1>1. Lists(keys, ring)
  BY DEF KInv, TypeOK, KeysMatchRing, Sorted, Lists
<1>2. n \in Nat
  BY <1>1, FewOwners DEF Lists
<1> QED
  BY <1>1, <1>2, GetNodesReplies
-----------------------------------------------------------------------------
\* What a call of add_node or remove_node changes of the answers of get_nodes.

\* The list a goes through the set O in the order R: each element comes before
\* the later ones, and before what a leaves out.
InOrder(a, O, R) ==
    /\ \A i, k \in DOMAIN a : i < k => <<a[i], a[k]>> \in R
    /\ \A i \in DOMAIN a, z \in O : <<a[i], z>> \in R \/ \E k \in DOMAIN a : a[k] = z

Asymmetric(O, R) == \A y, z \in O : <<y, z>> \in R => <<z, y>> \notin R

LEMMA OrderedIsDistinct ==
    ASSUME NEW O, NEW R, Asymmetric(O, R), NEW a \in Seq(O), InOrder(a, O, R)
    PROVE  Distinct(a)
<1> SUFFICES ASSUME NEW i \in DOMAIN a, NEW k \in DOMAIN a, a[i] = a[k], i < k PROVE FALSE
  BY DEF Distinct
<1>1. <<a[i], a[i]>> \in R /\ a[i] \in O
  BY DEF InOrder
<1> QED
  BY <1>1 DEF Asymmetric

\* There is one such list of each length.
LEMMA OneOrder ==
    ASSUME NEW O, NEW R, Asymmetric(O, R),
           NEW a \in Seq(O), InOrder(a, O, R), NEW b \in Seq(O), InOrder(b, O, R), Len(b) <= Len(a)
    PROVE  \A i \in 1 .. Len(b) : b[i] = a[i]
<1> DEFINE T == {i \in 0 .. Len(b) : \A j \in 1 .. i : b[j] = a[j]}
<1>1. Len(a) \in Nat /\ Len(b) \in Nat /\ DOMAIN a = 1 .. Len(a) /\ DOMAIN b = 1 .. Len(b)
  OBVIOUS
<1>2. 0 \in T
  BY <1>1
<1>3. ASSUME NEW i \in 0 .. Len(b), i \in T, i < Len(b) PROVE i + 1 \in T
  <2>1. i + 1 \in DOMAIN b /\ i + 1 \in DOMAIN a /\ i + 1 \in 0 .. Len(b)
    BY <1>1, <1>3
  <2> DEFINE y == b[i + 1]
             z == a[i + 1]
  <2>2. \A j \in 1 .. i : b[j] = a[j] /\ j \in DOMAIN a /\ j \in DOMAIN b
    BY <1>1, <1>3
  <2>3. y = z
    <3> SUFFICES ASSUME y # z PROVE FALSE
      OBVIOUS
    <3>1. y \in O /\ z \in O
      BY <2>1
    <3>2. Distinct(a) /\ Distinct(b)
      BY OrderedIsDistinct
    <3>3. \A k \in DOMAIN b : b[k] = z => i + 1 < k
      <4> SUFFICES ASSUME NEW k \in DOMAIN b, b[k] = z PROVE i + 1 < k
        OBVIOUS
      <4>1. k # i + 1
        OBVIOUS
      <4>2. ~(k \in 1 .. i)
        BY <2>1, <2>2, <3>2 DEF Distinct
      <4> QED
        BY <1>1, <4>1, <4>2
    <3>4. \A k \in DOMAIN a : a[k] = y => i + 1 < k
      <4> SUFFICES ASSUME NEW k \in DOMAIN a, a[k] = y PROVE i + 1 < k
        OBVIOUS
      <4>1. k # i + 1
        OBVIOUS
      <4>2. ~(k \in 1 .. i)
        BY <2>1, <2>2, <3>2 DEF Distinct
      <4> QED
        BY <1>1, <4>1, <4>2
    <3> HIDE DEF T
    <3>5. <<y, z>> \in R
      <4> HIDE DEF z
      <4> QED
        BY <2>1, <3>1, <3>3 DEF InOrder
    <3>6. <<z, y>> \in R
      <4> HIDE DEF y
      <4> QED
        BY <2>1, <3>1, <3>4 DEF InOrder
    <3> QED
      BY <3>1, <3>5, <3>6 DEF Asymmetric
  <2>4. \A j \in 1 .. i + 1 : j \in 1 .. i \/ j = i + 1
    BY <1>1
  <2> QED
    BY <2>1, <2>2, <2>3, <2>4
<1> HIDE DEF T
<1>4. 0 .. Len(b) \subseteq T
  BY <1>1, <1>2, <1>3, UpTo
<1>5. Len(b) \in T
  BY <1>1, <1>4
<1> QED
  BY <1>5 DEF T

-----------------------------------------------------------------------------
\* The first occurrence of y in w is before every z.
MetBefore(w) ==
    {e \in NodeId \X NodeId : \E j \in DOMAIN w : w[j] = e[1] /\ \A k \in DOMAIN w : w[k] = e[2] => j < k}

\* The loop keeps the order of the walk.
LEMMA LoopKeepsOrder ==
    ASSUME NEW w \in Seq(NodeId), NEW n \in Nat \ {0}, NEW c, IsLoop(w, n, c)
    PROVE  \A m \in 0 .. Len(w) : InOrder(c[m], Elements(w), MetBefore(w))
<1> DEFINE R == MetBefore(w)
           O == Elements(w)
           T == {m \in 0 .. Len(w) : InOrder(c[m], O, R)}
<1>1. Len(w) \in Nat /\ DOMAIN w = 1 .. Len(w) /\ \A m \in 1 .. Len(w) : w[m] \in NodeId
  OBVIOUS
<1>2. /\ \A m \in 0 .. Len(w) : c[m] \in Seq(NodeId)
      /\ c[0] = << >>
      /\ \A m \in 1 .. Len(w) : c[m] = Keep(c[m - 1], w[m], n)
  BY DEF IsLoop
<1>3. \A m \in 0 .. Len(w) : Answers(w, n, m, c[m])
  BY LoopAnswers
<1>4. \A y, z \in NodeId : <<y, z>> \in R <=>
          \E j \in DOMAIN w : w[j] = y /\ \A k \in DOMAIN w : w[k] = z => j < k
  BY DEF MetBefore
<1>5. O \subseteq NodeId /\ \A z \in O : \E k \in DOMAIN w : w[k] = z
  BY <1>1 DEF Elements
<1> HIDE DEF R, O
<1>6. 0 \in T
  BY <1>1, <1>2 DEF InOrder
<1>7. ASSUME NEW m \in 0 .. Len(w), m \in T, m < Len(w) PROVE m + 1 \in T
  <2> DEFINE r == c[m]
             x == w[m + 1]
             t == Append(r, x)
  <2>1. m + 1 \in 1 .. Len(w) /\ m + 1 \in 0 .. Len(w) /\ (m + 1) - 1 = m /\ m \in Nat
    BY <1>1, <1>7
  <2>2. c[m + 1] = Keep(r, x, n) /\ r \in Seq(NodeId) /\ x \in NodeId
    BY <1>1, <1>2, <2>1
  <2>3. InOrder(r, O, R) /\ Answers(w, n, m, r)
    BY <1>3, <1>7
  <2> SUFFICES InOrder(Keep(r, x, n), O, R)
    BY <2>1, <2>2
  <2> HIDE DEF r, T
  <2>4. CASE Len(r) >= n \/ Contains(r, x)
    BY <2>3, <2>4 DEF Keep
  <2>5. CASE ~(Len(r) >= n) /\ ~Contains(r, x)
    <3>1. Keep(r, x, n) = t
      BY <2>5 DEF Keep
    <3>2. /\ Len(r) \in Nat /\ DOMAIN r = 1 .. Len(r) /\ DOMAIN t = 1 .. Len(r) + 1
          /\ \A i \in 1 .. Len(r) : t[i] = r[i] /\ r[i] \in NodeId
          /\ t[Len(r) + 1] = x
      BY <2>2
    <3> HIDE DEF t
    <3>3. \A i \in DOMAIN r : r[i] # x
      BY <2>5, <3>2 DEF Contains
    <3>4. x \in O
      BY <1>1, <2>1 DEF O, Elements
    <3>5. \A i \in DOMAIN r : <<r[i], x>> \in R
      BY <2>3, <3>3, <3>4 DEF InOrder
    <3>6. ASSUME NEW z \in O, \A i \in DOMAIN t : t[i] # z PROVE <<x, z>> \in R
      <4>1. Len(r) < n
        BY <2>5, <3>2
      <4>2. \A j \in 1 .. m : \E i \in DOMAIN r : r[i] = w[j]
        BY <2>3, <3>2, <4>1 DEF Answers, Contains
      <4>3. \A j \in 1 .. m : w[j] # z
        BY <3>2, <3>6, <4>2
      <4>4. z # x
        BY <3>2, <3>6
      <4>5. \A k \in DOMAIN w : w[k] = z => m + 1 < k
        BY <1>1, <2>1, <4>3, <4>4
      <4> QED
        BY <1>1, <1>4, <1>5, <2>1, <2>2, <4>5
    <3>7. ASSUME NEW i \in DOMAIN t, NEW k \in DOMAIN t, i < k PROVE <<t[i], t[k]>> \in R
      <4>1. i \in DOMAIN r
        BY <3>2, <3>7
      <4>2. CASE k \in DOMAIN r
        BY <2>3, <3>2, <3>7, <4>1, <4>2 DEF InOrder
      <4>3. CASE k = Len(r) + 1
        BY <3>2, <3>5, <4>1, <4>3
      <4> QED
        BY <3>2, <4>2, <4>3
    <3>8. ASSUME NEW i \in DOMAIN t, NEW z \in O, \A k \in DOMAIN t : t[k] # z
          PROVE  <<t[i], z>> \in R
      <4>1. CASE i \in DOMAIN r
        <5>1. \A k \in DOMAIN r : r[k] # z
          BY <3>2, <3>8
        <5> QED
          BY <2>3, <3>2, <4>1, <5>1 DEF InOrder
      <4>2. CASE i = Len(r) + 1
        BY <3>2, <3>6, <3>8, <4>2
      <4> QED
        BY <3>2, <4>1, <4>2
    <3>9. InOrder(t, O, R)
      BY <3>7, <3>8 DEF InOrder
    <3> QED
      BY <3>1, <3>9
  <2> QED
    BY <2>4, <2>5
<1> HIDE DEF T
<1>8. 0 .. Len(w) \subseteq T
  BY <1>1, <1>6, <1>7, UpTo
<1> QED
  BY <1>8 DEF T, O, R

\* Positions in the order in which a turn from h meets them.
Turn(h, p) == IF p > h THEN p ELSE p + RingSize

\* y is met before every position of z.
MetFirst(r, h) ==
    {e \in NodeId \X NodeId : \E p \in DOMAIN r :
         r[p] = e[1] /\ \A q \in DOMAIN r : r[q] = e[2] => Turn(h, p) < Turn(h, q)}

\* The walk meets the positions in their order, and all of them.
LEMMA WalkTurns ==
    ASSUME NEW r, NEW s, Lists(s, r), s # << >>, NEW h \in Position
    PROVE  \E f \in [1 .. Len(s) -> DOMAIN r] :
              /\ \A j \in 1 .. Len(s) : Walk(r, s, h)[j] = r[f[j]]
              /\ \A j, k \in 1 .. Len(s) : j < k => Turn(h, f[j]) < Turn(h, f[k])
              /\ \A p \in DOMAIN r : \E j \in 1 .. Len(s) : f[j] = p
<1> DEFINE n == Len(s)
           b == Bisect(s, h)
           x == Start(s, h)
           at(j) == ((x + j - 1) % n) + 1
           f == [j \in 1 .. n |-> s[at(j)]]
<1>1. s \in Seq(Position) /\ Sorted(s) /\ ToSet(s) = DOMAIN r
  BY DEF Lists
<1>2. n \in Nat \ {0} /\ DOMAIN s = 1 .. n
  BY <1>1
<1>3. \A i \in 1 .. n : s[i] \in Int /\ 0 <= s[i] /\ s[i] < RingSize
  BY <1>1, <1>2, RingSizeAssumption DEF Position
<1>4. b \in 0 .. n /\ \A i \in 1 .. n : s[i] <= h <=> i <= b
  BY <1>1, <1>2, BisectCuts
<1>5. \A i, k \in 1 .. n : i < k => s[i] < s[k]
  BY <1>1, <1>2 DEF Sorted
<1>6. x = b % n
  BY DEF Start
<1>7. \A j \in 1 .. n : Walk(r, s, h)[j] = r[s[at(j)]]
  BY DEF Walk
<1>8. h \in Int /\ RingSize \in Int
  BY RingSizeAssumption DEF Position
<1> HIDE DEF n, b, x
<1>9. x = IF b = n THEN 0 ELSE b
  <2>1. CASE b = n
    BY <1>2, <1>6, <2>1
  <2>2. CASE b # n
    BY <1>2, <1>4, <1>6, <2>2
  <2> QED
    BY <2>1, <2>2
<1>10. ASSUME NEW j \in 1 .. n PROVE at(j) = IF x + j <= n THEN x + j ELSE x + j - n
  <2>1. CASE x + j <= n
    <3>1. (x + j - 1) % n = x + j - 1
      BY <1>2, <1>4, <1>9, <2>1
    <3> QED
      BY <1>2, <1>4, <1>9, <3>1, <2>1
  <2>2. CASE ~(x + j <= n)
    <3> DEFINE d == x + j - 1 - n
    <3>1. d \in 0 .. n - 1 /\ x + j - 1 = d + n
      BY <1>2, <1>4, <1>9, <2>2
    <3> HIDE DEF d
    <3>2. (d + n) % n = d
      BY <1>2, <3>1
    <3>3. at(j) = d + 1
      BY <3>1, <3>2
    <3> QED
      BY <1>2, <1>4, <1>9, <2>2, <3>3 DEF d
  <2> QED
    BY <2>1, <2>2
<1> HIDE DEF at
<1>11. \A j \in 1 .. n : at(j) \in 1 .. n
  BY <1>2, <1>4, <1>9, <1>10
<1>12. \A i \in 1 .. n : \E j \in 1 .. n : at(j) = i
  <2> SUFFICES ASSUME NEW i \in 1 .. n PROVE \E j \in 1 .. n : at(j) = i
    OBVIOUS
  <2>1. CASE i > x
    <3>1. i - x \in 1 .. n /\ x + (i - x) = i
      BY <1>2, <1>4, <1>9, <2>1
    <3> QED
      BY <1>2, <1>10, <3>1
  <2>2. CASE ~(i > x)
    <3>1. i - x + n \in 1 .. n /\ x + (i - x + n) = i + n
      BY <1>2, <1>4, <1>9, <2>2
    <3>2. at(i - x + n) = i
      BY <1>2, <1>4, <1>9, <1>10, <3>1
    <3> QED
      BY <3>1, <3>2
  <2> QED
    BY <2>1, <2>2
<1>13. ASSUME NEW j \in 1 .. n, NEW k \in 1 .. n, j < k
       PROVE  Turn(h, s[at(j)]) < Turn(h, s[at(k)])
  <2> DEFINE i == at(j)
             l == at(k)
  <2>1. i \in 1 .. n /\ l \in 1 .. n
    BY <1>11
  <2>2. i = (IF x + j <= n THEN x + j ELSE x + j - n) /\ l = IF x + k <= n THEN x + k ELSE x + k - n
    BY <1>10
  <2> HIDE DEF i, l
  <2>3. s[i] \in Int /\ s[l] \in Int /\ 0 <= s[l] /\ s[i] < RingSize
        /\ (s[i] <= h <=> i <= b) /\ (s[l] <= h <=> l <= b) /\ (i < l => s[i] < s[l])
    BY <1>3, <1>4, <1>5, <2>1
  <2>4. (i < l /\ (i <= b <=> l <= b)) \/ (i > b /\ l <= b)
    BY <1>2, <1>4, <1>9, <1>13, <2>1, <2>2
  <2>5. Turn(h, s[i]) < Turn(h, s[l])
    <3>1. i \in Int /\ l \in Int /\ b \in Int
      BY <1>2, <1>4, <2>1
    <3> DEFINE u == s[i]
               v == s[l]
    <3> HIDE DEF u, v
    <3>2. u \in Int /\ v \in Int /\ 0 <= v /\ u < RingSize
          /\ (u <= h <=> i <= b) /\ (v <= h <=> l <= b) /\ (i < l => u < v)
      BY <2>3 DEF u, v
    <3>3. Turn(h, u) < Turn(h, v)
      BY <1>8, <2>4, <3>1, <3>2 DEF Turn
    <3> QED
      BY <3>3 DEF u, v
  <2> QED
    BY <2>5 DEF i, l
<1>14. f \in [1 .. n -> DOMAIN r] /\ \A j \in 1 .. n : f[j] = s[at(j)]
  <2>1. \A i \in 1 .. n : s[i] \in DOMAIN r
    BY <1>1, <1>2 DEF ToSet
  <2> QED
    BY <1>11, <2>1
<1>15. \A p \in DOMAIN r : \E j \in 1 .. n : f[j] = p
  <2> SUFFICES ASSUME NEW p \in DOMAIN r PROVE \E j \in 1 .. n : f[j] = p
    OBVIOUS
  <2>1. PICK i \in 1 .. n : s[i] = p
    BY <1>1, <1>2 DEF ToSet
  <2>2. PICK j \in 1 .. n : at(j) = i
    BY <1>12
  <2> QED
    BY <1>14, <2>1, <2>2
<1> HIDE DEF f
<1>16. \A j \in 1 .. n : Walk(r, s, h)[j] = r[f[j]]
  BY <1>7, <1>14 DEF at
<1>17. \A j, k \in 1 .. n : j < k => Turn(h, f[j]) < Turn(h, f[k])
  BY <1>13, <1>14
<1> QED
  BY <1>14, <1>15, <1>16, <1>17 DEF n

\* get_nodes returns the owners in the order in which a turn meets them.
LEMMA GetNodesInOrder ==
    ASSUME NEW r, NEW s, Lists(s, r), NEW h \in Position, NEW n \in Nat \ {0}
    PROVE  /\ GetNodes(r, s, h, n) \in Seq(Owners(r))
           /\ InOrder(GetNodes(r, s, h, n), Owners(r), MetFirst(r, h))
           /\ Len(GetNodes(r, s, h, n)) <= n
<1> DEFINE w == Walk(r, s, h)
           a == GetNodes(r, s, h, n)
           O == Owners(r)
<1>1. CASE s = << >>
  <2>1. a = << >>
    BY <1>1 DEF GetNodes
  <2> QED
    BY <2>1 DEF InOrder
<1>2. CASE s # << >>
  <2>1. /\ w \in Seq(NodeId) /\ Len(w) = Len(s) /\ Len(s) \in Nat \ {0}
        /\ {w[j] : j \in 1 .. Len(s)} = O
    BY <1>2, WalkMeetsAll
  <2>2. PICK f \in [1 .. Len(s) -> DOMAIN r] :
            /\ \A j \in 1 .. Len(s) : w[j] = r[f[j]]
            /\ \A j, k \in 1 .. Len(s) : j < k => Turn(h, f[j]) < Turn(h, f[k])
            /\ \A p \in DOMAIN r : \E j \in 1 .. Len(s) : f[j] = p
    BY <1>2, WalkTurns
  <2>3. a = Collect(w, n)
    BY <1>2 DEF GetNodes
  <2> HIDE DEF w, a, O
  <2>4. PICK c : IsLoop(w, n, c)
    BY <2>1, LoopExists
  <2>5. DOMAIN w = 1 .. Len(s) /\ Len(w) \in 0 .. Len(w)
    BY <2>1
  <2>6. a = c[Len(w)] /\ a \in Seq(NodeId)
    BY <2>3, <2>4, <2>5 DEF IsLoop
  <2>7. Elements(w) = O
    BY <2>1, <2>5 DEF Elements
  <2>8. InOrder(a, O, MetBefore(w)) /\ Answers(w, n, Len(w), a)
    BY <2>1, <2>4, <2>5, <2>6, <2>7, LoopKeepsOrder, LoopAnswers
  <2>9. a \in Seq(O)
    <3>1. \A i \in DOMAIN a : a[i] \in O
      BY <2>1, <2>8 DEF Answers
    <3> QED
      BY <2>6, <3>1
  <2>10. MetBefore(w) \subseteq MetFirst(r, h)
    <3> SUFFICES ASSUME NEW y \in NodeId, NEW z \in NodeId, <<y, z>> \in MetBefore(w)
                 PROVE  <<y, z>> \in MetFirst(r, h)
      BY DEF MetBefore
    <3>1. PICK j \in 1 .. Len(s) : w[j] = y /\ \A k \in 1 .. Len(s) : w[k] = z => j < k
      BY <2>5 DEF MetBefore
    <3>2. f[j] \in DOMAIN r /\ r[f[j]] = y
      BY <2>2, <3>1
    <3>3. ASSUME NEW q \in DOMAIN r, r[q] = z PROVE Turn(h, f[j]) < Turn(h, q)
      <4>1. PICK k \in 1 .. Len(s) : f[k] = q
        BY <2>2
      <4>2. w[k] = z
        BY <2>2, <3>3, <4>1
      <4> QED
        BY <2>2, <3>1, <4>1, <4>2
    <3> QED
      BY <3>2, <3>3 DEF MetFirst
  <2>11. InOrder(a, O, MetFirst(r, h))
    BY <2>8, <2>10 DEF InOrder
  <2> QED
    BY <2>8, <2>9, <2>11 DEF Answers, a, O
<1> QED
  BY <1>1, <1>2

\* Of two owners one is met first.
LEMMA MetFirstIsAsymmetric ==
    ASSUME NEW r \in Ring, NEW h \in Position
    PROVE  Asymmetric(Owners(r), MetFirst(r, h))
<1> SUFFICES ASSUME NEW y, NEW z, <<y, z>> \in MetFirst(r, h), <<z, y>> \in MetFirst(r, h) PROVE FALSE
  BY DEF Asymmetric
<1>1. PICK p \in DOMAIN r : r[p] = y /\ \A q \in DOMAIN r : r[q] = z => Turn(h, p) < Turn(h, q)
  BY DEF MetFirst
<1>2. PICK q \in DOMAIN r : r[q] = z /\ \A o \in DOMAIN r : r[o] = y => Turn(h, q) < Turn(h, o)
  BY DEF MetFirst
<1>3. Turn(h, p) < Turn(h, q) /\ Turn(h, q) < Turn(h, p)
  BY <1>1, <1>2
<1>4. p \in Int /\ q \in Int /\ RingSize \in Int
  BY RingSizeAssumption DEF Ring, Position
<1> DEFINE u == Turn(h, p)
           v == Turn(h, q)
<1>5. u \in Int /\ v \in Int
  BY <1>4 DEF Turn
<1> HIDE DEF u, v
<1>6. u < v /\ v < u
  BY <1>3 DEF u, v
<1> QED
  BY <1>5, <1>6

\* Two rings differ only in what belongs to x.
SameButFor(x, r1, r2) ==
    \A p \in Position : /\ p \in DOMAIN r1 /\ r1[p] # x => p \in DOMAIN r2 /\ r2[p] = r1[p]
                        /\ p \in DOMAIN r2 /\ r2[p] # x => p \in DOMAIN r1 /\ r1[p] = r2[p]

\* Then the answers differ only by x: without x, the answer of the ring that has
\* it begins the answer of the ring that does not.
LEMMA AnswersDifferByOne ==
    ASSUME NEW r1, NEW s1, Lists(s1, r1), NEW r2, NEW s2, Lists(s2, r2),
           NEW x, x \notin Owners(r1), SameButFor(x, r1, r2),
           NEW h \in Position, NEW n \in Nat \ {0}
    PROVE  IsPrefix(Others(GetNodes(r2, s2, h, n), x), GetNodes(r1, s1, h, n))
<1> DEFINE a == GetNodes(r1, s1, h, n)
           t == GetNodes(r2, s2, h, n)
           I == {i \in DOMAIN t : t[i] # x}
           b == Sublist(t, I)
           O == Owners(r1)
           R == MetFirst(r1, h)
<1>1. r1 \in Ring /\ r2 \in Ring
  BY DEF Lists
<1>2. a \in Seq(O) /\ InOrder(a, O, R)
  BY GetNodesInOrder
<1>3. t \in Seq(Owners(r2)) /\ InOrder(t, Owners(r2), MetFirst(r2, h)) /\ Len(t) <= n
  BY GetNodesInOrder
<1>4. b = Others(t, x)
  BY DEF Others
<1>5. Asymmetric(O, R)
  BY <1>1, MetFirstIsAsymmetric
<1>6. Len(a) = IF n <= Cardinality(O) THEN n ELSE Cardinality(O)
  <2>1. Replies(r1, s1, h, n)
    BY GetNodesReplies
  <2> QED
    BY <2>1 DEF Replies
<1>7. O \subseteq NodeId /\ Owners(r2) \subseteq NodeId
  BY <1>1 DEF Owners, Ring
<1>8. O = Owners(r2) \ {x}
  <2>1. DOMAIN r1 \subseteq Position /\ DOMAIN r2 \subseteq Position
    BY <1>1 DEF Ring
  <2>2. \A p \in DOMAIN r1 : r1[p] # x
    BY DEF Owners
  <2> QED
    BY <2>1, <2>2 DEF Owners, SameButFor
<1>9. ASSUME NEW y \in O, NEW z \in O, <<y, z>> \in MetFirst(r2, h) PROVE <<y, z>> \in R
  <2>1. PICK p \in DOMAIN r2 : r2[p] = y /\ \A q \in DOMAIN r2 : r2[q] = z => Turn(h, p) < Turn(h, q)
    BY <1>9 DEF MetFirst
  <2>2. y # x /\ z # x
    BY <1>8
  <2>3. DOMAIN r1 \subseteq Position /\ DOMAIN r2 \subseteq Position
    BY <1>1 DEF Ring
  <2>4. p \in DOMAIN r1 /\ r1[p] = y
    BY <2>1, <2>2, <2>3 DEF SameButFor
  <2>5. \A q \in DOMAIN r1 : r1[q] = z => q \in DOMAIN r2 /\ r2[q] = z
    BY <2>2, <2>3 DEF SameButFor
  <2> QED
    BY <1>7, <2>1, <2>4, <2>5 DEF MetFirst
<1> HIDE DEF a, t, O, R
<1>10. I \in SUBSET DOMAIN t
  OBVIOUS
<1>11. /\ b \in Seq(Owners(r2)) /\ Len(b) = Cardinality(I) /\ IsFiniteSet(I)
       /\ \A k \in DOMAIN b : \E i \in I : b[k] = t[i]
       /\ \A i \in I : \E k \in DOMAIN b : b[k] = t[i]
  BY <1>3, <1>10, SublistKeeps, ZenonT(60)
<1>12. \A i \in I : i \in DOMAIN t /\ t[i] # x /\ t[i] \in O
  BY <1>3, <1>8
<1>13. \A i \in DOMAIN t : t[i] # x => i \in I
  OBVIOUS
<1>14. b = Sublist(t, I)
  OBVIOUS
<1> HIDE DEF I, b
<1>15. ASSUME NEW k \in DOMAIN b, NEW l \in DOMAIN b, k < l
        PROVE  \E i, j \in I : i < j /\ b[k] = t[i] /\ b[l] = t[j]
  <2>1. /\ k \in DOMAIN Sublist(t, I) /\ l \in DOMAIN Sublist(t, I)
        /\ t \in Seq(Owners(r2)) /\ I \in SUBSET DOMAIN t
    BY <1>3, <1>10, <1>14
  <2>2. \E i, j \in I : i < j /\ Sublist(t, I)[k] = t[i] /\ Sublist(t, I)[l] = t[j]
    BY <1>15, <2>1, SublistOrder
  <2> QED
    BY <1>14, <2>2
<1>16. \A k \in DOMAIN b : b[k] \in O
  BY <1>11, <1>12
<1>17. b \in Seq(O)
  BY <1>11, <1>16
<1>18. InOrder(b, O, R)
  <2>1. ASSUME NEW k \in DOMAIN b, NEW l \in DOMAIN b, k < l PROVE <<b[k], b[l]>> \in R
    <3>1. PICK i \in I, j \in I : i < j /\ b[k] = t[i] /\ b[l] = t[j]
      BY <1>15, <2>1
    <3>2. <<t[i], t[j]>> \in MetFirst(r2, h)
      BY <1>3, <1>12, <3>1 DEF InOrder
    <3> QED
      BY <1>9, <1>12, <3>1, <3>2
  <2>2. ASSUME NEW k \in DOMAIN b, NEW z \in O, \A l \in DOMAIN b : b[l] # z
        PROVE  <<b[k], z>> \in R
    <3>1. PICK i \in I : b[k] = t[i]
      BY <1>11
    <3>2. \A j \in DOMAIN t : t[j] # z
      BY <1>8, <1>11, <1>13, <2>2
    <3>3. <<t[i], z>> \in MetFirst(r2, h)
      BY <1>3, <1>8, <1>12, <3>2 DEF InOrder
    <3> QED
      BY <1>9, <1>12, <3>1, <3>3
  <2> QED
    BY <2>1, <2>2 DEF InOrder
<1>19. Len(b) <= Len(a)
  <2>1. Len(b) = Cardinality(Elements(b)) /\ Elements(b) \subseteq O
    BY <1>5, <1>17, <1>18, OrderedIsDistinct, DistinctCount
  <2>2. IsFiniteSet(O) /\ Cardinality(O) \in Nat
    BY <1>1, FewOwners DEF O
  <2>3. Len(b) <= Cardinality(O)
    BY <2>1, <2>2, FS_Subset
  <2>4. Cardinality(I) <= Len(t)
    <3>1. DOMAIN t = 1 .. Len(t) /\ Len(t) \in Nat
      BY <1>3
    <3> DEFINE m == Len(t)
    <3> HIDE DEF m
    <3>2. m \in Nat /\ 1 \in Int /\ m \in Int
      BY <3>1 DEF m
    <3>3. IsFiniteSet(1 .. m) /\ Cardinality(1 .. m) = IF 1 > m THEN 0 ELSE m - 1 + 1
      BY <3>2, FS_Interval, Zenon
    <3>4. Cardinality(I) <= Cardinality(1 .. m)
      BY <1>10, <3>1, <3>3, FS_Subset DEF m
    <3>5. Cardinality(1 .. m) = m
      BY <3>2, <3>3
    <3> QED
      BY <3>4, <3>5 DEF m
  <2>5. Len(t) \in Nat /\ Len(b) \in Nat
    BY <1>3, <1>17
  <2> DEFINE k == Len(b)
             u == Len(t)
             c == Cardinality(O)
  <2> HIDE DEF k, u, c
  <2>6. k \in Nat /\ u \in Nat /\ c \in Nat /\ k <= c /\ k <= u /\ u <= n
    BY <1>3, <1>11, <2>2, <2>3, <2>4, <2>5 DEF k, u, c
  <2>7. k <= IF n <= c THEN n ELSE c
    BY <2>6
  <2> QED
    BY <1>6, <2>7 DEF k, c
<1>20. \A i \in 1 .. Len(b) : b[i] = a[i]
  BY <1>2, <1>5, <1>17, <1>18, <1>19, OneOrder
<1>21. Begins(b, a)
  BY <1>19, <1>20 DEF Begins
<1>22. a \in Seq(NodeId) /\ b \in Seq(NodeId)
  BY <1>2, <1>7, <1>17
<1> QED
  BY <1>4, <1>21, <1>22, BeginsIsPrefix DEF a, t
-----------------------------------------------------------------------------
\* While a call runs: the ring it found and the present one differ only in
\* virtual nodes of the node it is about, which had none if it is being added.
OnlyNodeMoves ==
    op # Idle => /\ Lists(op.keys, op.ring)
                 /\ SameButFor(op.node, op.ring, ring)
                 /\ op.kind = "add" => op.node \notin Owners(op.ring)

MovesInv == KInv /\ (NoCollision => IInv /\ OnlyNodeMoves)

\* The difference of two rings adds up over a third, and has no direction.
LEMMA SameButForChains ==
    ASSUME NEW x, NEW r1, NEW r2, NEW r3, SameButFor(x, r1, r2), SameButFor(x, r2, r3)
    PROVE  SameButFor(x, r1, r3) /\ SameButFor(x, r2, r1)
<1>1. SameButFor(x, r1, r3)
  BY DEF SameButFor
<1>2. SameButFor(x, r2, r1)
  BY DEF SameButFor
<1> QED
  BY <1>1, <1>2

\* An iteration of either loop touches one virtual node of its own node.
LEMMA IterationIsTheNodes ==
    ASSUME NoCollision, IInv, AddVirtualNode \/ RemoveVirtualNode
    PROVE  SameButFor(op.node, ring, ring')
<1> DEFINE w == <<op.node, op.i>>
<1>1. TypeOK /\ op \in Call
  BY DEF IInv, AddVirtualNode, RemoveVirtualNode, TypeOK, Idle
<1>2. op.node \in NodeId /\ op.i \in 0 .. Replicas - 1 /\ w \in VirtualNode
  BY <1>1 DEF Call, VirtualNode
<1>3. hash[w] \in Position
  BY <1>1, <1>2, HashAssumption DEF TypeOK
<1>4. CASE AddVirtualNode
  <2> DEFINE p == FreePosition(ring, hash[w])
  <2>1. ~Placed(w)
    BY <1>2, <1>4 DEF Placed, AddVirtualNode
  <2>2. hash[w] \notin DOMAIN ring
    BY <1>2, <2>1 DEF IInv, OnlyPlaced, NoCollision
  <2>3. p = hash[w]
    BY <1>3, <2>2, FreeStays
  <2>4. ring' = [q \in DOMAIN ring \cup {p} |-> IF q = p THEN op.node ELSE ring[q]]
    BY <1>4 DEF AddVirtualNode
  <2> HIDE DEF p
  <2> QED
    BY <2>2, <2>3, <2>4 DEF SameButFor
<1>5. CASE RemoveVirtualNode
  <2> DEFINE p == hash[w]
  <2>1. Placed(w)
    BY <1>2, <1>5, ReplicasAssumption DEF Placed, RemoveVirtualNode
  <2>2. p \in DOMAIN ring /\ ring[p] = op.node
    BY <1>2, <2>1 DEF IInv, PlacedOwnTheirHash
  <2>3. ring' = [q \in DOMAIN ring \ {p} |-> ring[q]]
    BY <1>5, <2>2 DEF RemoveVirtualNode
  <2> HIDE DEF p
  <2> QED
    BY <2>2, <2>3 DEF SameButFor
<1> QED
  BY <1>4, <1>5

\* Only members and the node that is leaving own positions.
LEMMA OwnersAreMembers ==
    ASSUME NoCollision, IInv, op = Idle
    PROVE  Owners(ring) \subseteq members
<1> SUFFICES ASSUME NEW p \in DOMAIN ring PROVE ring[p] \in members
  BY DEF Owners
<1>1. PICK v \in VirtualNode : Placed(v) /\ hash[v] = p
  BY DEF IInv, OnlyPlaced
<1>2. ring[p] = v[1]
  BY <1>1 DEF IInv, PlacedOwnTheirHash
<1> QED
  BY <1>1, <1>2 DEF Placed, Idle

LEMMA StartMoves ==
    ASSUME KInv, NoCollision, IInv, NEW n \in NodeId, AddNode(n) \/ RemoveNode(n)
    PROVE  OnlyNodeMoves'
<1>1. /\ op = Idle /\ ring' = ring
      /\ op'.ring = ring /\ op'.keys = keys /\ op'.node = n
      /\ op'.kind = "add" => n \notin members
  BY DEF AddNode, RemoveNode
<1>2. Lists(keys, ring)
  BY DEF KInv, TypeOK, KeysMatchRing, Sorted, Lists
<1>3. SameButFor(n, ring, ring)
  BY DEF SameButFor
<1>4. n \notin members => n \notin Owners(ring)
  BY <1>1, OwnersAreMembers
<1> QED
  BY <1>1, <1>2, <1>3, <1>4 DEF OnlyNodeMoves

LEMMA IterationMoves ==
    ASSUME NoCollision, IInv, OnlyNodeMoves, AddVirtualNode \/ RemoveVirtualNode
    PROVE  OnlyNodeMoves'
<1>1. op \in Call /\ op # Idle
  BY DEF IInv, AddVirtualNode, RemoveVirtualNode, TypeOK, Idle
<1>2. Advance
  BY DEF AddVirtualNode, RemoveVirtualNode
<1>3. CASE op' = Idle
  BY <1>3 DEF OnlyNodeMoves
<1>4. CASE op' = [op EXCEPT !.i = op.i + 1]
  <2>1. op'.node = op.node /\ op'.kind = op.kind /\ op'.ring = op.ring /\ op'.keys = op.keys
    BY <1>1, <1>4 DEF Call
  <2>2. SameButFor(op.node, op.ring, ring')
    BY <1>1, IterationIsTheNodes, SameButForChains DEF OnlyNodeMoves
  <2> QED
    BY <1>1, <2>1, <2>2 DEF OnlyNodeMoves
<1> QED
  BY <1>2, <1>3, <1>4 DEF Advance

LEMMA NextMovesInv == MovesInv /\ [Next]_vars => MovesInv'
<1> SUFFICES ASSUME MovesInv, [Next]_vars PROVE MovesInv'
  OBVIOUS
<1>1. KInv /\ KInv'
  BY NextKInv DEF MovesInv
<1>2. ASSUME NoCollision' PROVE IInv' /\ OnlyNodeMoves'
  <2>1. NoCollision
    BY <1>2, HashIsFixed DEF NoCollision
  <2>2. IInv /\ OnlyNodeMoves
    BY <2>1 DEF MovesInv
  <2>3. IInv'
    BY <2>1, <2>2, NextIInv
  <2>4. CASE \E n \in NodeId : AddNode(n) \/ RemoveNode(n)
    BY <1>1, <2>1, <2>2, <2>3, <2>4, StartMoves
  <2>5. CASE AddVirtualNode \/ RemoveVirtualNode
    BY <2>1, <2>2, <2>3, <2>5, IterationMoves
  <2>6. CASE UNCHANGED vars
    BY <2>2, <2>3, <2>6 DEF OnlyNodeMoves, vars
  <2> QED
    BY <2>4, <2>5, <2>6 DEF Next
<1> QED
  BY <1>1, <1>2 DEF MovesInv

\* The step with which a call returns.
LEMMA ReturnMoves ==
    ASSUME MovesInv, MovesInv', [Next]_vars
    PROVE  OnlyItsKeysMove
<1> SUFFICES ASSUME NoCollision, op # Idle, op' = Idle, NEW h \in Position, NEW n \in 1 .. Cardinality(NodeId)
             PROVE  IF op.kind = "add"
                    THEN IsPrefix(Others(GetNodes(ring', keys', h, n), op.node),
                                  GetNodes(op.ring, op.keys, h, n))
                    ELSE /\ ~Contains(GetNodes(ring', keys', h, n), op.node)
                         /\ IsPrefix(Others(GetNodes(op.ring, op.keys, h, n), op.node),
                                     GetNodes(ring', keys', h, n))
  BY Zenon DEF OnlyItsKeysMove
<1>1. NoCollision'
  BY HashIsFixed DEF NoCollision
<1>2. IInv /\ OnlyNodeMoves /\ IInv' /\ KInv'
  BY <1>1 DEF MovesInv
<1>3. AddVirtualNode \/ RemoveVirtualNode
  BY DEF Next, AddNode, RemoveNode, vars
<1>4. /\ Lists(op.keys, op.ring)
      /\ SameButFor(op.node, op.ring, ring)
      /\ op.kind = "add" => op.node \notin Owners(op.ring)
  BY <1>2 DEF OnlyNodeMoves
<1>5. SameButFor(op.node, op.ring, ring') /\ SameButFor(op.node, ring', op.ring)
  <2>1. SameButFor(op.node, ring, ring')
    BY <1>2, <1>3, IterationIsTheNodes
  <2>2. SameButFor(op.node, op.ring, ring')
    BY <1>4, <2>1, SameButForChains, Zenon
  <2>3. SameButFor(op.node, ring', ring')
    BY DEF SameButFor
  <2> QED
    BY <2>2, <2>3, SameButForChains, Zenon
<1>6. Lists(keys', ring')
  BY <1>2 DEF KInv, TypeOK, KeysMatchRing, Sorted, Lists
<1>7. n \in Nat \ {0}
  OBVIOUS
<1>8. CASE op.kind = "add"
  <2>1. IsPrefix(Others(GetNodes(ring', keys', h, n), op.node), GetNodes(op.ring, op.keys, h, n))
    BY <1>4, <1>5, <1>6, <1>7, <1>8, AnswersDifferByOne
  <2> QED
    BY <1>8, <2>1
<1>9. CASE op.kind # "add"
  <2>1. op.node \notin members'
    <3>1. op \in Call
      BY <1>2 DEF IInv, TypeOK
    <3> QED
      BY <1>2, <1>3, <1>9, <3>1 DEF IInv, MembersAnnounced, AddVirtualNode, RemoveVirtualNode, Call
  <2>2. Owners(ring') \subseteq members'
    <3> SUFFICES ASSUME NEW p \in DOMAIN ring' PROVE ring'[p] \in members'
      BY DEF Owners
    <3>1. PICK v \in VirtualNode : Placed(v)' /\ hash'[v] = p
      BY <1>2 DEF IInv, OnlyPlaced
    <3>2. ring'[p] = v[1]
      BY <1>2, <3>1 DEF IInv, PlacedOwnTheirHash
    <3> QED
      BY <3>1, <3>2 DEF Placed, Idle
  <2>3. op.node \notin Owners(ring')
    BY <2>1, <2>2
  <2>4. IsPrefix(Others(GetNodes(op.ring, op.keys, h, n), op.node), GetNodes(ring', keys', h, n))
    BY <1>4, <1>5, <1>6, <1>7, <2>3, AnswersDifferByOne
  <2>5. GetNodes(ring', keys', h, n) \in Seq(Owners(ring'))
    BY <1>6, <1>7, GetNodesInOrder
  <2>6. ~Contains(GetNodes(ring', keys', h, n), op.node)
    <3> DEFINE a == GetNodes(ring', keys', h, n)
    <3>1. a \in Seq(Owners(ring'))
      BY <2>5
    <3> HIDE DEF a
    <3>2. \A i \in DOMAIN a : a[i] # op.node
      BY <2>3, <3>1
    <3>3. ~Contains(a, op.node)
      BY <3>1, <3>2 DEF Contains
    <3> QED
      BY <3>3 DEF a
  <2> QED
    BY <1>9, <2>4, <2>6
<1> QED
  BY <1>8, <1>9
-----------------------------------------------------------------------------
\* Whatever calls of add_node and remove_node are made, the ring holds what the
\* invariant says, unless virtual nodes collide.
THEOREM Invariance == Spec => [](NoCollision => IInv)
<1>1. Init => (NoCollision => IInv)
  BY InitIInv
<1>2. (NoCollision => IInv) /\ [Next]_vars => (NoCollision => IInv)'
  <2> SUFFICES ASSUME NoCollision => IInv, [Next]_vars, NoCollision' PROVE IInv'
    OBVIOUS
  <2>1. NoCollision
    BY HashIsFixed DEF NoCollision
  <2> QED
    BY <2>1, NextIInv
<1> QED
  BY <1>1, <1>2, PTL DEF Spec

\* The ring, the list of positions and the loop variables have their types,
\* whatever the hash function.
THEOREM TypeCorrect == Spec => []TypeOK
<1>1. KInv => TypeOK
  BY DEF KInv
<1> QED
  BY <1>1, InitKInv, NextKInv, PTL DEF Spec

\* _ring and _keys hold the same positions, the list in order and each once, at
\* every iteration of add_node and remove_node (lines 115-126 and 145-149), even
\* when virtual nodes collide and positions are probed for.
THEOREM ListFollowsRing == Spec => []KeysMatchRing
<1>1. KInv => KeysMatchRing
  BY DEF KInv
<1> QED
  BY <1>1, InitKInv, NextKInv, PTL DEF Spec

\* On whatever ring the calls and the probing have made, get_nodes (lines
\* 179-208) returns min(n, nodes on the ring) different nodes, the first is the
\* one get_node returns, and asking for more nodes only adds to the answer.
THEOREM ReplicasFollowRing == Spec => []ReplicasAreDistinct
BY InitKInv, NextKInv, KInvReplies, PTL DEF Spec

\* Servers that know the same members have the same ring, whatever the order in
\* which add_node and remove_node were called (lines 103-149).
THEOREM RingIsItsMembers == Spec => []RingFollowsMembers
<1>1. (NoCollision => IInv) => RingFollowsMembers
  BY IInvImplies DEF RingFollowsMembers
<1> QED
  BY <1>1, Invariance, PTL

\* Unless virtual nodes collide, add_node and remove_node (lines 104-149) move no
\* key between two nodes that stay: for every key and every number of replicas,
\* the answers of get_nodes before and after differ by the node of the call.
THEOREM CallsMoveOnlyTheirKeys == Spec => ReorganizationIsMinimal
<1>1. Init => MovesInv
  <2> SUFFICES ASSUME Init PROVE MovesInv
    OBVIOUS
  <2>1. OnlyNodeMoves
    BY DEF Init, OnlyNodeMoves
  <2> QED
    BY <2>1, InitKInv, InitIInv DEF MovesInv
<1>2. MovesInv /\ MovesInv' /\ [Next]_vars => [OnlyItsKeysMove]_vars
  BY ReturnMoves
<1> QED
  BY <1>1, <1>2, NextMovesInv, PTL DEF Spec, ReorganizationIsMinimal
=============================================================================

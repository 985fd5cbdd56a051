---------------------------- MODULE NodeCluster ----------------------------
(***************************************************************************)
(* clotho/node.py, class Cluster: nodes that write, delete and send their  *)
(* clocks to one another, and the queries that order their events by       *)
(* comparing clocks.                                                       *)
(*                                                                         *)
(* The question is whether the clocks tell the truth about causality.  To  *)
(* ask it the model keeps, beside the code's state, what the clocks are    *)
(* supposed to encode: the k-th occurrence (operation or receipt) of node  *)
(* n is the pair <<n, k>>, past[n] is the set of occurrences that have     *)
(* influenced n through its own steps and the messages it received, and    *)
(* pastOf[id] is that set at the moment event id was made.  No action      *)
(* reads these three ghosts except to maintain them (and to draw an unused *)
(* event id).                                                              *)
(***************************************************************************)
EXTENDS Node

CONSTANTS Splits,          \* pairs of disjoint sets of ids given to partition()
          MaxOccurrences   \* bound: occurrences per node

ASSUME SplitsAssumption == Splits \subseteq (SUBSET NodeId) \X (SUBSET NodeId)
ASSUME MaxOccurrencesAssumption == MaxOccurrences \in Nat

VARIABLES nodes,       \* Cluster.nodes: the ids added so far
          node,        \* the Node objects, meaningful for the ids in nodes
          allEvents,   \* Cluster._all_events
          partition,   \* Cluster._partition1 and _partition2, or None
          occurred,    \* ghost: how many occurrences each node has had
          past,        \* ghost: the causal past of each node
          pastOf       \* ghost: the causal past of each event

vars == <<nodes, node, allEvents, partition, occurred, past, pastOf>>

Occurrence == NodeId \X Nat

Clock == ClocksOver(NodeId, 0 .. MaxOccurrences)

Event == [event_id     : Occurrence,
          node_id      : NodeId,
          vector_clock : Clock,
          operation    : Operation,
          key          : Key,
          value        : Value \cup {None}]

Data == UNION {[D -> (Value \cup {None}) \X Clock] : D \in SUBSET Key}

NodeRecord == [vector_clock : Clock,
               events       : Seq(Event),
               data         : Data,
               known_nodes  : SUBSET (NodeId \cup {"client"})]

\* Every variable has its type, and no clock runs ahead of the bound.
TypeOK ==
    /\ nodes \subseteq NodeId
    /\ node \in [NodeId -> NodeRecord]
    /\ allEvents \in Seq(Event)
    /\ partition \in Splits \cup {None}
    /\ occurred \in [NodeId -> Nat]
    /\ past \in [NodeId -> SUBSET Occurrence]
    /\ DOMAIN pastOf \subseteq Occurrence
    /\ pastOf \in [DOMAIN pastOf -> SUBSET Occurrence]
-----------------------------------------------------------------------------
NextOccurrence(n) == <<n, occurred[n] + 1>>

Init ==
    /\ nodes = {}
    /\ node = [n \in NodeId |-> NewNode(n)]
    /\ allEvents = <<>>
    /\ partition = None
    /\ occurred = [n \in NodeId |-> 0]
    /\ past = [n \in NodeId |-> {}]
    /\ pastOf = [id \in {} |-> {}]

\* Cluster.add_node.  A caller adds each id once: adding it again would
\* replace the node by one that has forgotten its clock.
AddNode(n) ==
    /\ n \notin nodes
    /\ nodes' = nodes \cup {n}
    /\ node' = [node EXCEPT ![n] = NewNode(n)]
    /\ UNCHANGED <<allEvents, partition, occurred, past, pastOf>>

\* An operation on node n, after which nd is the node and its last event is
\* handed to the cluster's event handler.
Perform(n, nd) ==
    /\ node' = [node EXCEPT ![n] = nd]
    /\ allEvents' = Append(allEvents, nd.events[Len(nd.events)])
    /\ occurred' = [occurred EXCEPT ![n] = @ + 1]
    /\ past' = [past EXCEPT ![n] = @ \cup {NextOccurrence(n)}]
    /\ pastOf' = [id \in DOMAIN pastOf \cup {NextOccurrence(n)} |->
                     IF id = NextOccurrence(n)
                     THEN past[n] \cup {NextOccurrence(n)} ELSE pastOf[id]]
    /\ UNCHANGED <<nodes, partition>>

\* Node.write
Write(n, k, v) ==
    /\ n \in nodes
    /\ occurred[n] < MaxOccurrences
    /\ Perform(n, WriteTo(node[n], n, NextOccurrence(n), k, v))

\* Node.delete
Delete(n, k) ==
    /\ n \in nodes
    /\ occurred[n] < MaxOccurrences
    /\ Perform(n, DeleteFrom(node[n], n, NextOccurrence(n), k))

\* Node.send_message: the recipient's receive_message runs inside the call,
\* whatever partition() recorded.  Nothing keeps a node from sending to itself.
SendMessage(n, m, k) ==
    /\ n \in nodes /\ m \in nodes
    /\ occurred[m] < MaxOccurrences
    /\ node' = [node EXCEPT ![m] = ReceiveMessage(@, m, n, SentClock(node[n], k))]
    /\ occurred' = [occurred EXCEPT ![m] = @ + 1]
    /\ past' = [past EXCEPT ![m] = @ \cup past[n] \cup {NextOccurrence(m)}]
    /\ UNCHANGED <<nodes, allEvents, partition, pastOf>>

\* Cluster.partition: only remembers the two sides
Partition(split) ==
    /\ partition' = split
    /\ UNCHANGED <<nodes, node, allEvents, occurred, past, pastOf>>

\* Cluster.heal_partition
HealPartition ==
    /\ partition' = None
    /\ UNCHANGED <<nodes, node, allEvents, occurred, past, pastOf>>

Next ==
    \/ \E n \in NodeId : AddNode(n)
    \/ \E n \in NodeId, k \in Key, v \in Value : Write(n, k, v)
    \/ \E n \in NodeId, k \in Key : Delete(n, k)
    \/ \E n, m \in NodeId, k \in Key : SendMessage(n, m, k)
    \/ \E split \in Splits : Partition(split)
    \/ HealPartition

Spec == Init /\ [][Next]_vars
-----------------------------------------------------------------------------
\* Every event of every node, as the cluster's queries collect them.
Events == UNION {{node[n].events[i] : i \in DOMAIN node[n].events} : n \in nodes}

\* Mistake: the events without a successor are taken first.
ReadyBackwards(R) ==
    {e \in R : ~ \E f \in R \ {e} : HappensBefore(e.vector_clock, f.vector_clock)}

\* The events of R that no other event of R happens before: what one round of
\* the loop of Cluster.get_global_causal_order removes from its remaining set.
Ready(R) ==
    {e \in R : ~ \E f \in R \ {e} : HappensBefore(f.vector_clock, e.vector_clock)}

\* Cluster.get_global_causal_order: the rounds of the loop, in order.  Within
\* a round the order is arbitrary; a round that finds nothing ends the loop.
GlobalCausalOrder(E) ==
    LET remaining[i \in 0 .. Cardinality(E)] ==
            IF i = 0 THEN E ELSE remaining[i - 1] \ Ready(remaining[i - 1])
    IN  [i \in 1 .. Cardinality(E) |-> Ready(remaining[i - 1])]

\* Mistake: the second event's operation is not looked at.
IsConflictOfOneWrite(e, f) ==
    /\ e # f
    /\ e.key = f.key
    /\ e.operation = "WRITE"
    /\ IsConcurrentWith(e.vector_clock, f.vector_clock)

\* The test of Cluster.find_concurrent_conflicts
IsConflict(e, f) ==
    /\ e # f
    /\ e.key = f.key
    /\ e.operation = "WRITE"
    /\ f.operation = "WRITE"
    /\ IsConcurrentWith(e.vector_clock, f.vector_clock)

\* Cluster.find_concurrent_conflicts, as a set of unordered pairs
ConcurrentConflicts(E) ==
    LET order == GlobalCausalOrder(E)
        all == UNION {order[i] : i \in DOMAIN order}
    IN  {{p[1], p[2]} : p \in {q \in all \X all : IsConflict(q[1], q[2])}}
-----------------------------------------------------------------------------
\* Ground truth: e is another event, and it influenced the making of f.
Precedes(e, f) ==
    /\ e.event_id # f.event_id
    /\ e.event_id \in pastOf[f.event_id]

Unrelated(e, f) ==
    /\ e.event_id # f.event_id
    /\ ~Precedes(e, f)
    /\ ~Precedes(f, e)

\* The clocks of two events (VectorClock.compare) name exactly their causal
\* relation: a clock is smaller, larger or concurrent just when the event is in
\* the past of, has in its past, or is unrelated to the other, and no two events
\* share a clock.
ClocksTellCausality ==
    \A e, f \in Events :
        /\ HappensBefore(e.vector_clock, f.vector_clock) <=> Precedes(e, f)
        /\ IsConcurrentWith(e.vector_clock, f.vector_clock) <=> Unrelated(e, f)
        /\ IsEqual(e.vector_clock, f.vector_clock) <=> e = f

\* Cluster.get_global_causal_order returns every event once, and never an
\* event before one that influenced it.
GlobalOrderRespectsCausality ==
    LET order == GlobalCausalOrder(Events)
    IN  /\ Events = UNION {order[i] : i \in DOMAIN order}
        /\ \A i, j \in DOMAIN order :
               /\ i # j => order[i] \cap order[j] = {}
               /\ i <= j => \A e \in order[i], f \in order[j] : ~Precedes(f, e)

\* Cluster.find_concurrent_conflicts reports a pair just when the two events
\* wrote one key and neither influenced the other.
ConflictsAreUnrelatedWrites ==
    LET conflicts == ConcurrentConflicts(Events)
    IN  \A e, f \in Events :
            {e, f} \in conflicts <=>
                /\ Unrelated(e, f)
                /\ e.key = f.key
                /\ e.operation = "WRITE" /\ f.operation = "WRITE"

\* Cluster._all_events, which the nodes' event handlers fill in real time,
\* never lists an event before one whose clock it dominates.
LogInCausalOrder ==
    \A i, j \in DOMAIN allEvents :
        i < j => ~HappensBefore(allEvents[j].vector_clock, allEvents[i].vector_clock)

\* A node's own history is a chain: Node.get_causal_history, which sorts by the
\* weight of the clocks, returns it as it happened, and Node.get_concurrent_events,
\* which looks at one node's events only, finds no two of them concurrent.
OwnHistoryIsAChain ==
    \A n \in nodes :
        LET own == node[n].events
        IN  /\ GetCausalHistory(own) = own
            /\ GetConcurrentEvents(own) = [i \in DOMAIN own |-> {own[i]}]
-----------------------------------------------------------------------------
(* What a docstring says, and the code does not do. *)

\* Node.is_causally_ready (node.py:200-204): "Check if we have received all
\* causally preceding events for the given event. ... N.vector_clock >=
\* E.vector_clock (excluding E's own increment)". A node that has heard of all
\* that precedes an event is ready for it, before it hears of the event itself.
ReadyOncePredecessorsSeen ==
    \A n \in nodes, e \in Events :
        (pastOf[e.event_id] \ {e.event_id}) \subseteq past[n]
            => IsCausallyReady(node[n], e)
=============================================================================

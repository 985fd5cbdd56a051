-------------------------------- MODULE Node --------------------------------
(***************************************************************************)
(* clotho/node.py, class Node: the record of one node's fields and each of *)
(* its methods as an operator from the record before the call to the       *)
(* record after it.  The methods are synchronous, so a call is one step.   *)
(*                                                                         *)
(* An event's event_id is a uuid4 in the code; here it is any value the    *)
(* caller has not used before.                                             *)
(***************************************************************************)
EXTENDS VectorClock, Sequences, FiniteSets, Functions

CONSTANTS NodeId,   \* ids of nodes
          Key,      \* database keys
          Value,    \* values written by clients
          None      \* Python's None

ASSUME NoneAssumption == None \notin Value

Operation == {"WRITE", "DELETE"}

EmptyData == [k \in {} |-> None]

\* Node.__init__
NewNode(n) ==
    [vector_clock |-> New(n),
     events       |-> <<>>,
     data         |-> EmptyData,
     known_nodes  |-> {n}]

\* Node.data[k] = <<v, c>>
SetData(data, k, v, c) ==
    [x \in DOMAIN data \cup {k} |-> IF x = k THEN <<v, c>> ELSE data[x]]

\* Node.perform_operation on node n, which write and delete call
PerformOperation(nd, n, id, op, k, v) ==
    LET vc == Increment(nd.vector_clock, n)
        event == [event_id |-> id, node_id |-> n, vector_clock |-> vc,
                  operation |-> op, key |-> k, value |-> v]
    IN  [vector_clock |-> vc,
         events       |-> Append(nd.events, event),
         data         |-> SetData(nd.data, k, v, vc),
         known_nodes  |-> nd.known_nodes]

\* Node.write
WriteTo(nd, n, id, k, v) == PerformOperation(nd, n, id, "WRITE", k, v)

\* Node.delete: a tombstone, the key stays in data with the value None
DeleteFrom(nd, n, id, k) == PerformOperation(nd, n, id, "DELETE", k, None)

\* Mistake: the sender's clock is not merged.
ReceiveUnmerged(nd, n, sender, clock) ==
    [nd EXCEPT !.known_nodes  = @ \cup DOMAIN clock \cup {sender},
               !.vector_clock = Increment(@, n)]

\* Mistake: the receipt is counted before and after the merge.
ReceiveTwice(nd, n, sender, clock) ==
    [nd EXCEPT !.known_nodes  = @ \cup DOMAIN clock \cup {sender},
               !.vector_clock = Increment(Merge(Increment(@, n), clock), n)]

\* Node.receive_message on node n
ReceiveMessage(nd, n, sender, clock) ==
    [nd EXCEPT !.known_nodes  = @ \cup DOMAIN clock \cup {sender},
               !.vector_clock = Increment(Merge(@, clock), n)]

\* The clock Node.send_message hands to the recipient
SentClock(nd, k) ==
    IF k \in DOMAIN nd.data
    THEN Merge(nd.vector_clock, nd.data[k][2])
    ELSE nd.vector_clock

\* Node.is_causally_ready
IsCausallyReady(nd, event) ==
    Compare(nd.vector_clock, event.vector_clock) \in {"HAPPENS_AFTER", "EQUAL"}

\* Node.get_causal_history: sorted by the sum of the clock's counters, then by
\* the time of creation, which is the order of the list itself.
GetCausalHistory(events) ==
    LET weight(i) == SumFunction(events[i].vector_clock)
        earlier(i, j) ==
            weight(i) < weight(j) \/ (weight(i) = weight(j) /\ i < j)
        ranked(k) == CHOOSE i \in DOMAIN events :
                         Cardinality({j \in DOMAIN events : earlier(j, i)}) = k - 1
    IN  [k \in DOMAIN events |-> events[ranked(k)]]

\* Node.get_concurrent_events: each event joins the first group all of whose
\* members it is concurrent with, or starts a group of its own.
GetConcurrentEvents(events) ==
    LET Fits(e, g) == \A f \in g : IsConcurrentWith(e.vector_clock, f.vector_clock)
        groups[i \in 0 .. Len(events)] ==
            IF i = 0 THEN <<>>
            ELSE LET G == groups[i - 1]
                     e == events[i]
                     fitting == {j \in DOMAIN G : Fits(e, G[j])}
                 IN  IF fitting = {}
                     THEN Append(G, {e})
                     ELSE LET j == CHOOSE x \in fitting : \A y \in fitting : x <= y
                          IN  [G EXCEPT ![j] = @ \cup {e}]
    IN  groups[Len(events)]
=============================================================================

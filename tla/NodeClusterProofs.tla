------------------------- MODULE NodeClusterProofs -------------------------
(***************************************************************************)
(* The clocks of NodeCluster tell the truth about causality, for every set *)
(* of nodes, keys and values and every number of steps.                    *)
(*                                                                         *)
(* The argument replaces clocks by sets.  PastOf(c) is the set of          *)
(* occurrences a clock c counts; increment adds one element to it, merge   *)
(* is union, and domination is inclusion (the first four lemmas).  The     *)
(* invariant says that the past of every node and event is PastOf of its   *)
(* clock, and that the pasts are closed and acyclic.                       *)
(*                                                                         *)
(* The queries follow: the event log is a linear extension of causality,   *)
(* so each round of get_global_causal_order finds an event to append, and  *)
(* conflicts and histories are questions about pasts.                      *)
(***************************************************************************)
EXTENDS NodeCluster, DataProofs

\* The occurrences a clock counts.
PastOf(c) == UNION {{m} \X (1 .. At(c, m)) : m \in NodeId}

LEMMA PastOfMember ==
    ASSUME NEW c \in NatClock(NodeId), NEW m \in NodeId, NEW i
    PROVE  <<m, i>> \in PastOf(c) <=> i \in Nat /\ 1 <= i /\ i <= At(c, m)
BY AtType DEF PastOf

LEMMA PastOfPairs ==
    ASSUME NEW c \in NatClock(NodeId), NEW o \in PastOf(c)
    PROVE  /\ o \in Occurrence
           /\ o[2] <= At(c, o[1])
           /\ o = <<o[1], o[2]>>
BY AtType DEF PastOf, Occurrence

LEMMA PastOfNew ==
    ASSUME NEW n \in NodeId
    PROVE  PastOf(New(n)) = {}
BY NewClock DEF PastOf

\* An increment counts one more occurrence of its own node.
LEMMA PastOfIncrement ==
    ASSUME NEW c \in NatClock(NodeId), NEW n \in NodeId
    PROVE  PastOf(Increment(c, n)) = PastOf(c) \cup {<<n, At(c, n) + 1>>}
<1> DEFINE d == Increment(c, n)
<1>1. d \in NatClock(NodeId)
    BY IncrementClock
<1>2. ASSUME NEW m \in NodeId, NEW i
      PROVE  <<m, i>> \in PastOf(d) <=>
                 <<m, i>> \in PastOf(c) \/ <<m, i>> = <<n, At(c, n) + 1>>
    <2>1. At(d, m) = IF m = n THEN At(c, n) + 1 ELSE At(c, m)
        BY IncrementClock
    <2>2. At(c, m) \in Nat /\ At(c, n) \in Nat
        BY AtType
    <2>3. <<m, i>> \in PastOf(d) <=> i \in Nat /\ 1 <= i /\ i <= At(d, m)
        BY <1>1, PastOfMember
    <2>4. <<m, i>> \in PastOf(c) <=> i \in Nat /\ 1 <= i /\ i <= At(c, m)
        BY PastOfMember
    <2> HIDE DEF d
    <2> QED
        BY <2>1, <2>2, <2>3, <2>4
<1>3. \A o \in PastOf(d) : o \in Occurrence /\ o = <<o[1], o[2]>>
    BY <1>1, PastOfPairs
<1>4. \A o \in PastOf(c) : o \in Occurrence /\ o = <<o[1], o[2]>>
    BY PastOfPairs
<1>5. ASSUME NEW o \in PastOf(d)
      PROVE  o \in PastOf(c) \cup {<<n, At(c, n) + 1>>}
    <2>1. o[1] \in NodeId
        BY <1>3 DEF Occurrence
    <2> QED
        BY <1>2, <1>3, <2>1
<1>6. ASSUME NEW o \in PastOf(c)
      PROVE  o \in PastOf(d)
    <2>1. o[1] \in NodeId
        BY <1>4 DEF Occurrence
    <2> QED
        BY <1>2, <1>4, <2>1
<1>7. <<n, At(c, n) + 1>> \in PastOf(d)
    BY <1>2
<1> HIDE DEF d
<1>8. PastOf(d) = PastOf(c) \cup {<<n, At(c, n) + 1>>}
    BY <1>5, <1>6, <1>7
<1> QED
    BY <1>8 DEF d

\* A merge counts what either clock counts.
LEMMA PastOfMerge ==
    ASSUME NEW c \in NatClock(NodeId), NEW d \in NatClock(NodeId)
    PROVE  PastOf(Merge(c, d)) = PastOf(c) \cup PastOf(d)
<1> DEFINE u == Merge(c, d)
<1>1. u \in NatClock(NodeId)
    BY MergeClock
<1>2. ASSUME NEW m \in NodeId, NEW i
      PROVE  <<m, i>> \in PastOf(u) <=> <<m, i>> \in PastOf(c) \/ <<m, i>> \in PastOf(d)
    <2>1. At(u, m) = IF At(c, m) >= At(d, m) THEN At(c, m) ELSE At(d, m)
        BY MergeClock
    <2>2. At(c, m) \in Nat /\ At(d, m) \in Nat
        BY AtType
    <2>3. <<m, i>> \in PastOf(u) <=> i \in Nat /\ 1 <= i /\ i <= At(u, m)
        BY <1>1, PastOfMember
    <2>4. <<m, i>> \in PastOf(c) <=> i \in Nat /\ 1 <= i /\ i <= At(c, m)
        BY PastOfMember
    <2>5. <<m, i>> \in PastOf(d) <=> i \in Nat /\ 1 <= i /\ i <= At(d, m)
        BY PastOfMember
    <2> HIDE DEF u
    <2> QED
        BY <2>1, <2>2, <2>3, <2>4, <2>5
<1>3. \A o \in PastOf(u) \cup PastOf(c) \cup PastOf(d) :
          o[1] \in NodeId /\ o = <<o[1], o[2]>>
    BY <1>1, PastOfPairs DEF Occurrence
<1> HIDE DEF u
<1>4. PastOf(u) = PastOf(c) \cup PastOf(d)
    BY <1>2, <1>3
<1> QED
    BY <1>4 DEF u

\* One clock dominates another just when it counts all the other counts.
LEMMA DominatesIsInclusion ==
    ASSUME NEW c \in NatClock(NodeId), NEW d \in NatClock(NodeId)
    PROVE  Dominates(d, c) <=> PastOf(c) \subseteq PastOf(d)
<1>1. \A m \in NodeId : At(c, m) \in Nat /\ At(d, m) \in Nat
    BY AtType
<1>2. ASSUME Dominates(d, c), NEW o \in PastOf(c)
      PROVE  o \in PastOf(d)
    <2>1. o[1] \in NodeId /\ o[2] \in Nat /\ o = <<o[1], o[2]>>
        BY PastOfPairs DEF Occurrence
    <2>2. 1 <= o[2] /\ o[2] <= At(c, o[1])
        BY <2>1, PastOfMember
    <2>3. At(d, o[1]) >= At(c, o[1])
        BY <1>2, <2>1, DominatesEverywhere
    <2>4. o[2] <= At(d, o[1])
        BY <1>1, <2>1, <2>2, <2>3
    <2> QED
        BY <2>1, <2>2, <2>4, PastOfMember
<1>3. ASSUME PastOf(c) \subseteq PastOf(d), NEW m \in NodeId
      PROVE  At(d, m) >= At(c, m)
    <2>1. CASE At(c, m) = 0
        BY <1>1, <2>1
    <2>2. CASE At(c, m) # 0
        <3>1. <<m, At(c, m)>> \in PastOf(c)
            BY <1>1, <2>2, PastOfMember
        <3> QED
            BY <1>1, <1>3, <3>1, PastOfMember
    <2> QED
        BY <2>1, <2>2
<1> QED
    BY <1>2, <1>3, DominatesEverywhere
-----------------------------------------------------------------------------
\* A node's clock counts its past; its own counter counts its own occurrences,
\* and no clock is ahead of the node it counts.
NodesCounted ==
    \A n \in NodeId :
        /\ past[n] = PastOf(node[n].vector_clock)
        /\ At(node[n].vector_clock, n) = occurred[n]
        /\ \A m \in NodeId : At(node[n].vector_clock, m) <= occurred[m]

OccurrencesBounded == \A n \in NodeId : occurred[n] <= MaxOccurrences

\* So does the clock of an event, which belongs to its own past.
EventsCounted ==
    \A e \in Events :
        /\ e.event_id \in DOMAIN pastOf
        /\ pastOf[e.event_id] = PastOf(e.vector_clock)

\* The version a node stores is in the node's past.
DataCounted ==
    \A n \in NodeId : \A k \in DOMAIN node[n].data :
        PastOf(node[n].data[k][2]) \subseteq past[n]

EventIdsUnique ==
    \A e, f \in Events : e.event_id = f.event_id => e = f

PastsWellFormed ==
    \A id \in DOMAIN pastOf :
        /\ id \in pastOf[id]
        /\ \A o \in pastOf[id] : o[2] <= occurred[o[1]]

\* Whatever is in a past brings its own past with it.
PastsClosed ==
    \A id \in DOMAIN pastOf :
        /\ \A n \in NodeId : id \in past[n] => pastOf[id] \subseteq past[n]
        /\ \A f \in DOMAIN pastOf : id \in pastOf[f] => pastOf[id] \subseteq pastOf[f]

PastsAcyclic ==
    \A e, f \in DOMAIN pastOf : e \in pastOf[f] /\ f \in pastOf[e] => e = f

\* The cluster's log lists events of the nodes, an event after its past.
LogOrdered ==
    /\ \A i \in DOMAIN allEvents : allEvents[i] \in Events
    /\ \A i, j \in DOMAIN allEvents :
           i < j => allEvents[j].event_id \notin pastOf[allEvents[i].event_id]

EventsLogged ==
    \A e \in Events : \E i \in DOMAIN allEvents : allEvents[i] = e

\* A node's events are in its past, each in the past of the later ones.
OwnEventsOrdered ==
    \A n \in NodeId : \A i \in DOMAIN node[n].events :
        /\ node[n].events[i].event_id \in past[n]
        /\ node[n].events[i].event_id \in DOMAIN pastOf
        /\ \A j \in DOMAIN node[n].events : i < j =>
               /\ node[n].events[i].event_id \in pastOf[node[n].events[j].event_id]
               /\ node[n].events[j].event_id \notin pastOf[node[n].events[i].event_id]

\* A clock mentions finitely many nodes, however many there can be.
ClocksFinite ==
    /\ \A n \in NodeId :
           /\ IsFiniteSet(DOMAIN node[n].vector_clock)
           /\ \A k \in DOMAIN node[n].data : IsFiniteSet(DOMAIN node[n].data[k][2])
    /\ \A e \in Events : IsFiniteSet(DOMAIN e.vector_clock)

\* A node that was not added yet has done nothing.
AbsentNodesNew ==
    \A n \in NodeId \ nodes : node[n] = NewNode(n) /\ past[n] = {} /\ occurred[n] = 0

IInv ==
    /\ TypeOK
    /\ NodesCounted
    /\ OccurrencesBounded
    /\ EventsCounted
    /\ DataCounted
    /\ EventIdsUnique
    /\ PastsWellFormed
    /\ PastsClosed
    /\ PastsAcyclic
    /\ LogOrdered
    /\ EventsLogged
    /\ OwnEventsOrdered
    /\ ClocksFinite
    /\ AbsentNodesNew
-----------------------------------------------------------------------------
\* The clocks of the model are those whose counters respect the bound.
LEMMA BoundedClock ==
    ASSUME NEW c
    PROVE  c \in Clock <=> /\ c \in NatClock(NodeId)
                           /\ \A m \in NodeId : At(c, m) <= MaxOccurrences
<1> USE MaxOccurrencesAssumption
<1>1. ASSUME c \in Clock
      PROVE  /\ c \in NatClock(NodeId)
             /\ \A m \in NodeId : At(c, m) <= MaxOccurrences
    <2>1. PICK D \in SUBSET NodeId : c \in [D -> 0 .. MaxOccurrences]
        BY <1>1 DEF Clock, ClocksOver
    <2>2. c \in [D -> Nat]
        BY <2>1
    <2> QED
        BY <2>1, <2>2 DEF NatClock, ClocksOver, At
<1>2. ASSUME c \in NatClock(NodeId), \A m \in NodeId : At(c, m) <= MaxOccurrences
      PROVE  c \in Clock
    <2>1. PICK D \in SUBSET NodeId : c \in [D -> Nat]
        BY <1>2 DEF NatClock, ClocksOver
    <2>2. c \in [D -> 0 .. MaxOccurrences]
        BY <1>2, <2>1 DEF At
    <2> QED
        BY <2>1, <2>2 DEF Clock, ClocksOver
<1> QED
    BY <1>1, <1>2

\* Members of Events are events, and each is in the list of some added node.
LEMMA EventsType ==
    ASSUME TypeOK
    PROVE  /\ Events \subseteq Event
           /\ \A e \in Events : e.vector_clock \in NatClock(NodeId)
<1>1. Events \subseteq Event
    BY DEF TypeOK, NodeRecord, Events
<1> QED
    BY <1>1, BoundedClock DEF Event

\* The initial state.
LEMMA InitIInv == Init => IInv
<1> SUFFICES ASSUME Init PROVE IInv
    OBVIOUS
<1> USE DEF Init, NewNode
<1>1. \A n \in NodeId : New(n) \in NatClock(NodeId) /\ \A m \in NodeId : At(New(n), m) = 0
    BY NewClock
<1>2. \A n \in NodeId : New(n) \in Clock
    BY <1>1, BoundedClock, MaxOccurrencesAssumption
<1>3. EmptyData \in Data
    <2>1. EmptyData \in [{} -> (Value \cup {None}) \X Clock]
        BY DEF EmptyData
    <2> QED
        BY <2>1 DEF Data
<1>4. \A n \in NodeId : NewNode(n) \in NodeRecord
    BY <1>2, <1>3 DEF NodeRecord
<1>5. TypeOK
    BY <1>4 DEF TypeOK
<1>6. NodesCounted /\ OccurrencesBounded
    BY <1>1, PastOfNew, MaxOccurrencesAssumption DEF NodesCounted, OccurrencesBounded
<1>7. Events = {}
    BY DEF Events
<1>8. DataCounted
    BY DEF DataCounted, EmptyData
<1>9. ClocksFinite
    <2>1. \A n \in NodeId : IsFiniteSet({n})
        BY FS_Singleton
    <2>2. \A n \in NodeId : DOMAIN New(n) = {n}
        BY DEF New
    <2> QED
        BY <1>7, <2>1, <2>2 DEF ClocksFinite, EmptyData
<1> QED
    BY <1>5, <1>6, <1>7, <1>8, <1>9
    DEF IInv, EventsCounted, EventIdsUnique, PastsWellFormed, PastsClosed,
        PastsAcyclic, LogOrdered, EventsLogged, OwnEventsOrdered, AbsentNodesNew

LEMMA AddNodeIInv ==
    ASSUME IInv, NEW n \in NodeId, AddNode(n)
    PROVE  IInv'
<1>1. node[n] = NewNode(n) /\ node \in [NodeId -> NodeRecord]
    BY DEF IInv, TypeOK, AbsentNodesNew, AddNode
<1>2. node' = node
    BY <1>1 DEF AddNode
<1>3. node[n].events = <<>>
    BY <1>1 DEF NewNode
<1>4. Events' = Events
    BY <1>2, <1>3 DEF Events, AddNode
<1>5. UNCHANGED <<allEvents, partition, occurred, past, pastOf>>
    BY DEF AddNode
<1>6. TypeOK'
    BY <1>2, <1>5 DEF IInv, TypeOK, AddNode
<1>7. AbsentNodesNew'
    BY <1>2, <1>5 DEF IInv, AbsentNodesNew, AddNode
<1> QED
    BY <1>2, <1>4, <1>5, <1>6, <1>7
    DEF IInv, NodesCounted, OccurrencesBounded, EventsCounted, DataCounted,
        EventIdsUnique, PastsWellFormed, PastsClosed, PastsAcyclic, LogOrdered,
        EventsLogged, OwnEventsOrdered, ClocksFinite

\* A partition is recorded and forgotten without touching the rest.
LEMMA RestUnchangedIInv ==
    ASSUME IInv, TypeOK', UNCHANGED <<nodes, node, allEvents, occurred, past, pastOf>>
    PROVE  IInv'
<1>1. Events' = Events
    BY DEF Events
<1> QED
    BY <1>1
    DEF IInv, NodesCounted, OccurrencesBounded, EventsCounted, DataCounted,
        EventIdsUnique, PastsWellFormed, PastsClosed, PastsAcyclic, LogOrdered,
        EventsLogged, OwnEventsOrdered, ClocksFinite, AbsentNodesNew
-----------------------------------------------------------------------------
\* An operation on a node adds one event, whose id no past contains yet.
LEMMA PerformIInv ==
    ASSUME IInv, NEW n \in nodes, occurred[n] < MaxOccurrences,
           NEW op \in Operation, NEW k \in Key, NEW v \in Value \cup {None},
           Perform(n, PerformOperation(node[n], n, NextOccurrence(n), op, k, v))
    PROVE  IInv'
<1> DEFINE id == NextOccurrence(n)
           old == node[n]
           vc == Increment(old.vector_clock, n)
           event == [event_id |-> id, node_id |-> n, vector_clock |-> vc,
                     operation |-> op, key |-> k, value |-> v]
           nd == PerformOperation(old, n, id, op, k, v)
<1> USE MaxOccurrencesAssumption
<1>0. n \in NodeId /\ nodes \subseteq NodeId
    BY DEF IInv, TypeOK
<1>1. /\ node \in [NodeId -> NodeRecord]
      /\ old \in NodeRecord
      /\ occurred \in [NodeId -> Nat]
      /\ past \in [NodeId -> SUBSET Occurrence]
    BY <1>0 DEF IInv, TypeOK
<1>2. /\ old.vector_clock \in NatClock(NodeId)
      /\ \A m \in NodeId : At(old.vector_clock, m) \in Nat
    BY <1>1, BoundedClock, AtType DEF NodeRecord
<1>3. /\ vc \in NatClock(NodeId)
      /\ \A m \in NodeId :
             At(vc, m) = IF m = n THEN occurred[n] + 1 ELSE At(old.vector_clock, m)
    BY <1>0, <1>2, IncrementClock DEF IInv, NodesCounted
<1>4. PastOf(vc) = past[n] \cup {id}
    BY <1>0, <1>2, PastOfIncrement DEF IInv, NodesCounted, NextOccurrence
<1>5. vc \in Clock
    <2>1. \A m \in NodeId : At(vc, m) <= MaxOccurrences
        BY <1>0, <1>1, <1>2, <1>3 DEF IInv, NodesCounted, OccurrencesBounded
    <2> QED
        BY <1>3, <2>1, BoundedClock
<1>6. event \in Event /\ id \in Occurrence
    BY <1>0, <1>1, <1>5 DEF Event, Occurrence, NextOccurrence
<1>7. /\ nd.vector_clock = vc
      /\ nd.events = Append(old.events, event)
      /\ nd.data = SetData(old.data, k, v, vc)
      /\ nd.known_nodes = old.known_nodes
    BY DEF PerformOperation
<1>8. old.events \in Seq(Event)
    BY <1>1 DEF NodeRecord
<1>9. /\ nd.events \in Seq(Event)
      /\ Len(nd.events) = Len(old.events) + 1
      /\ nd.events[Len(nd.events)] = event
      /\ \A i \in DOMAIN old.events : nd.events[i] = old.events[i]
      /\ DOMAIN nd.events = DOMAIN old.events \cup {Len(nd.events)}
    BY <1>6, <1>7, <1>8
<1>10. nd.data \in Data
    <2>1. PICK D \in SUBSET Key : old.data \in [D -> (Value \cup {None}) \X Clock]
        BY <1>1 DEF NodeRecord, Data
    <2>2. nd.data \in [D \cup {k} -> (Value \cup {None}) \X Clock]
        BY <1>5, <1>7, <2>1 DEF SetData
    <2>3. D \cup {k} \in SUBSET Key
        OBVIOUS
    <2> QED
        BY <2>2, <2>3 DEF Data
<1>11. nd \in NodeRecord
    BY <1>1, <1>5, <1>7, <1>9, <1>10 DEF NodeRecord, PerformOperation
<1> HIDE DEF nd, event, vc
<1>12. /\ node' = [node EXCEPT ![n] = nd]
       /\ allEvents' = Append(allEvents, event)
       /\ occurred' = [occurred EXCEPT ![n] = @ + 1]
       /\ past' = [past EXCEPT ![n] = @ \cup {id}]
       /\ pastOf' = [x \in DOMAIN pastOf \cup {id} |->
                        IF x = id THEN past[n] \cup {id} ELSE pastOf[x]]
       /\ UNCHANGED <<nodes, partition>>
    BY <1>9 DEF Perform, nd
<1>13. /\ event.event_id = id
       /\ event.vector_clock = vc
    BY DEF event
<1>14. Events' = Events \cup {event}
    <2>1. \A m \in nodes \ {n} : node'[m] = node[m]
        BY <1>0, <1>1, <1>12
    <2>2. node'[n] = nd
        BY <1>0, <1>1, <1>12
    <2>3. {nd.events[i] : i \in DOMAIN nd.events} =
              {old.events[i] : i \in DOMAIN old.events} \cup {event}
        BY <1>9
    <2>4. nodes' = nodes
        BY <1>12
    <2>5. ASSUME NEW e \in Events'
          PROVE  e \in Events \cup {event}
        <3>1. PICK m \in nodes : e \in {node'[m].events[i] : i \in DOMAIN node'[m].events}
            BY <2>4 DEF Events
        <3>2. CASE m = n
            <4>1. e \in {nd.events[i] : i \in DOMAIN nd.events}
                BY <2>2, <3>1, <3>2
            <4>2. e \in {old.events[i] : i \in DOMAIN old.events} \/ e = event
                BY <2>3, <4>1
            <4> QED
                BY <4>2 DEF Events
        <3>3. CASE m # n
            BY <2>1, <3>1, <3>3 DEF Events
        <3> QED
            BY <3>2, <3>3
    <2>6. ASSUME NEW e \in Events
          PROVE  e \in Events'
        <3>1. PICK m \in nodes : e \in {node[m].events[i] : i \in DOMAIN node[m].events}
            BY DEF Events
        <3>2. e \in {node'[m].events[i] : i \in DOMAIN node'[m].events}
            BY <2>1, <2>2, <2>3, <3>1
        <3> QED
            BY <2>4, <3>2 DEF Events
    <2>7. event \in Events'
        BY <2>2, <2>3, <2>4 DEF Events
    <2> QED
        BY <2>5, <2>6, <2>7
\* The id is fresh: it is ahead of everything counted so far.
<1>15. id \notin DOMAIN pastOf /\ \A m \in NodeId : id \notin past[m]
    <2>1. ASSUME NEW m \in NodeId PROVE id \notin past[m]
        <3>1. node[m].vector_clock \in NatClock(NodeId)
            BY <1>1, BoundedClock DEF NodeRecord
        <3>2. At(node[m].vector_clock, n) <= occurred[n] /\ At(node[m].vector_clock, n) \in Nat
            BY <1>0, <3>1, AtType DEF IInv, NodesCounted
        <3> QED
            BY <1>0, <1>1, <3>1, <3>2, PastOfMember DEF IInv, NodesCounted, NextOccurrence
    <2>2. id \notin DOMAIN pastOf
        BY <1>0, <1>1 DEF IInv, PastsWellFormed, NextOccurrence
    <2> QED
        BY <2>1, <2>2
<1>16. \A f \in DOMAIN pastOf : id \notin pastOf[f]
    BY <1>0, <1>1 DEF IInv, PastsWellFormed, NextOccurrence
<1>17. TypeOK'
    <2>1. allEvents' \in Seq(Event)
        BY <1>6, <1>12 DEF IInv, TypeOK, event
    <2>2. past' \in [NodeId -> SUBSET Occurrence] /\ occurred' \in [NodeId -> Nat]
        BY <1>0, <1>1, <1>6, <1>12
    <2>3. past[n] \cup {id} \in SUBSET Occurrence
        BY <1>0, <1>1, <1>6
    <2>4. DOMAIN pastOf' \subseteq Occurrence /\ pastOf' \in [DOMAIN pastOf' -> SUBSET Occurrence]
        BY <1>6, <1>12, <2>3 DEF IInv, TypeOK
    <2>5. node' \in [NodeId -> NodeRecord]
        BY <1>1, <1>11, <1>12
    <2> QED
        BY <1>12, <2>1, <2>2, <2>4, <2>5 DEF IInv, TypeOK
<1>18. NodesCounted'
    <2>1. \A m \in NodeId : occurred[m] <= occurred'[m]
        BY <1>1, <1>12
    <2>2. ASSUME NEW m \in NodeId, m # n
          PROVE  /\ past'[m] = PastOf(node'[m].vector_clock)
                 /\ At(node'[m].vector_clock, m) = occurred'[m]
                 /\ \A x \in NodeId : At(node'[m].vector_clock, x) <= occurred'[x]
        <3>1. node'[m] = node[m] /\ past'[m] = past[m] /\ occurred'[m] = occurred[m]
            BY <1>0, <1>1, <1>12, <2>2
        <3>2. \A x \in NodeId : At(node[m].vector_clock, x) \in Nat
            BY <1>1, BoundedClock, AtType DEF NodeRecord
        <3>3. \A x \in NodeId : occurred[x] \in Nat /\ occurred'[x] \in Nat
            BY <1>1, <1>12
        <3> QED
            BY <2>1, <3>1, <3>2, <3>3 DEF IInv, NodesCounted
    <2>3. /\ past'[n] = PastOf(node'[n].vector_clock)
          /\ At(node'[n].vector_clock, n) = occurred'[n]
        BY <1>0, <1>1, <1>3, <1>4, <1>7, <1>12
    <2>4. \A x \in NodeId : At(node'[n].vector_clock, x) <= occurred'[x]
        BY <1>0, <1>1, <1>2, <1>3, <1>7, <1>12 DEF IInv, NodesCounted
    <2> QED
        BY <2>2, <2>3, <2>4 DEF NodesCounted
<1>19. OccurrencesBounded'
    BY <1>0, <1>1, <1>12 DEF IInv, OccurrencesBounded
<1>20. EventsCounted'
    BY <1>4, <1>12, <1>13, <1>14, <1>15 DEF IInv, EventsCounted
<1>21. DataCounted'
    <2>1. ASSUME NEW m \in NodeId, m # n, NEW x \in DOMAIN node'[m].data
          PROVE  PastOf(node'[m].data[x][2]) \subseteq past'[m]
        BY <1>0, <1>1, <1>12, <2>1 DEF IInv, DataCounted
    <2>2. node'[n] = nd /\ past'[n] = past[n] \cup {id}
        BY <1>0, <1>1, <1>12
    <2>3. ASSUME NEW x \in DOMAIN nd.data
          PROVE  PastOf(nd.data[x][2]) \subseteq past[n] \cup {id}
        <3>1. CASE x = k
            BY <1>4, <1>7, <3>1 DEF SetData
        <3>2. CASE x # k
            <4>1. x \in DOMAIN old.data /\ nd.data[x] = old.data[x]
                BY <1>7, <3>2 DEF SetData
            <4> QED
                BY <1>0, <4>1 DEF IInv, DataCounted
        <3> QED
            BY <3>1, <3>2
    <2> QED
        BY <2>1, <2>2, <2>3 DEF DataCounted
<1>22. EventIdsUnique'
    <2>1. \A e \in Events : e.event_id # id
        BY <1>15 DEF IInv, EventsCounted
    <2> QED
        BY <1>13, <1>14, <2>1 DEF IInv, EventIdsUnique
<1>23. PastsWellFormed'
    <2>1. \A o \in past[n] : o[2] <= occurred[o[1]] /\ o \in Occurrence
        <3>1. past[n] = PastOf(old.vector_clock)
            BY <1>0 DEF IInv, NodesCounted
        <3> QED
            BY <1>0, <1>1, <1>2, <3>1, PastOfPairs DEF IInv, NodesCounted, Occurrence
    <2>2. \A o \in Occurrence : o[2] <= occurred[o[1]] => o[2] <= occurred'[o[1]]
        BY <1>0, <1>1, <1>12 DEF Occurrence
    <2>3. id[2] <= occurred'[id[1]]
        BY <1>0, <1>1, <1>12 DEF NextOccurrence
    <2>4. \A x \in DOMAIN pastOf : pastOf[x] \subseteq Occurrence
        BY DEF IInv, TypeOK
    <2> HIDE DEF id
    <2>5. ASSUME NEW x \in DOMAIN pastOf'
          PROVE  x \in pastOf'[x] /\ \A o \in pastOf'[x] : o[2] <= occurred'[o[1]]
        <3>1. CASE x = id
            BY <1>12, <2>1, <2>2, <2>3, <3>1
        <3>2. CASE x # id
            <4>1. x \in DOMAIN pastOf /\ pastOf'[x] = pastOf[x]
                BY <1>12, <3>2
            <4> QED
                BY <2>2, <2>4, <4>1 DEF IInv, PastsWellFormed
        <3> QED
            BY <3>1, <3>2
    <2> QED
        BY <2>5 DEF PastsWellFormed
<1>24. /\ pastOf'[id] = past[n] \cup {id}
       /\ \A x \in DOMAIN pastOf : x # id /\ pastOf'[x] = pastOf[x]
       /\ DOMAIN pastOf' = DOMAIN pastOf \cup {id}
       /\ past'[n] = past[n] \cup {id}
       /\ \A m \in NodeId : m # n => past'[m] = past[m]
    BY <1>0, <1>1, <1>12, <1>15
<1> HIDE DEF id
<1>25. PastsClosed'
    <2>1. ASSUME NEW x \in DOMAIN pastOf', NEW m \in NodeId, x \in past'[m]
          PROVE  pastOf'[x] \subseteq past'[m]
        <3>1. CASE x = id
            BY <1>0, <1>15, <1>24, <2>1, <3>1
        <3>2. CASE x # id
            BY <1>0, <1>24, <2>1, <3>2 DEF IInv, PastsClosed
        <3> QED
            BY <3>1, <3>2
    <2>2. ASSUME NEW x \in DOMAIN pastOf', NEW f \in DOMAIN pastOf', x \in pastOf'[f]
          PROVE  pastOf'[x] \subseteq pastOf'[f]
        <3>1. CASE f = id
            BY <1>0, <1>24, <2>1, <2>2, <3>1
        <3>2. CASE f # id
            BY <1>16, <1>24, <2>2, <3>2 DEF IInv, PastsClosed
        <3> QED
            BY <3>1, <3>2
    <2> QED
        BY <2>1, <2>2 DEF PastsClosed
<1>26. PastsAcyclic'
    BY <1>16, <1>24 DEF IInv, PastsAcyclic
<1>27. LogOrdered'
    <2>1. allEvents \in Seq(Event)
        BY DEF IInv, TypeOK
    <2>2. /\ DOMAIN allEvents' = DOMAIN allEvents \cup {Len(allEvents) + 1}
          /\ allEvents'[Len(allEvents) + 1] = event
          /\ \A i \in DOMAIN allEvents : allEvents'[i] = allEvents[i]
          /\ \A i \in DOMAIN allEvents : i \in Nat /\ i < Len(allEvents) + 1
        BY <1>6, <1>12, <2>1
    <2>3. \A i \in DOMAIN allEvents' : allEvents'[i] \in Events'
        BY <1>14, <2>2 DEF IInv, LogOrdered
    <2>4. \A i \in DOMAIN allEvents :
              /\ allEvents[i] \in Events
              /\ allEvents[i].event_id \in DOMAIN pastOf
        BY DEF IInv, LogOrdered, EventsCounted
    <2>5. ASSUME NEW i \in DOMAIN allEvents', NEW j \in DOMAIN allEvents', i < j
          PROVE  allEvents'[j].event_id \notin pastOf'[allEvents'[i].event_id]
        <3>1. i \in DOMAIN allEvents
            BY <2>1, <2>2, <2>5
        <3>2. CASE j = Len(allEvents) + 1
            BY <1>13, <1>16, <1>24, <2>2, <2>4, <3>1, <3>2
        <3>3. CASE j # Len(allEvents) + 1
            <4>1. j \in DOMAIN allEvents
                BY <2>2, <3>3
            <4> QED
                BY <1>24, <2>2, <2>4, <2>5, <3>1, <4>1 DEF IInv, LogOrdered
        <3> QED
            BY <3>2, <3>3
    <2> QED
        BY <2>3, <2>5 DEF LogOrdered
<1>28. AbsentNodesNew'
    BY <1>0, <1>1, <1>12 DEF IInv, AbsentNodesNew
<1>29. EventsLogged'
    <2>1. allEvents \in Seq(Event)
        BY DEF IInv, TypeOK
    <2>2. /\ DOMAIN allEvents' = DOMAIN allEvents \cup {Len(allEvents) + 1}
          /\ allEvents'[Len(allEvents) + 1] = event
          /\ \A i \in DOMAIN allEvents : allEvents'[i] = allEvents[i]
        BY <1>6, <1>12, <2>1
    <2> QED
        BY <1>14, <2>2 DEF IInv, EventsLogged
<1>30. OwnEventsOrdered'
    <2>1. ASSUME NEW m \in NodeId, m # n
          PROVE  node'[m].events = node[m].events /\ past'[m] = past[m]
        BY <1>0, <1>1, <1>12, <2>1, <1>24
    <2>2. node'[n].events = nd.events /\ past'[n] = past[n] \cup {id}
        BY <1>0, <1>1, <1>12, <1>24
    <2> DEFINE top == Len(nd.events)
    <2>3. ASSUME NEW m \in NodeId, NEW i \in DOMAIN node[m].events
          PROVE  /\ node[m].events[i].event_id \in past[m]
                 /\ node[m].events[i].event_id \in DOMAIN pastOf
                 /\ id \notin pastOf[node[m].events[i].event_id]
                 /\ \A j \in DOMAIN node[m].events : i < j =>
                        /\ node[m].events[i].event_id \in pastOf[node[m].events[j].event_id]
                        /\ node[m].events[j].event_id \notin pastOf[node[m].events[i].event_id]
        BY <1>16 DEF IInv, OwnEventsOrdered
    <2>4. ASSUME NEW m \in NodeId, m # n, NEW i \in DOMAIN node[m].events
          PROVE  /\ node[m].events[i].event_id \in past'[m]
                 /\ node[m].events[i].event_id \in DOMAIN pastOf'
                 /\ \A j \in DOMAIN node[m].events : i < j =>
                        /\ node[m].events[i].event_id \in pastOf'[node[m].events[j].event_id]
                        /\ node[m].events[j].event_id \notin pastOf'[node[m].events[i].event_id]
        BY <1>24, <2>1, <2>3, <2>4
    <2>5. /\ DOMAIN nd.events = DOMAIN old.events \cup {top}
          /\ nd.events[top].event_id = id
          /\ \A i \in DOMAIN old.events : nd.events[i] = old.events[i] /\ i < top
        BY <1>8, <1>9, <1>13
    <2> HIDE DEF top
    <2>6. ASSUME NEW i \in DOMAIN nd.events
          PROVE  /\ nd.events[i].event_id \in past'[n]
                 /\ nd.events[i].event_id \in DOMAIN pastOf'
                 /\ \A j \in DOMAIN nd.events : i < j =>
                        /\ nd.events[i].event_id \in pastOf'[nd.events[j].event_id]
                        /\ nd.events[j].event_id \notin pastOf'[nd.events[i].event_id]
        <3>1. CASE i = top
            <4>1. \A j \in DOMAIN nd.events : ~(i < j)
                BY <1>8, <1>9, <2>5, <3>1 DEF top
            <4> QED
                BY <1>24, <2>5, <3>1, <4>1
        <3>2. CASE i # top
            <4>1. i \in DOMAIN old.events
                BY <2>5, <3>2
            <4>2. /\ nd.events[i].event_id \in past[n]
                  /\ nd.events[i].event_id \in DOMAIN pastOf
                  /\ id \notin pastOf[nd.events[i].event_id]
                  /\ \A j \in DOMAIN old.events : i < j =>
                        /\ nd.events[i].event_id \in pastOf[nd.events[j].event_id]
                        /\ nd.events[j].event_id \notin pastOf[nd.events[i].event_id]
                        /\ nd.events[j].event_id \in DOMAIN pastOf
                BY <1>0, <2>3, <2>5, <4>1
            <4> QED
                BY <1>24, <2>5, <4>1, <4>2
        <3> QED
            BY <3>1, <3>2
    <2> QED
        BY <2>1, <2>2, <2>4, <2>6 DEF OwnEventsOrdered
<1>31. ClocksFinite'
    <2>1. IsFiniteSet(DOMAIN vc)
        <3>1. DOMAIN vc = DOMAIN old.vector_clock \cup {n}
            BY DEF vc, Increment
        <3> QED
            BY <1>0, <3>1, FS_AddElement DEF IInv, ClocksFinite
    <2>2. \A x \in DOMAIN nd.data : IsFiniteSet(DOMAIN nd.data[x][2])
        BY <1>0, <1>7, <2>1 DEF SetData, IInv, ClocksFinite
    <2>3. \A m \in NodeId : node'[m] = IF m = n THEN nd ELSE node[m]
        BY <1>0, <1>1, <1>12
    <2> QED
        BY <1>7, <1>13, <1>14, <2>1, <2>2, <2>3 DEF IInv, ClocksFinite
<1> QED
    BY <1>17, <1>18, <1>19, <1>20, <1>21, <1>22, <1>23, <1>25, <1>26, <1>27, <1>28,
       <1>29, <1>30, <1>31
    DEF IInv
-----------------------------------------------------------------------------
\* The clock a message carries counts the sender's past: merging the stored
\* version's clock into it adds nothing.
LEMMA SentClockCountsPast ==
    ASSUME IInv, NEW n \in NodeId, NEW k \in Key
    PROVE  /\ SentClock(node[n], k) \in NatClock(NodeId)
           /\ PastOf(SentClock(node[n], k)) = past[n]
<1>1. node[n] \in NodeRecord
    BY DEF IInv, TypeOK
<1>2. node[n].vector_clock \in NatClock(NodeId)
    BY <1>1, BoundedClock DEF NodeRecord
<1>3. past[n] = PastOf(node[n].vector_clock)
    BY DEF IInv, NodesCounted
<1>4. CASE k \in DOMAIN node[n].data
    <2>1. PICK D \in SUBSET Key : node[n].data \in [D -> (Value \cup {None}) \X Clock]
        BY <1>1 DEF NodeRecord, Data
    <2>2. node[n].data[k][2] \in NatClock(NodeId)
        BY <1>4, <2>1, BoundedClock
    <2>3. PastOf(node[n].data[k][2]) \subseteq past[n]
        BY <1>4 DEF IInv, DataCounted
    <2> DEFINE d == node[n].data[k][2]
    <2>4. SentClock(node[n], k) = Merge(node[n].vector_clock, d)
        BY <1>4 DEF SentClock
    <2> HIDE DEF d
    <2>5. Merge(node[n].vector_clock, d) \in NatClock(NodeId)
        BY <1>2, <2>2, MergeClock DEF d
    <2>6. PastOf(Merge(node[n].vector_clock, d)) = past[n] \cup PastOf(d)
        BY <1>2, <1>3, <2>2, PastOfMerge DEF d
    <2> QED
        BY <2>3, <2>4, <2>5, <2>6 DEF d
<1>5. CASE k \notin DOMAIN node[n].data
    BY <1>2, <1>3, <1>5 DEF SentClock
<1> QED
    BY <1>4, <1>5

\* A message extends the recipient's past by the sender's and by its receipt.
LEMMA SendMessageIInv ==
    ASSUME IInv, NEW n \in NodeId, NEW m \in NodeId, NEW k \in Key, SendMessage(n, m, k)
    PROVE  IInv'
<1> DEFINE id == NextOccurrence(m)
           sent == SentClock(node[n], k)
           merged == Merge(node[m].vector_clock, sent)
           vc == Increment(merged, m)
           nd == ReceiveMessage(node[m], m, n, sent)
<1> USE MaxOccurrencesAssumption
<1>1. /\ node \in [NodeId -> NodeRecord]
      /\ occurred \in [NodeId -> Nat]
      /\ past \in [NodeId -> SUBSET Occurrence]
    BY DEF IInv, TypeOK
<1>2. \A x \in NodeId : /\ node[x].vector_clock \in NatClock(NodeId)
                        /\ \A y \in NodeId : At(node[x].vector_clock, y) \in Nat
    BY <1>1, BoundedClock, AtType DEF NodeRecord
<1>3. sent \in NatClock(NodeId) /\ PastOf(sent) = past[n]
    BY SentClockCountsPast
<1>4. \A x \in NodeId : At(sent, x) \in Nat /\ At(sent, x) <= occurred[x]
    <2>1. ASSUME NEW x \in NodeId PROVE At(sent, x) <= occurred[x]
        <3>1. At(sent, x) \in Nat
            BY <1>3, AtType
        <3>2. CASE At(sent, x) = 0
            BY <1>1, <3>2
        <3>3. CASE At(sent, x) # 0
            <4>1. <<x, At(sent, x)>> \in PastOf(node[n].vector_clock)
                BY <1>3, <3>1, <3>3, PastOfMember DEF IInv, NodesCounted
            <4>2. At(sent, x) <= At(node[n].vector_clock, x)
                BY <1>2, <4>1, PastOfMember
            <4> HIDE DEF sent
            <4> QED
                BY <1>1, <1>2, <3>1, <4>2 DEF IInv, NodesCounted
        <3> QED
            BY <3>2, <3>3
    <2> QED
        BY <1>3, <2>1, AtType
<1> HIDE DEF sent
<1>5. /\ merged \in NatClock(NodeId)
      /\ PastOf(merged) = past[m] \cup past[n]
      /\ \A x \in NodeId : At(merged, x) \in Nat /\ At(merged, x) <= occurred[x]
      /\ At(merged, m) = occurred[m]
    <2>1. /\ merged \in NatClock(NodeId)
          /\ PastOf(merged) = past[m] \cup past[n]
        <3>1. merged \in NatClock(NodeId)
            BY <1>2, <1>3, MergeClock
        <3>2. PastOf(merged) = PastOf(node[m].vector_clock) \cup PastOf(sent)
            BY <1>2, <1>3, PastOfMerge
        <3> QED
            BY <1>3, <3>1, <3>2 DEF IInv, NodesCounted
    <2>2. \A x \in NodeId :
              At(merged, x) = IF At(node[m].vector_clock, x) >= At(sent, x)
                              THEN At(node[m].vector_clock, x) ELSE At(sent, x)
        BY <1>2, <1>3, MergeClock
    <2>3. \A x \in NodeId : At(node[m].vector_clock, x) <= occurred[x]
        BY DEF IInv, NodesCounted
    <2>4. At(node[m].vector_clock, m) = occurred[m]
        BY DEF IInv, NodesCounted
    <2> HIDE DEF merged
    <2> QED
        BY <1>1, <1>2, <1>4, <2>1, <2>2, <2>3, <2>4
<1> HIDE DEF merged
<1>6. /\ vc \in NatClock(NodeId)
      /\ PastOf(vc) = past[m] \cup past[n] \cup {id}
      /\ \A x \in NodeId : At(vc, x) = IF x = m THEN occurred[m] + 1 ELSE At(merged, x)
    BY <1>5, IncrementClock, PastOfIncrement DEF NextOccurrence
<1>7. vc \in Clock
    <2>1. \A x \in NodeId : At(vc, x) <= MaxOccurrences
        BY <1>1, <1>5, <1>6 DEF IInv, OccurrencesBounded, SendMessage
    <2> QED
        BY <1>6, <2>1, BoundedClock
<1>8. /\ nd.vector_clock = vc
      /\ nd.events = node[m].events
      /\ nd.data = node[m].data
      /\ nd \in NodeRecord
    <2>1. DOMAIN sent \subseteq NodeId
        BY <1>3 DEF NatClock, ClocksOver
    <2>2. node[m] \in NodeRecord
        BY <1>1
    <2> QED
        BY <1>7, <2>1, <2>2 DEF ReceiveMessage, NodeRecord, vc, merged
<1>9. /\ node' = [node EXCEPT ![m] = nd]
      /\ occurred' = [occurred EXCEPT ![m] = @ + 1]
      /\ past' = [past EXCEPT ![m] = @ \cup past[n] \cup {id}]
      /\ UNCHANGED <<nodes, allEvents, partition, pastOf>>
    BY <1>1 DEF SendMessage, sent
<1> HIDE DEF nd, vc
<1>10. id \in Occurrence
    BY <1>1 DEF NextOccurrence, Occurrence
<1>11. Events' = Events
    <2>1. \A x \in NodeId : node'[x].events = node[x].events
        BY <1>1, <1>8, <1>9
    <2> QED
        BY <1>9, <2>1 DEF Events, IInv, TypeOK
<1>12. id \notin DOMAIN pastOf
    BY <1>1 DEF IInv, PastsWellFormed, NextOccurrence
<1>13. TypeOK'
    <2>1. past' \in [NodeId -> SUBSET Occurrence] /\ occurred' \in [NodeId -> Nat]
        BY <1>1, <1>9, <1>10
    <2>2. node' \in [NodeId -> NodeRecord]
        BY <1>1, <1>8, <1>9
    <2> QED
        BY <1>9, <2>1, <2>2 DEF IInv, TypeOK
<1>14. NodesCounted'
    <2>1. \A x \in NodeId : occurred[x] <= occurred'[x] /\ occurred'[x] \in Nat
        BY <1>1, <1>9
    <2>2. ASSUME NEW x \in NodeId, x # m
          PROVE  /\ past'[x] = PastOf(node'[x].vector_clock)
                 /\ At(node'[x].vector_clock, x) = occurred'[x]
                 /\ \A y \in NodeId : At(node'[x].vector_clock, y) <= occurred'[y]
        <3>1. node'[x] = node[x] /\ past'[x] = past[x] /\ occurred'[x] = occurred[x]
            BY <1>1, <1>9, <2>2
        <3> QED
            BY <1>1, <1>2, <2>1, <3>1 DEF IInv, NodesCounted
    <2>3. /\ past'[m] = PastOf(node'[m].vector_clock)
          /\ At(node'[m].vector_clock, m) = occurred'[m]
        BY <1>1, <1>6, <1>8, <1>9
    <2>4. \A y \in NodeId : At(node'[m].vector_clock, y) <= occurred'[y]
        BY <1>1, <1>5, <1>6, <1>8, <1>9
    <2> QED
        BY <2>2, <2>3, <2>4 DEF NodesCounted
<1>15. OccurrencesBounded'
    BY <1>1, <1>9 DEF IInv, OccurrencesBounded, SendMessage
<1>16. /\ \A x \in NodeId : past[x] \subseteq past'[x] /\ node'[x].data = node[x].data
       /\ past'[m] = past[m] \cup past[n] \cup {id}
       /\ \A x \in NodeId : x # m => past'[x] = past[x]
    BY <1>1, <1>8, <1>9
<1>17. DataCounted'
    BY <1>16 DEF IInv, DataCounted
<1>18. EventsCounted' /\ EventIdsUnique' /\ LogOrdered' /\ PastsAcyclic'
    BY <1>9, <1>11 DEF IInv, EventsCounted, EventIdsUnique, LogOrdered, PastsAcyclic
<1>19. PastsWellFormed'
    <2>1. \A o \in Occurrence : o[2] <= occurred[o[1]] => o[2] <= occurred'[o[1]]
        BY <1>1, <1>9 DEF Occurrence
    <2>2. \A x \in DOMAIN pastOf : pastOf[x] \subseteq Occurrence
        BY DEF IInv, TypeOK
    <2> QED
        BY <1>9, <2>1, <2>2 DEF IInv, PastsWellFormed
<1>20. PastsClosed'
    BY <1>9, <1>12, <1>16 DEF IInv, PastsClosed
<1>21. AbsentNodesNew'
    BY <1>1, <1>9 DEF IInv, AbsentNodesNew, SendMessage
<1>22. EventsLogged'
    BY <1>9, <1>11 DEF IInv, EventsLogged
<1>23. OwnEventsOrdered'
    <2>1. \A x \in NodeId : node'[x].events = node[x].events
        BY <1>1, <1>8, <1>9
    <2> QED
        BY <1>9, <1>16, <2>1 DEF IInv, OwnEventsOrdered
<1>24. ClocksFinite'
    <2>1. IsFiniteSet(DOMAIN vc)
        <3>1. IsFiniteSet(DOMAIN sent)
            <4>1. DOMAIN sent = DOMAIN node[n].vector_clock
                  \/ (/\ k \in DOMAIN node[n].data
                      /\ DOMAIN sent = DOMAIN node[n].vector_clock \cup DOMAIN node[n].data[k][2])
                BY DEF sent, SentClock, Merge
            <4>2. IsFiniteSet(DOMAIN node[n].vector_clock)
                BY DEF IInv, ClocksFinite
            <4>3. k \in DOMAIN node[n].data => IsFiniteSet(DOMAIN node[n].data[k][2])
                BY DEF IInv, ClocksFinite
            <4> QED
                <5>1. CASE DOMAIN sent = DOMAIN node[n].vector_clock
                    BY <4>2, <5>1
                <5>2. CASE /\ k \in DOMAIN node[n].data
                           /\ DOMAIN sent = DOMAIN node[n].vector_clock \cup DOMAIN node[n].data[k][2]
                    <6>1. IsFiniteSet(DOMAIN node[n].vector_clock \cup DOMAIN node[n].data[k][2])
                        BY <4>2, <4>3, <5>2, FS_Union, Zenon
                    <6> QED
                        BY <5>2, <6>1
                <5> QED
                    BY <4>1, <5>1, <5>2
        <3>2. DOMAIN merged = DOMAIN node[m].vector_clock \cup DOMAIN sent
            BY DEF merged, Merge
        <3>3. IsFiniteSet(DOMAIN merged)
            <4>1. IsFiniteSet(DOMAIN node[m].vector_clock)
                BY DEF IInv, ClocksFinite
            <4>2. IsFiniteSet(DOMAIN node[m].vector_clock \cup DOMAIN sent)
                BY <3>1, <4>1, FS_Union, Zenon
            <4> QED
                BY <3>2, <4>2
        <3>4. DOMAIN vc = DOMAIN merged \cup {m}
            BY DEF vc, Increment
        <3> QED
            BY <3>3, <3>4, FS_AddElement
    <2>2. \A x \in NodeId : node'[x] = IF x = m THEN nd ELSE node[x]
        BY <1>1, <1>9
    <2> QED
        BY <1>8, <1>11, <2>1, <2>2 DEF IInv, ClocksFinite
<1> QED
    BY <1>13, <1>14, <1>15, <1>17, <1>18, <1>19, <1>20, <1>21, <1>22, <1>23, <1>24 DEF IInv

LEMMA NextIInv == IInv /\ [Next]_vars => IInv'
<1> SUFFICES ASSUME IInv, [Next]_vars PROVE IInv'
    OBVIOUS
<1>1. ASSUME NEW n \in NodeId, AddNode(n) PROVE IInv'
    BY <1>1, AddNodeIInv
<1>2. ASSUME NEW n \in NodeId, NEW k \in Key, NEW v \in Value, Write(n, k, v)
      PROVE  IInv'
    BY <1>2, PerformIInv DEF Write, WriteTo, Operation
<1>3. ASSUME NEW n \in NodeId, NEW k \in Key, Delete(n, k)
      PROVE  IInv'
    BY <1>3, PerformIInv DEF Delete, DeleteFrom, Operation
<1>4. ASSUME NEW n \in NodeId, NEW m \in NodeId, NEW k \in Key, SendMessage(n, m, k)
      PROVE  IInv'
    BY <1>4, SendMessageIInv
<1>5. ASSUME NEW split \in Splits, Partition(split) PROVE IInv'
    <2>1. TypeOK'
        BY <1>5 DEF IInv, TypeOK, Partition
    <2> QED
        BY <1>5, <2>1, RestUnchangedIInv DEF Partition
<1>6. CASE HealPartition
    <2>1. TypeOK'
        BY <1>6 DEF IInv, TypeOK, HealPartition
    <2> QED
        BY <1>6, <2>1, RestUnchangedIInv DEF HealPartition
<1>7. CASE UNCHANGED vars
    <2>1. TypeOK'
        BY <1>7 DEF IInv, TypeOK, vars
    <2> QED
        BY <1>7, <2>1, RestUnchangedIInv DEF vars
<1> QED
    BY <1>1, <1>2, <1>3, <1>4, <1>5, <1>6, <1>7 DEF Next

THEOREM Invariance == Spec => []IInv
BY InitIInv, NextIInv, PTL DEF Spec
-----------------------------------------------------------------------------
\* Every reachable state is well typed, and no counter of any clock exceeds the
\* number of occurrences of the node it counts.
THEOREM TypeCorrect == Spec => []TypeOK
<1>1. IInv => TypeOK
    BY DEF IInv
<1> QED
    BY <1>1, Invariance, PTL

\* The strong clock condition holds wherever the invariant does.
LEMMA ClocksAreTrue == IInv => ClocksTellCausality
<1>1. ASSUME IInv, NEW e \in Events, NEW f \in Events
      PROVE  /\ HappensBefore(e.vector_clock, f.vector_clock) <=> Precedes(e, f)
             /\ IsConcurrentWith(e.vector_clock, f.vector_clock) <=> Unrelated(e, f)
             /\ IsEqual(e.vector_clock, f.vector_clock) <=> e = f
    <2> DEFINE P == pastOf[e.event_id]
               Q == pastOf[f.event_id]
    <2>1. e.vector_clock \in NatClock(NodeId) /\ f.vector_clock \in NatClock(NodeId)
        BY <1>1, EventsType DEF IInv
    <2>2. P = PastOf(e.vector_clock) /\ Q = PastOf(f.vector_clock)
        BY <1>1 DEF IInv, EventsCounted
    <2>3. /\ Dominates(f.vector_clock, e.vector_clock) <=> P \subseteq Q
          /\ Dominates(e.vector_clock, f.vector_clock) <=> Q \subseteq P
        BY <2>1, <2>2, DominatesIsInclusion
    <2>4. /\ e.event_id \in DOMAIN pastOf /\ f.event_id \in DOMAIN pastOf
          /\ e.event_id \in P /\ f.event_id \in Q
        BY <1>1 DEF IInv, EventsCounted, PastsWellFormed
    <2>5. /\ e.event_id \in Q <=> P \subseteq Q
          /\ f.event_id \in P <=> Q \subseteq P
        BY <1>1, <2>4 DEF IInv, PastsClosed
    <2>6. e.event_id \in Q /\ f.event_id \in P <=> e = f
        BY <1>1, <2>4 DEF IInv, PastsAcyclic, EventIdsUnique
    <2>7. e.event_id = f.event_id <=> e = f
        BY <1>1 DEF IInv, EventIdsUnique
    <2> QED
        BY <2>1, <2>3, <2>5, <2>6, <2>7, CompareByDomination DEF Precedes, Unrelated
<1> QED
    BY <1>1 DEF ClocksTellCausality

\* The strong clock condition: VectorClock.compare of two events decides their
\* causal relation exactly, and no two events share a clock.
THEOREM StrongClockCondition == Spec => []ClocksTellCausality
BY ClocksAreTrue, Invariance, PTL

\* Node.is_causally_ready answers whether the node has heard of the event
\* itself, directly or through any chain of messages, and not, as its docstring
\* says, whether it has heard of what precedes the event.
ReadyMeansSeen ==
    \A n \in nodes, e \in Events :
        IsCausallyReady(node[n], e) <=> e.event_id \in past[n]

\* What Node.is_causally_ready really tells, for any nodes: it holds of an event
\* just when the node's past holds that event.
THEOREM ReadyIffSeen == Spec => []ReadyMeansSeen
<1>1. ASSUME IInv, NEW n \in nodes, NEW e \in Events
      PROVE  IsCausallyReady(node[n], e) <=> e.event_id \in past[n]
    <2>1. n \in NodeId /\ node[n].vector_clock \in NatClock(NodeId)
        BY <1>1, BoundedClock DEF IInv, TypeOK, NodeRecord
    <2>2. e.vector_clock \in NatClock(NodeId)
        BY <1>1, EventsType DEF IInv
    <2>3. /\ past[n] = PastOf(node[n].vector_clock)
          /\ e.event_id \in DOMAIN pastOf
          /\ pastOf[e.event_id] = PastOf(e.vector_clock)
          /\ e.event_id \in pastOf[e.event_id]
        BY <1>1, <2>1 DEF IInv, NodesCounted, EventsCounted, PastsWellFormed
    <2>4. IsCausallyReady(node[n], e) <=> Dominates(node[n].vector_clock, e.vector_clock)
        BY <2>1, <2>2, CompareByDomination
        DEF IsCausallyReady, HappensAfter, IsEqual
    <2>5. Dominates(node[n].vector_clock, e.vector_clock) <=> pastOf[e.event_id] \subseteq past[n]
        BY <2>1, <2>2, <2>3, DominatesIsInclusion
    <2>6. e.event_id \in past[n] <=> pastOf[e.event_id] \subseteq past[n]
        BY <1>1, <2>1, <2>3 DEF IInv, PastsClosed
    <2> QED
        BY <2>4, <2>5, <2>6
<1>2. IInv => ReadyMeansSeen
    BY <1>1 DEF ReadyMeansSeen
<1> QED
    BY <1>2, Invariance, PTL

\* Of two logged events the clock of the later is never the smaller one.
LEMMA LogExtends == IInv => LogInCausalOrder
<1>1. ASSUME IInv, NEW i \in DOMAIN allEvents, NEW j \in DOMAIN allEvents, i < j
      PROVE  ~HappensBefore(allEvents[j].vector_clock, allEvents[i].vector_clock)
    <2> DEFINE e == allEvents[i]
               f == allEvents[j]
    <2>1. /\ e \in Events /\ f \in Events
          /\ f.event_id \notin pastOf[e.event_id]
        BY <1>1 DEF IInv, LogOrdered
    <2>2. e.vector_clock \in NatClock(NodeId) /\ f.vector_clock \in NatClock(NodeId)
        BY <1>1, <2>1, EventsType DEF IInv
    <2>3. f.event_id \in PastOf(f.vector_clock) /\ f.event_id \notin PastOf(e.vector_clock)
        BY <1>1, <2>1 DEF IInv, EventsCounted, PastsWellFormed
    <2> QED
        BY <2>2, <2>3, DominatesIsInclusion, CompareByDomination
<1> QED
    BY <1>1 DEF LogInCausalOrder

\* The cluster's log is a linear extension of happens-before.
THEOREM LogIsCausal == Spec => []LogInCausalOrder
BY LogExtends, Invariance, PTL
-----------------------------------------------------------------------------
\* The events are those of the log, so there are finitely many.
LEMMA FinitelyManyEvents ==
    ASSUME IInv
    PROVE  IsFiniteSet(Events) /\ Cardinality(Events) \in Nat
<1> DEFINE D == DOMAIN allEvents
           f == [i \in D |-> allEvents[i]]
<1>1. allEvents \in Seq(Event) /\ D = 1 .. Len(allEvents) /\ Len(allEvents) \in Nat
    BY DEF IInv, TypeOK
<1>2. IsFiniteSet(D)
    BY <1>1, FS_Interval
<1>3. f \in Surjection(D, Events)
    BY DEF IInv, LogOrdered, EventsLogged, Surjection
<1> HIDE DEF D, f
<1>4. IsFiniteSet(Events)
    BY <1>2, <1>3, FS_Surjection
<1> QED
    BY <1>4, FS_CardinalityType

\* As long as events remain, one of them has no remaining predecessor: the one
\* the log lists first.
LEMMA SomeEventReady ==
    ASSUME IInv, NEW R \in SUBSET Events, R # {}
    PROVE  Ready(R) # {}
<1> DEFINE T == {i \in DOMAIN allEvents : allEvents[i] \in R}
<1>1. T \in SUBSET Nat /\ T # {}
    BY DEF IInv, TypeOK, EventsLogged
<1>2. PICK i \in T : \A j \in T : i <= j
    BY <1>1, Least
<1>3. ASSUME NEW f \in R \ {allEvents[i]}
      PROVE  ~HappensBefore(f.vector_clock, allEvents[i].vector_clock)
    <2>1. PICK j \in T : allEvents[j] = f
        BY DEF IInv, EventsLogged
    <2>2. i < j
        BY <1>1, <1>2, <1>3, <2>1
    <2> QED
        BY <2>1, <2>2, LogExtends DEF LogInCausalOrder
<1> QED
    BY <1>3 DEF Ready

\* What is left of E before each round of the loop.
LeftBefore(E, n, r) ==
    /\ r \in [0 .. n -> SUBSET E]
    /\ r[0] = E
    /\ \A i \in 1 .. n : r[i] = r[i - 1] \ Ready(r[i - 1])

LEMMA RoundsOfTheLoop ==
    ASSUME NEW E, Cardinality(E) \in Nat
    PROVE  \E r : /\ LeftBefore(E, Cardinality(E), r)
                  /\ GlobalCausalOrder(E) = [i \in 1 .. Cardinality(E) |-> Ready(r[i - 1])]
<1> DEFINE n == Cardinality(E)
           T == SUBSET E
           F == [p \in (1 .. n) \X T |-> p[2] \ Ready(p[2])]
           IsLoop(r) == r = [i \in 0 .. n |-> IF i = 0 THEN E ELSE r[i - 1] \ Ready(r[i - 1])]
           loop == CHOOSE r : IsLoop(r)
<1>1. F \in [(1 .. n) \X T -> T] /\ E \in T
    OBVIOUS
<1>2. \A i \in 1 .. n, R \in T : F[<<i, R>>] = R \ Ready(R)
    OBVIOUS
<1>3. GlobalCausalOrder(E) = [i \in 1 .. n |-> Ready(loop[i - 1])]
    BY DEF GlobalCausalOrder
<1>0. n \in Nat
    OBVIOUS
<1> HIDE DEF F, n, T
<1>4. \E g \in [0 .. n -> T] : IsRun(F, E, n, g)
    BY <1>1, Iterates DEF n
<1>5. PICK g \in [0 .. n -> T] : IsRun(F, E, n, g)
    BY <1>4
<1>6. \A i \in 1 .. n : g[i] = g[i - 1] \ Ready(g[i - 1])
    <2> SUFFICES ASSUME NEW i \in 1 .. n PROVE g[i] = g[i - 1] \ Ready(g[i - 1])
        OBVIOUS
    <2>1. i - 1 \in 0 .. n
        BY <1>0
    <2>2. g[i - 1] \in T
        BY <2>1
    <2>3. g[i] = F[<<i, g[i - 1]>>]
        BY <1>5 DEF IsRun
    <2> QED
        BY <1>2, <2>2, <2>3
<1>7. IsLoop(g)
    <2>1. g = [i \in 0 .. n |-> g[i]]
        BY <1>5
    <2>2. \A i \in 0 .. n : g[i] = IF i = 0 THEN E ELSE g[i - 1] \ Ready(g[i - 1])
        BY <1>5, <1>6 DEF IsRun, n
    <2> QED
        BY <2>1, <2>2
<1>8. IsLoop(loop)
    BY <1>7
<1> HIDE DEF loop
<1>9. LeftBefore(E, n, loop)
    <2>1. DOMAIN loop = 0 .. n /\ loop = [i \in 0 .. n |-> loop[i]]
        BY <1>8
    <2>2. \A i \in 0 .. n : loop[i] = IF i = 0 THEN E ELSE loop[i - 1] \ Ready(loop[i - 1])
        BY <1>8
    <2>3. loop[0] = E /\ \A i \in 1 .. n : loop[i] = loop[i - 1] \ Ready(loop[i - 1])
        <3>1. 0 \in 0 .. n /\ \A i \in 1 .. n : i \in 0 .. n /\ i # 0
            BY <1>0
        <3> QED
            BY <2>2, <3>1
    <2> DEFINE G == {i \in 0 .. n : loop[i] \in SUBSET E}
    <2>4. 0 .. n \subseteq G
        <3>1. 0 \in G /\ \A i \in 0 .. n : i \in G /\ i < n => i + 1 \in G
            <4>1. ASSUME NEW i \in 0 .. n, i \in G, i < n PROVE i + 1 \in G
                <5>1. i + 1 \in 1 .. n /\ (i + 1) - 1 = i
                    BY <4>1 DEF n
                <5>2. loop[i + 1] = loop[i] \ Ready(loop[i])
                    BY <2>3, <5>1
                <5> QED
                    BY <4>1, <5>1, <5>2 DEF n
            <4> QED
                BY <2>3, <4>1 DEF n
        <3> HIDE DEF G
        <3> QED
            BY <3>1, UpTo DEF n
    <2>5. loop \in [0 .. n -> SUBSET E]
        BY <2>1, <2>4
    <2> QED
        BY <2>3, <2>5 DEF LeftBefore
<1> QED
    BY <1>3, <1>9 DEF n

\* Each round leaves less, so after as many rounds as there are events none is left.
LEMMA NothingLeft ==
    ASSUME IInv, NEW n \in Nat, n = Cardinality(Events), NEW r, LeftBefore(Events, n, r)
    PROVE  r[n] = {}
<1> DEFINE G == {i \in 0 .. n : Cardinality(r[i]) <= n - i}
<1>1. \A i \in 0 .. n : r[i] \in SUBSET Events /\ IsFiniteSet(r[i]) /\ Cardinality(r[i]) \in Nat
    BY FinitelyManyEvents, FS_Subset, FS_CardinalityType DEF LeftBefore
<1>2. 0 \in G
    BY DEF LeftBefore
<1>3. ASSUME NEW i \in 0 .. n, i \in G, i < n
      PROVE  i + 1 \in G
    <2>1. i + 1 \in 1 .. n /\ i + 1 \in 0 .. n /\ (i + 1) - 1 = i
        BY <1>3
    <2>2. r[i + 1] = r[i] \ Ready(r[i])
        BY <2>1 DEF LeftBefore
    <2>3. CASE r[i] = {}
        <3>1. r[i + 1] = {}
            BY <2>2, <2>3
        <3>2. Cardinality(r[i + 1]) = 0
            BY <3>1, FS_EmptySet
        <3> QED
            BY <1>3, <2>1, <3>2
    <2>4. CASE r[i] # {}
        <3>1. PICK e : e \in Ready(r[i])
            BY <1>1, <2>4, SomeEventReady
        <3>2. e \in r[i] /\ r[i + 1] \in SUBSET (r[i] \ {e})
            BY <2>2, <3>1 DEF Ready
        <3>3. IsFiniteSet(r[i] \ {e}) /\ Cardinality(r[i] \ {e}) = Cardinality(r[i]) - 1
            BY <1>1, <3>2, FS_RemoveElement
        <3>4. Cardinality(r[i + 1]) <= Cardinality(r[i] \ {e})
            BY <3>2, <3>3, FS_Subset
        <3> DEFINE a == Cardinality(r[i])
                   c == Cardinality(r[i + 1])
        <3>5. a \in Nat /\ c \in Nat /\ c <= a - 1 /\ a <= n - i
            BY <1>1, <1>3, <2>1, <3>3, <3>4
        <3> HIDE DEF a, c
        <3>6. c <= n - (i + 1)
            BY <1>3, <3>5
        <3> QED
            BY <2>1, <3>6 DEF c
    <2> QED
        BY <2>3, <2>4
<1> HIDE DEF G
<1>4. n \in G
    BY <1>2, <1>3, UpTo
<1>5. Cardinality(r[n]) = 0
    BY <1>1, <1>4 DEF G
<1> QED
    BY <1>1, <1>5, FS_EmptySet

\* What is left after a round was left before it.
LEMMA LessAndLess ==
    ASSUME NEW E, NEW n \in Nat, NEW r, LeftBefore(E, n, r),
           NEW i \in 0 .. n, NEW j \in 0 .. n, i <= j
    PROVE  r[j] \subseteq r[i]
<1> DEFINE G == {m \in 0 .. n : i <= m => r[m] \subseteq r[i]}
<1>1. 0 \in G
    OBVIOUS
<1>2. ASSUME NEW m \in 0 .. n, m \in G, m < n
      PROVE  m + 1 \in G
    <2>1. m + 1 \in 1 .. n /\ (m + 1) - 1 = m /\ (i <= m + 1 => i <= m \/ i = m + 1)
        BY <1>2
    <2>2. r[m + 1] = r[m] \ Ready(r[m])
        BY <2>1 DEF LeftBefore
    <2> QED
        BY <1>2, <2>1, <2>2
<1> HIDE DEF G
<1>3. j \in G
    BY <1>1, <1>2, UpTo
<1> QED
    BY <1>3 DEF G

\* The rounds of the loop partition the events, predecessors first.
LEMMA OrderIsCausal == IInv => GlobalOrderRespectsCausality
<1> SUFFICES ASSUME IInv PROVE GlobalOrderRespectsCausality
    OBVIOUS
<1> DEFINE n == Cardinality(Events)
           order == GlobalCausalOrder(Events)
<1>1. n \in Nat
    BY FinitelyManyEvents
<1>2. PICK r : /\ LeftBefore(Events, n, r)
               /\ order = [i \in 1 .. n |-> Ready(r[i - 1])]
    BY <1>1, RoundsOfTheLoop
<1>3. r[n] = {}
    BY <1>1, <1>2, NothingLeft
<1> HIDE DEF n, order
<1>4. \A i \in 0 .. n : r[i] \in SUBSET Events
    BY <1>2 DEF LeftBefore
<1>5. DOMAIN order = 1 .. n /\ \A i \in 1 .. n : /\ i \in Nat /\ i \in 0 .. n /\ i - 1 \in 0 .. n
                                                /\ order[i] = Ready(r[i - 1])
                                                /\ r[i] = r[i - 1] \ Ready(r[i - 1])
    BY <1>1, <1>2 DEF LeftBefore
<1>6. \A R : Ready(R) \subseteq R
    BY DEF Ready
<1>7. ASSUME NEW e \in Events
      PROVE  \E i \in DOMAIN order : e \in order[i]
    <2> DEFINE T == {i \in 0 .. n : e \notin r[i]}
    <2>1. T \in SUBSET Nat /\ n \in T
        BY <1>1, <1>3
    <2>2. PICK i \in T : \A j \in T : i <= j
        BY <2>1, Least
    <2>3. i # 0
        BY <1>2, <2>2 DEF LeftBefore
    <2>4. i \in 1 .. n /\ i - 1 \in 0 .. n /\ ~(i <= i - 1)
        BY <1>1, <2>2, <2>3
    <2>5. e \in r[i - 1] /\ e \notin r[i]
        BY <2>2, <2>4
    <2> QED
        BY <1>5, <2>4, <2>5
<1>8. Events = UNION {order[i] : i \in DOMAIN order}
    BY <1>4, <1>5, <1>6, <1>7
<1>9. ASSUME NEW i \in DOMAIN order, NEW j \in DOMAIN order, i < j
      PROVE  order[i] \cap order[j] = {}
    <2>1. i \in 0 .. n /\ j - 1 \in 0 .. n /\ i <= j - 1
        BY <1>5, <1>9
    <2>2. r[j - 1] \subseteq r[i]
        BY <1>1, <1>2, <2>1, LessAndLess
    <2>3. /\ order[i] = Ready(r[i - 1]) /\ r[i] = r[i - 1] \ Ready(r[i - 1])
          /\ order[j] = Ready(r[j - 1])
        BY <1>5
    <2>4. Ready(r[j - 1]) \subseteq r[j - 1]
        BY <1>6
    <2> QED
        BY <2>2, <2>3, <2>4
<1>10. ASSUME NEW i \in DOMAIN order, NEW j \in DOMAIN order, i <= j,
              NEW e \in order[i], NEW f \in order[j], Precedes(f, e)
       PROVE  FALSE
    <2>1. i - 1 \in 0 .. n /\ j - 1 \in 0 .. n /\ i - 1 <= j - 1
        BY <1>5, <1>10
    <2>2. r[j - 1] \subseteq r[i - 1]
        BY <1>1, <1>2, <2>1, LessAndLess
    <2>3. e \in Ready(r[i - 1]) /\ f \in r[i - 1]
        BY <1>5, <1>6, <2>2
    <2>4. f # e /\ e \in Events /\ f \in Events
        BY <1>8, <1>10 DEF Precedes
    <2>5. HappensBefore(f.vector_clock, e.vector_clock)
        BY <1>10, <2>4, ClocksAreTrue DEF ClocksTellCausality
    <2> QED
        BY <2>3, <2>4, <2>5 DEF Ready
<1>11. ASSUME NEW i \in DOMAIN order, NEW j \in DOMAIN order, i # j
       PROVE  order[i] \cap order[j] = {}
    <2>1. i < j \/ j < i
        BY <1>5, <1>11
    <2>2. CASE i < j
        BY <1>9, <2>2
    <2>3. CASE j < i
        <3>1. order[j] \cap order[i] = {}
            BY <1>9, <2>3
        <3> QED
            BY <3>1
    <2> QED
        BY <2>1, <2>2, <2>3
<1> QED
    BY <1>8, <1>10, <1>11 DEF GlobalOrderRespectsCausality, order

\* Cluster.get_global_causal_order returns every event exactly once, and none
\* before an event that influenced it: its loop never stops early.
THEOREM CausalOrder == Spec => []GlobalOrderRespectsCausality
BY OrderIsCausal, Invariance, PTL

\* Cluster.find_concurrent_conflicts reports exactly the pairs of writes of one
\* key of which neither influenced the other.
THEOREM ConflictsExact == Spec => []ConflictsAreUnrelatedWrites
<1>1. ASSUME IInv, NEW e \in Events, NEW f \in Events
      PROVE  {e, f} \in ConcurrentConflicts(Events) <=>
                 /\ Unrelated(e, f)
                 /\ e.key = f.key
                 /\ e.operation = "WRITE" /\ f.operation = "WRITE"
    <2> DEFINE order == GlobalCausalOrder(Events)
    <2>1. Events = UNION {order[i] : i \in DOMAIN order}
        BY <1>1, OrderIsCausal DEF GlobalOrderRespectsCausality
    <2>2. ConcurrentConflicts(Events) =
              {{p[1], p[2]} : p \in {q \in Events \X Events : IsConflict(q[1], q[2])}}
        BY <2>1 DEF ConcurrentConflicts
    <2> HIDE DEF order
    <2>3. IsConflict(e, f) <=> /\ Unrelated(e, f)
                               /\ e.key = f.key
                               /\ e.operation = "WRITE" /\ f.operation = "WRITE"
        BY <1>1, ClocksAreTrue DEF ClocksTellCausality, IsConflict, Unrelated
    <2>4. IsConflict(f, e) <=> /\ Unrelated(e, f)
                               /\ e.key = f.key
                               /\ e.operation = "WRITE" /\ f.operation = "WRITE"
        BY <1>1, ClocksAreTrue DEF ClocksTellCausality, IsConflict, Unrelated
    <2>5. {e, f} \in ConcurrentConflicts(Events) <=>
              \E q \in Events \X Events : IsConflict(q[1], q[2]) /\ {q[1], q[2]} = {e, f}
        BY <2>2
    <2>6. (\E q \in Events \X Events : IsConflict(q[1], q[2]) /\ {q[1], q[2]} = {e, f})
          <=> IsConflict(e, f) \/ IsConflict(f, e)
        <3>1. ASSUME NEW a \in Events, NEW b \in Events, IsConflict(a, b), {a, b} = {e, f}
              PROVE  IsConflict(e, f) \/ IsConflict(f, e)
            <4>1. (a = e /\ b = f) \/ (a = f /\ b = e)
                BY <3>1
            <4> QED
                BY <3>1, <4>1
        <3>2. ASSUME IsConflict(e, f)
              PROVE  \E q \in Events \X Events : IsConflict(q[1], q[2]) /\ {q[1], q[2]} = {e, f}
            <4> WITNESS <<e, f>> \in Events \X Events
            <4> QED
                BY <3>2
        <3>3. ASSUME IsConflict(f, e)
              PROVE  \E q \in Events \X Events : IsConflict(q[1], q[2]) /\ {q[1], q[2]} = {e, f}
            <4> WITNESS <<f, e>> \in Events \X Events
            <4> QED
                BY <3>3
        <3> QED
            BY <3>1, <3>2, <3>3
    <2> QED
        BY <2>3, <2>4, <2>5, <2>6
<1>2. IInv => ConflictsAreUnrelatedWrites
    BY <1>1 DEF ConflictsAreUnrelatedWrites
<1> QED
    BY <1>2, Invariance, PTL
-----------------------------------------------------------------------------
\* Of two events of one node the earlier happened before the later, and weighs less.
LEMMA OwnEventsGrow ==
    ASSUME IInv, NEW n \in nodes,
           NEW i \in DOMAIN node[n].events, NEW j \in DOMAIN node[n].events, i < j
    PROVE  LET c == node[n].events[i].vector_clock
               d == node[n].events[j].vector_clock
           IN  /\ ~IsConcurrentWith(d, c)
               /\ SumFunction(c) \in Nat /\ SumFunction(d) \in Nat
               /\ SumFunction(c) < SumFunction(d)
<1> DEFINE e == node[n].events[i]
           f == node[n].events[j]
           c == e.vector_clock
           d == f.vector_clock
<1>1. n \in NodeId /\ e \in Events /\ f \in Events
    BY DEF IInv, TypeOK, Events
<1>2. Precedes(e, f)
    <2>1. e.event_id \in pastOf[f.event_id] /\ f.event_id \notin pastOf[e.event_id]
        BY <1>1 DEF IInv, OwnEventsOrdered
    <2> QED
        BY <2>1 DEF Precedes
<1>3. HappensBefore(c, d) /\ ~IsConcurrentWith(d, c)
    BY <1>1, <1>2, ClocksAreTrue DEF ClocksTellCausality, Unrelated
<1>4. /\ c \in NatClock(NodeId) /\ d \in NatClock(NodeId)
      /\ IsFiniteSet(DOMAIN c) /\ IsFiniteSet(DOMAIN d)
    BY <1>1, EventsType DEF IInv, ClocksFinite
<1> HIDE DEF c, d
<1>5. Dominates(d, c) /\ ~Dominates(c, d)
    BY <1>3, <1>4, CompareByDomination
<1>6. c \in [DOMAIN c -> Nat] /\ d \in [DOMAIN d -> Nat]
    BY <1>4 DEF NatClock, ClocksOver
<1>7. \A m : At(c, m) \in Nat /\ At(d, m) \in Nat
    BY <1>4, AtType
<1>8. \A m \in DOMAIN c \cup DOMAIN d : At(c, m) <= At(d, m)
    BY <1>5, <1>7 DEF Dominates
<1>9. PICK x \in DOMAIN c \cup DOMAIN d : At(c, x) < At(d, x)
    BY <1>5, <1>7 DEF Dominates
<1>10. SumFunction(c) \in Nat /\ SumFunction(d) \in Nat /\ SumFunction(c) < SumFunction(d)
    BY <1>4, <1>6, <1>8, <1>9, WeightGrows
<1> QED
    BY <1>3, <1>10 DEF c, d

\* Sorting what has growing weights changes nothing.
LEMMA SortedAlready ==
    ASSUME NEW T, NEW s \in Seq(T),
           \A i \in DOMAIN s : SumFunction(s[i].vector_clock) \in Nat,
           \A i, j \in DOMAIN s :
               i < j => SumFunction(s[i].vector_clock) < SumFunction(s[j].vector_clock)
    PROVE  GetCausalHistory(s) = s
<1> DEFINE D == DOMAIN s
           w(i) == SumFunction(s[i].vector_clock)
           earlier(i, j) == w(i) < w(j) \/ (w(i) = w(j) /\ i < j)
           rank(i) == Cardinality({j \in D : earlier(j, i)})
           at(k) == CHOOSE i \in D : rank(i) = k - 1
<1>1. Len(s) \in Nat /\ D = 1 .. Len(s)
    OBVIOUS
<1>2. ASSUME NEW i \in D
      PROVE  rank(i) = i - 1
    <2>1. ASSUME NEW j \in D
          PROVE  earlier(j, i) <=> j < i
        <3>1. (j < i => w(j) < w(i)) /\ (i < j => w(i) < w(j)) /\ w(i) \in Nat /\ w(j) \in Nat
            OBVIOUS
        <3>2. i \in Nat /\ j \in Nat /\ (j = i => w(j) = w(i))
            BY <1>1
        <3> HIDE DEF w
        <3> QED
            BY <3>1, <3>2
    <2> HIDE DEF earlier
    <2>2. {j \in D : earlier(j, i)} = Before(D, i)
        BY <2>1 DEF Before
    <2> QED
        BY <1>1, <2>2, BeforeAll
<1> HIDE DEF rank
<1>3. ASSUME NEW k \in D
      PROVE  at(k) = k
    <2>1. at(k) \in D /\ rank(at(k)) = k - 1
        BY <1>2, <1>3
    <2> HIDE DEF at
    <2>2. at(k) - 1 = k - 1 /\ at(k) \in Nat /\ k \in Nat
        BY <1>1, <1>2, <2>1
    <2> QED
        BY <2>2
<1>4. GetCausalHistory(s) = [k \in D |-> s[at(k)]]
    BY DEF GetCausalHistory, at, rank, earlier, w
<1> HIDE DEF at, D
<1>5. [k \in D |-> s[at(k)]] = [k \in D |-> s[k]]
    BY <1>3
<1>6. s = [k \in D |-> s[k]]
    BY DEF D
<1> QED
    BY <1>4, <1>5, <1>6

\* One round of the loop of get_concurrent_events: e joins a group or starts one.
Join(e, G) ==
    LET fitting == {j \in DOMAIN G :
                        \A f \in G[j] : IsConcurrentWith(e.vector_clock, f.vector_clock)}
    IN  IF fitting = {}
        THEN Append(G, {e})
        ELSE LET j == CHOOSE x \in fitting : \A y \in fitting : x <= y
             IN  [G EXCEPT ![j] = @ \cup {e}]

\* Events of which none is concurrent with an earlier one get a group each.
LEMMA GroupsOfOne ==
    ASSUME NEW T, NEW s \in Seq(T),
           \A i, j \in DOMAIN s :
               i < j => ~IsConcurrentWith(s[j].vector_clock, s[i].vector_clock)
    PROVE  GetConcurrentEvents(s) = [i \in DOMAIN s |-> {s[i]}]
<1> DEFINE n == Len(s)
           first(i) == [k \in 1 .. i |-> {s[k]}]
           IsGroups(g) == g = [i \in 0 .. n |-> IF i = 0 THEN <<>> ELSE Join(s[i], g[i - 1])]
           h == [i \in 0 .. n |-> first(i)]
           groups == CHOOSE g : IsGroups(g)
<1>1. n \in Nat /\ DOMAIN s = 1 .. n
    OBVIOUS
<1>2. GetConcurrentEvents(s) = groups[n]
    BY DEF GetConcurrentEvents, Join
<1> HIDE DEF groups, n
<1>3. first(0) = <<>>
    OBVIOUS
<1>4. ASSUME NEW i \in 1 .. n
      PROVE  Join(s[i], first(i - 1)) = first(i)
    <2> DEFINE G == first(i - 1)
    <2>1. i - 1 \in Nat /\ i \in Nat /\ i \in DOMAIN s
        BY <1>1
    <2>2. G \in Seq(SUBSET T) /\ Len(G) = i - 1 /\ DOMAIN G = 1 .. i - 1
        <3>1. \A k \in 1 .. i - 1 : {s[k]} \in SUBSET T
            BY <1>1
        <3>2. G \in [1 .. i - 1 -> SUBSET T]
            BY <3>1
        <3> HIDE DEF G
        <3> QED
            BY <2>1, <3>2
    <2>3. ASSUME NEW j \in DOMAIN G
          PROVE  \E f \in G[j] : ~IsConcurrentWith(s[i].vector_clock, f.vector_clock)
        <3>1. j \in DOMAIN s /\ j < i /\ s[j] \in G[j]
            BY <1>1, <2>1, <2>2
        <3> QED
            BY <2>1, <3>1
    <2>4. \A k \in 1 .. i - 1 : G[k] = {s[k]}
        OBVIOUS
    <2> HIDE DEF G
    <2>5. Join(s[i], G) = Append(G, {s[i]})
        BY <2>3 DEF Join
    <2>6. Append(G, {s[i]}) = first(i)
        <3>1. Append(G, {s[i]}) = [k \in 1 .. i |-> IF k = i THEN {s[i]} ELSE G[k]]
            BY <2>1, <2>2
        <3>2. \A k \in 1 .. i : k # i => k \in 1 .. i - 1
            BY <2>1
        <3> QED
            BY <2>4, <3>1, <3>2
    <2> QED
        BY <2>5, <2>6 DEF G
<1> HIDE DEF first
<1>5. IsGroups(h)
    <2>1. ASSUME NEW i \in 0 .. n
          PROVE  h[i] = IF i = 0 THEN <<>> ELSE Join(s[i], h[i - 1])
        <3>1. CASE i = 0
            BY <1>3, <3>1
        <3>2. CASE i # 0
            <4>1. i \in 1 .. n /\ i - 1 \in 0 .. n
                BY <1>1, <3>2
            <4>2. h[i] = first(i) /\ h[i - 1] = first(i - 1)
                BY <4>1
            <4> QED
                BY <1>4, <3>2, <4>1, <4>2
        <3> QED
            BY <3>1, <3>2
    <2>2. h = [i \in 0 .. n |-> h[i]]
        OBVIOUS
    <2> HIDE DEF h
    <2> QED
        BY <2>1, <2>2
<1>6. IsGroups(groups)
    <2> HIDE DEF h
    <2> QED
        BY <1>5 DEF groups
<1>7. \A i \in 0 .. n : groups[i] = IF i = 0 THEN <<>> ELSE Join(s[i], groups[i - 1])
    BY <1>6
<1> DEFINE same == {i \in 0 .. n : groups[i] = first(i)}
<1>8. 0 \in same
    BY <1>1, <1>3, <1>7
<1>9. ASSUME NEW i \in 0 .. n, i \in same, i < n
      PROVE  i + 1 \in same
    <2>1. i + 1 \in 1 .. n /\ i + 1 \in 0 .. n /\ (i + 1) - 1 = i /\ i + 1 # 0
        BY <1>1, <1>9
    <2>2. groups[i + 1] = Join(s[i + 1], groups[i])
        BY <1>7, <2>1
    <2>3. Join(s[i + 1], first(i)) = first(i + 1)
        <3> DEFINE m == i + 1
        <3>1. Join(s[m], first(m - 1)) = first(m)
            BY <1>4, <2>1
        <3> QED
            BY <2>1, <3>1
    <2> QED
        BY <1>9, <2>1, <2>2, <2>3
<1> HIDE DEF same
<1>10. 0 .. n \subseteq same
    <2>1. \A i \in 0 .. n : i \in same /\ i < n => i + 1 \in same
        BY <1>9
    <2> QED
        BY <1>1, <1>8, <2>1, UpTo
<1>11. n \in same
    BY <1>1, <1>10
<1> QED
    BY <1>1, <1>2, <1>11 DEF same, first

\* Node.get_causal_history returns a node's own events as they happened, and
\* Node.get_concurrent_events puts each into a group of its own.
THEOREM OwnHistory == Spec => []OwnHistoryIsAChain
<1>1. ASSUME IInv, NEW n \in nodes
      PROVE  LET own == node[n].events
             IN  /\ GetCausalHistory(own) = own
                 /\ GetConcurrentEvents(own) = [i \in DOMAIN own |-> {own[i]}]
    <2> DEFINE own == node[n].events
    <2>1. own \in Seq(Event) /\ n \in NodeId
        BY <1>1 DEF IInv, TypeOK, NodeRecord
    <2>2. \A i, j \in DOMAIN own :
              i < j => /\ ~IsConcurrentWith(own[j].vector_clock, own[i].vector_clock)
                       /\ SumFunction(own[i].vector_clock) < SumFunction(own[j].vector_clock)
        BY <1>1, OwnEventsGrow
    <2>3. ASSUME NEW i \in DOMAIN own
          PROVE  SumFunction(own[i].vector_clock) \in Nat
        <3> DEFINE c == own[i].vector_clock
        <3>1. own[i] \in Events
            BY <1>1 DEF Events
        <3>2. IsFiniteSet(DOMAIN c) /\ c \in [DOMAIN c -> Nat]
            BY <1>1, <3>1, EventsType DEF IInv, ClocksFinite, NatClock, ClocksOver
        <3> HIDE DEF c
        <3>3. PICK g : Adds(c, g)
            BY <3>2, SumOfParts
        <3>4. SumFunction(c) \in Nat
            BY <3>3 DEF Adds
        <3> QED
            BY <3>4 DEF c
    <2> HIDE DEF own
    <2>4. GetCausalHistory(own) = own
        BY <2>1, <2>2, <2>3, SortedAlready
    <2>5. GetConcurrentEvents(own) = [i \in DOMAIN own |-> {own[i]}]
        BY <2>1, <2>2, GroupsOfOne
    <2> QED
        BY <2>4, <2>5 DEF own
<1>2. IInv => OwnHistoryIsAChain
    BY <1>1 DEF OwnHistoryIsAChain
<1> QED
    BY <1>2, Invariance, PTL
=============================================================================

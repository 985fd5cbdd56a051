------------------------------- MODULE Server -------------------------------
(***************************************************************************)
(* clotho/server.py, class ClothoServer: the handlers of get, put and      *)
(* delete around a Node.  They are coroutines without an await, so each is *)
(* one step.  A client may send the clock of the last response it got back *)
(* as the context of a put, to this server or to another one, which is how *)
(* causality gets from one server to the next: servers send one another    *)
(* nothing (gossip is a placeholder), and no handler of Cluster listens.   *)
(*                                                                         *)
(* The nodes of one process are used either so or through node.Cluster;    *)
(* the queries and the properties of NodeCluster are about both.           *)
(***************************************************************************)
EXTENDS NodeCluster

CONSTANT Client

ASSUME ClientAssumption == "client" \notin NodeId

VARIABLES deployment,   \* "library" (node.Cluster) or "http" (ClothoServer)
          client        \* the clock each client got last; ghost: what it stands for

serverVars == <<vars, deployment, client>>

\* ClothoServer.__init__ for every server, or Cluster.__init__
ServerInit ==
    /\ deployment \in {"library", "http"}
    /\ partition = None
    /\ nodes = IF deployment = "http" THEN NodeId ELSE {}
    /\ node = [n \in NodeId |-> NewNode(n)]
    /\ allEvents = <<>>
    /\ occurred = [n \in NodeId |-> 0]
    /\ past = [n \in NodeId |-> {}]
    /\ pastOf = [id \in {} |-> {}]
    /\ client = [c \in Client |-> [clock |-> NoClock, past |-> {}]]

\* A handler turns node n into nd, whose last event is new, after the given
\* number of occurrences, and returns that event's clock to client c; known is
\* what of the past n learned from c.
Respond(c, n, nd, count, known) ==
    LET id == <<n, occurred[n] + count>>
        before == past[n] \cup known \cup {<<n, occurred[n] + i>> : i \in 1 .. count}
    IN  /\ node' = [node EXCEPT ![n] = nd]
        /\ occurred' = [occurred EXCEPT ![n] = @ + count]
        /\ past' = [past EXCEPT ![n] = before]
        /\ pastOf' = [x \in DOMAIN pastOf \cup {id} |-> IF x = id THEN before ELSE pastOf[x]]
        /\ client' = [client EXCEPT ![c] = [clock |-> nd.vector_clock, past |-> before]]
        /\ UNCHANGED <<nodes, allEvents, partition, deployment>>

\* put_key without a context, or with an empty one
PutKey(c, n, k, v) ==
    /\ occurred[n] < MaxOccurrences
    /\ Respond(c, n, WriteTo(node[n], n, NextOccurrence(n), k, v), 1, {})

\* put_key with a context: a message from "client", then the write
PutKeyWithContext(c, n, k, v) ==
    /\ client[c].clock # NoClock
    /\ occurred[n] + 1 < MaxOccurrences
    /\ Respond(c, n,
               WriteTo(ReceiveMessage(node[n], n, "client", client[c].clock),
                       n, <<n, occurred[n] + 2>>, k, v),
               2, client[c].past)

\* delete_key
DeleteKey(c, n, k) ==
    /\ occurred[n] < MaxOccurrences
    /\ Respond(c, n, DeleteFrom(node[n], n, NextOccurrence(n), k), 1, {})

\* get_key: the clock of the version found, a deleted one too, else the node's
GetKey(c, n, k) ==
    /\ client' = [client EXCEPT ![c] =
           IF k \in DOMAIN node[n].data
           THEN LET e == CHOOSE e \in {node[n].events[i] : i \in DOMAIN node[n].events} :
                             e.vector_clock = node[n].data[k][2]
                IN  [clock |-> e.vector_clock, past |-> pastOf[e.event_id]]
           ELSE [clock |-> node[n].vector_clock, past |-> past[n]]]
    /\ UNCHANGED <<vars, deployment>>

Handle(c, n) ==
    \/ \E k \in Key, v \in Value : PutKey(c, n, k, v) \/ PutKeyWithContext(c, n, k, v)
    \/ \E k \in Key : DeleteKey(c, n, k) \/ GetKey(c, n, k)

ServerNext ==
    \/ deployment = "library" /\ Next /\ UNCHANGED <<deployment, client>>
    \/ deployment = "http" /\ \E c \in Client, n \in NodeId : Handle(c, n)

ServerSpec == ServerInit /\ [][ServerNext]_serverVars
=============================================================================

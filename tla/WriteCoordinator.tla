-------------------------- MODULE WriteCoordinator --------------------------
(***************************************************************************)
(* clotho/write_coordinator.py: concurrent calls of WriteCoordinator.write *)
(* with one task per replica, the five second timeout, cancellation, hints *)
(* for the replicas missed (HintedHandoff), and DistributedWriteClient.get.*)
(*                                                                         *)
(* Routes are the replica lists that HashRing computes; servers may be     *)
(* added and removed between calls, so each call finds any of them.  A task*)
(* ends as ResilientOperation.execute does, with the write in the node's   *)
(* StorageEngine or with an exception; store is what the running engines'  *)
(* read() returns (restarts are StorageEngine's subject).                  *)
(* A version is named after the write that made it, and call[w] knows its  *)
(* clock.  Each member of Write is one call of write(), and KeyOf its key. *)
(***************************************************************************)
EXTENDS HintedHandoff, VectorClock, SequencesExt

CONSTANTS KeyOf,         \* the key each write is about
          N, W,          \* replication factor and write quorum
          Routes,        \* the routing tables that can be in force
          None

ASSUME FiniteAssumption == IsFiniteSet(Write) /\ IsFiniteSet(NodeId)
ASSUME KeyOfAssumption == KeyOf \in [Write -> Key]
ASSUME QuorumAssumption == N \in Nat \ {0} /\ W \in Nat \ {0}
ASSUME RoutesAssumption ==
    /\ Routes \subseteq [Key -> Seq(NodeId)]
    /\ \A r \in Routes, k \in Key : \A i, j \in DOMAIN r[k] : r[k][i] = r[k][j] => i = j
ASSUME NoneAssumption == None \notin Write

VARIABLES store,      \* node -> key -> the write whose version read() returns
          context,    \* the clock a caller got from get() and passes to write()
          call,       \* each write(): its phase, replica list, clock and tasks
          result,     \* WriteResult: success, replicas_written, replicas_failed, hints_stored
          stats,      \* writes_total, writes_successful, writes_failed, hints_total
          basis       \* ghost: the write whose version get() returned

coordinatorVars == <<store, context, call, result, stats, basis>>
vars == <<handoffVars, coordinatorVars>>

Coordinator == "coordinator"
Clock == ClocksOver(NodeId \cup {Coordinator}, 0 .. Cardinality(Write))
TaskState == {"none", "running", "ok", "failed", "cancelled"}

TypeOK ==
    /\ HandoffTypeOK
    /\ store \in [NodeId -> [Key -> Write \cup {None}]]
    /\ context \in [Write -> Clock]
    /\ call \in [Write -> [phase : {"ready", "waiting", "done"}, clock : Clock,
                           task : [NodeId -> TaskState]]]
    /\ result \in [Write -> {None} \cup
                     [success : BOOLEAN, written : Nat, failed : Nat, hints : Nat]]
    /\ stats \in [total : Nat, successful : Nat, failed : Nat, hints : Nat]

Init ==
    /\ HandoffInit
    /\ store = [n \in NodeId |-> [k \in Key |-> None]]
    /\ context = [w \in Write |-> NoClock]
    /\ call = [w \in Write |-> [phase |-> "ready", clock |-> NoClock,
                                task |-> [n \in NodeId |-> "none"]]]
    /\ result = [w \in Write |-> None]
    /\ stats = [total |-> 0, successful |-> 0, failed |-> 0, hints |-> 0]
    /\ basis = [w \in Write |-> None]
-----------------------------------------------------------------------------
\* The nodes a task of write w was created for, and those in a given state.
Tasks(w, states) == {n \in NodeId : call[w].task[n] \in states}
Contacted(w) == Tasks(w, TaskState \ {"none"})

\* DistributedWriteClient.get by the caller of w: what the primary answers,
\* nothing if there is no primary or no version.
Get(w, replicas) ==
    LET version == store[replicas[1]][KeyOf[w]]
    IN  /\ call[w].phase = "ready"
        /\ replicas # << >>
        /\ version # None
        /\ basis' = [basis EXCEPT ![w] = version]
        /\ context' = [context EXCEPT ![w] = call[version].clock]
        /\ UNCHANGED <<handoffVars, store, call, result, stats>>

\* Mistake: the context is not carried over.
ClockWithoutContext(w, replicas) == Increment(New(replicas[1]), replicas[1])

\* The clock of a write: one more than the context, or the first of a new clock.
ClockOfWrite(w, replicas) ==
    IF context[w] # NoClock
    THEN Increment(context[w], Coordinator)
    ELSE Increment(New(replicas[1]), replicas[1])

\* write() finds fewer replicas than the quorum needs, and counts it in no outcome.
Reject(w, replicas) ==
    /\ call[w].phase = "ready"
    /\ Len(replicas) < W
    /\ call' = [call EXCEPT ![w].phase = "done"]
    /\ stats' = [stats EXCEPT !.total = @ + 1]
    /\ result' = [result EXCEPT ![w] = [success |-> FALSE, written |-> 0, failed |-> 0, hints |-> 0]]
    /\ UNCHANGED <<handoffVars, store, context, basis>>

\* write() up to asyncio.wait: a task for each of the first N replicas.
Start(w, replicas) ==
    LET sent == {replicas[i] : i \in {j \in DOMAIN replicas : j <= N}}
    IN  /\ call[w].phase = "ready"
        /\ Len(replicas) >= W
        /\ call' = [call EXCEPT ![w] =
                      [phase |-> "waiting", clock |-> ClockOfWrite(w, replicas),
                       task |-> [n \in NodeId |-> IF n \in sent THEN "running" ELSE "none"]]]
        /\ stats' = [stats EXCEPT !.total = @ + 1]
        /\ UNCHANGED <<handoffVars, store, context, result, basis>>

\* The task for node n has written to its engine.
ReplicaWrites(w, n) ==
    /\ call[w].task[n] = "running"
    /\ store' = [store EXCEPT ![n][KeyOf[w]] = w]
    /\ call' = [call EXCEPT ![w].task[n] = "ok"]
    /\ UNCHANGED <<handoffVars, context, result, stats, basis>>

\* The task for node n ends with an exception: its circuit is open, it has no
\* engine, the engine raised, or the retries are used up.
ReplicaFails(w, n) ==
    /\ call[w].task[n] = "running"
    /\ call' = [call EXCEPT ![w].task[n] = "failed"]
    /\ UNCHANGED <<handoffVars, store, context, result, stats, basis>>

\* Mistake: pending tasks are left running.
TasksLeftAlone(w) == call[w].task

\* The pending tasks are cancelled.
TasksCancelled(w) ==
    [n \in NodeId |-> IF call[w].task[n] = "running" THEN "cancelled" ELSE call[w].task[n]]

\* Mistake: the timeout is missing.
EveryTaskEnded(w) == Tasks(w, {"running"}) = {}

\* asyncio.wait returns: when every task has ended, or at any time by its timeout.
WaitOver(w) == TRUE

\* write() after asyncio.wait: cancel, count, store hints and report.
Finish(w) ==
    /\ call[w].phase = "waiting"
    /\ WaitOver(w)
    /\ AtAwait
    /\ LET ok == Tasks(w, {"ok"})
           missed == Contacted(w) \ ok
           success == Cardinality(ok) >= W
       IN  /\ call' = [call EXCEPT ![w] = [phase |-> "done", clock |-> @.clock,
                                            task |-> TasksCancelled(w)]]
           /\ StoreHints(missed, KeyOf[w], w)
           /\ result' = [result EXCEPT ![w] =
                           [success |-> success, written |-> Cardinality(ok),
                            failed |-> Cardinality(Tasks(w, {"failed"})),
                            hints |-> Cardinality(missed)]]
           /\ stats' = [total      |-> stats.total,
                        successful |-> stats.successful + (IF success THEN 1 ELSE 0),
                        failed     |-> stats.failed + (IF success THEN 0 ELSE 1),
                        hints      |-> stats.hints + Cardinality(missed)]
    /\ UNCHANGED <<running, forward, now, stops, left, store, context, basis>>

Next ==
    \/ HandoffNext /\ UNCHANGED coordinatorVars
    \/ \E w \in Write :
        \/ \E r \in Routes : LET replicas == r[KeyOf[w]]
                             IN  Get(w, replicas) \/ Reject(w, replicas) \/ Start(w, replicas)
        \/ Finish(w)
        \/ \E n \in NodeId : ReplicaWrites(w, n) \/ ReplicaFails(w, n)

Spec == Init /\ [][Next]_vars

\* The event loop runs a task that can go on; asyncio.wait has a timeout.
FairSpec ==
    /\ Spec
    /\ WF_vars(ForwardLoop /\ UNCHANGED coordinatorVars)
    /\ \A w \in Write : WF_vars(Finish(w))
-----------------------------------------------------------------------------
\* What write() reported stays true: the counted replicas are exactly those that
\* have the write, no task that was given up on writes later, success means a
\* quorum, and the counters add up, rejected calls being in none but the total.
ReportsAreTruthful ==
    LET done == {w \in Write : call[w].phase = "done"}
    IN  /\ \A w \in done : Contacted(w) # {} =>
              /\ result[w].written = Cardinality(Tasks(w, {"ok"}))
              /\ result[w].hints = Cardinality(Contacted(w)) - result[w].written
              /\ result[w].success <=> Cardinality(Tasks(w, {"ok"})) >= W
        /\ stats.successful = Cardinality({w \in done : result[w].success})
        /\ stats.failed = Cardinality({w \in done : ~result[w].success /\ Contacted(w) # {}})
        /\ stats.total = Cardinality({w \in Write : call[w].phase # "ready"})

\* A replica that missed a write has the write's hint in its list until the hint is
\* sent, expires or was tried MaxRetries times, or until remove_hint drops it with
\* one of those that has its key and its time: through restarts of the forwarding
\* loop, and through hints stored while it walks.  No hint stays that has left, and
\* a replica that has the write gets none.
HintsStandForMisses ==
    \A w \in Write, n \in NodeId :
        LET pending == \E h \in ToSet(hints[n]) : h.write = w
            gone == \E l \in left : l.node = n /\ l.write = w
            missed == call[w].phase = "done" /\ n \in Contacted(w) /\ call[w].task[n] # "ok"
        IN  /\ missed <=> pending \/ gone
            /\ ~(pending /\ gone)

\* A write based on a version that was read has a clock after that version's, and
\* so after everything that one was based on in its turn.
BasedWritesComeAfter ==
    \A w \in Write : (call[w].phase # "ready" /\ basis[w] # None /\ Contacted(w) # {}) =>
        HappensBefore(call[basis[w]].clock, call[w].clock)

\* If the loop stays on, every hint leaves: the retry limit bounds the work for a
\* node that never answers, and a walk never starves another target.
HintsDrain ==
    <>[]running => \A n \in NodeId, w \in Write :
        (\E h \in ToSet(hints[n]) : h.write = w) ~> (\A h \in ToSet(hints[n]) : h.write # w)

\* write() returns although a replica may never answer.
EveryWriteReturns == \A w \in Write : call[w].phase = "waiting" ~> call[w].phase = "done"

\* ARCHITECTURE.md:496: "Two clients write same key | Vector clocks detect
\* conflict": replicas that hold versions of different writes can tell which is
\* newer, or that they conflict, from the clocks.
ConflictsAreDetected ==
    \A n, m \in NodeId, k \in Key :
        (store[n][k] # None /\ store[m][k] # None /\ store[n][k] # store[m][k]) =>
            ~IsEqual(call[store[n][k]].clock, call[store[m][k]].clock)
=============================================================================

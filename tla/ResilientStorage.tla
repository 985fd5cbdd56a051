-------------------------- MODULE ResilientStorage --------------------------
(***************************************************************************)
(* clotho/resilience.py: ResilientStorage.write and read with the          *)
(* ReadRepairHandler, for one key, run by several coordinators at once.    *)
(*                                                                         *)
(* A write goes to its nodes one after the other, each through             *)
(* ResilientOperation.execute without a breaker (ResilientStorage passes   *)
(* it the circuit_manager argument, None by default), so an attempt may be *)
(* made again after it took effect.  A read asks its nodes all at once,    *)
(* and a repair is a background task that writes to all nodes at once.     *)
(*                                                                         *)
(* _read_from_node and _write_to_node are stubs; here a node holds the     *)
(* version it was last sent, as the storage engine would.  What happens to *)
(* the hints is in HintedHandoff.  A version's value is the set of writes  *)
(* that are its siblings, and seen is a ghost: every write whose value it, *)
(* or a version it was based on, has held.                                 *)
(***************************************************************************)
EXTENDS QuorumManager, ClockPruner

CONSTANTS Coordinator,   \* the node_ids of the ResilientStorage instances
          Preferences,   \* the preference lists the key may have
          ClockSizes,    \* the values MAX_CLOCK_SIZE may have
          MaxWrites,     \* bound: writes
          MaxReads,      \* bound: reads
          MaxFailures    \* bound: calls of a node that fail

ASSUME CoordinatorAssumption == IsFiniteSet(Coordinator)
ASSUME PreferencesAssumption ==
    \A p \in Preferences : p \in Seq(Server) /\ p # <<>> /\ \A i, j \in DOMAIN p : p[i] = p[j] => i = j
ASSUME SizesAssumption == ClockSizes \subseteq Nat \ {0}
ASSUME BoundAssumption == MaxWrites \in Nat /\ MaxReads \in Nat /\ MaxFailures \in Nat

Write == 1 .. MaxWrites

Version == [value : SUBSET Write, clock : ClocksOver(Coordinator, 0 .. MaxWrites), seen : SUBSET Write]

\* What a node without the key holds, and the context of a client without one
NoVersion == [value |-> {}, clock |-> NoClock, seen |-> {}]

VARIABLES preference,   \* Router.get_replica_nodes(key)
          maxClockSize, \* VectorClockPruner.MAX_CLOCK_SIZE
          store,        \* the version each server holds
          op,           \* what each coordinator is doing
          context,      \* the version its client got last
          repairs,      \* the repair task of each read: its version, the nodes left
          hints,        \* the servers some hint is stored for
          writes, reads, failures,
          made,         \* ghost: the version each write made, and by whom
          pruned,       \* ghost: writes whose clock was pruned
          acked,        \* ghost: writes reported as successful
          intact        \* ghost: writes no version without them was stored after

bounds == <<writes, reads, failures>>
setting == <<preference, maxClockSize>>
vars == <<setting, store, op, context, repairs, hints, bounds, made, pruned, acked, intact>>

Idle == [pc |-> "idle"]

\* A write that has todo to go, and a read that waits for left
Sending(write, version, todo, stored, failed) ==
    [pc |-> "writing", write |-> write, version |-> version,
     todo |-> todo, stored |-> stored, failed |-> failed]
Asking(read, left, got) == [pc |-> "reading", read |-> read, left |-> left, got |-> got]

Writing == [pc : {"writing"}, write : Write, version : Version,
            todo : Seq(Server), stored : SUBSET Server, failed : SUBSET Server]

Reading == [pc : {"reading"}, read : 1 .. MaxReads, left : SUBSET Server, got : [Server -> Version]]

TypeOK ==
    /\ preference \in Preferences /\ maxClockSize \in ClockSizes
    /\ store \in [Server -> Version]
    /\ op \in [Coordinator -> {Idle} \cup Writing \cup Reading]
    /\ \A c \in Coordinator : op[c].pc = "writing" =>
           Members(op[c].todo) \cap (op[c].stored \cup op[c].failed) = {}
    /\ context \in [Coordinator -> Version]
    /\ repairs \in [1 .. MaxReads -> [version : Version, left : SUBSET Server]]
    /\ hints \subseteq Server
    /\ writes \in 0 .. MaxWrites /\ reads \in 0 .. MaxReads /\ failures \in 0 .. MaxFailures
    /\ made \in Seq([version : Version, by : Coordinator]) /\ Len(made) = writes
    /\ pruned \subseteq Write /\ acked \subseteq Write /\ intact \subseteq Write

Init ==
    /\ preference \in Preferences /\ maxClockSize \in ClockSizes
    /\ store = [s \in Server |-> NoVersion]
    /\ op = [c \in Coordinator |-> Idle]
    /\ context = [c \in Coordinator |-> NoVersion]
    /\ repairs = [i \in 1 .. MaxReads |-> [version |-> NoVersion, left |-> {}]]
    /\ hints = {}
    /\ writes = 0 /\ reads = 0 /\ failures = 0
    /\ made = <<>> /\ pruned = {} /\ acked = {} /\ intact = {}
-----------------------------------------------------------------------------
\* _get_available_nodes
AvailableNodes == Server

\* Mistake: a write with a context takes over its clock.
ClockOfContext(c, ctx) ==
    IF ctx.clock # NoClock THEN ctx.clock ELSE Increment(New(c), c)

\* The clock of a write by c, before pruning
WriteClock(c, ctx) ==
    IF ctx.clock # NoClock THEN Increment(ctx.clock, c) ELSE Increment(New(c), c)

\* Server s takes version v.
Store(s, v) ==
    /\ store' = [store EXCEPT ![s] = v]
    /\ intact' = intact \cap v.seen

\* A call of s with v fails; it may have taken effect all the same.
StoreFails(s, v) ==
    /\ failures < MaxFailures /\ failures' = failures + 1
    /\ Store(s, v) \/ UNCHANGED <<store, intact>>

\* write up to the call of the first node; too few nodes are an error.
WriteBegin(c, ctx) ==
    /\ op[c] = Idle /\ writes < MaxWrites
    /\ Len(GetWriteNodes(preference, AvailableNodes)) >= W
    /\ writes' = writes + 1
    /\ \E clock \in Prune(WriteClock(c, ctx), maxClockSize) :
           LET v == [value |-> {writes + 1}, clock |-> clock, seen |-> ctx.seen \cup {writes + 1}]
           IN  /\ op' = [op EXCEPT ![c] = Sending(writes + 1, v, GetWriteNodes(preference, AvailableNodes),
                                                   {}, {})]
               /\ made' = Append(made, [version |-> v, by |-> c])
    /\ pruned' = IF ShouldPrune(WriteClock(c, ctx), maxClockSize) THEN pruned \cup {writes + 1} ELSE pruned
    /\ intact' = intact \cup {writes + 1}
    /\ UNCHANGED <<setting, store, context, repairs, hints, reads, failures, acked>>

\* An attempt at a node fails, with or without effect, and will be made again.
WriteRetry(c) ==
    /\ op[c].pc = "writing"
    /\ StoreFails(Head(op[c].todo), op[c].version)
    /\ UNCHANGED <<setting, op, context, repairs, hints, writes, reads, made, pruned, acked>>

\* Mistake: a node that was written to stays on the list.
WriteAdvanceInPlace(c, stored, failed) ==
    /\ op' = [op EXCEPT ![c].stored = stored, ![c].failed = failed]
    /\ UNCHANGED <<context, hints, acked>>

\* The loop of write goes on to the next node or ends: hints for the nodes that
\* failed, and success if there were W.
WriteAdvance(c, stored, failed) ==
    IF Tail(op[c].todo) # <<>>
    THEN /\ op' = [op EXCEPT ![c] = Sending(@.write, @.version, Tail(@.todo), stored, failed)]
         /\ UNCHANGED <<context, hints, acked>>
    ELSE /\ op' = [op EXCEPT ![c] = Idle]
         /\ hints' = hints \cup failed
         /\ IF Cardinality(stored) >= W
            THEN /\ context' = [context EXCEPT ![c] = op[c].version]
                 /\ acked' = acked \cup {op[c].write}
            ELSE UNCHANGED <<context, acked>>

\* The last attempt at a node fails, with or without effect.
WriteGivesUp(c) ==
    /\ op[c].pc = "writing"
    /\ StoreFails(Head(op[c].todo), op[c].version)
    /\ WriteAdvance(c, op[c].stored, op[c].failed \cup {Head(op[c].todo)})
    /\ UNCHANGED <<setting, repairs, writes, reads, made, pruned>>

\* A node takes the write.
WriteSucceeds(c) ==
    /\ op[c].pc = "writing"
    /\ Store(Head(op[c].todo), op[c].version)
    /\ WriteAdvance(c, op[c].stored \cup {Head(op[c].todo)}, op[c].failed)
    /\ UNCHANGED <<setting, repairs, bounds, made, pruned>>
-----------------------------------------------------------------------------
ReadNodes == Prefix(preference, R)

\* read_with_repair up to the gather
ReadBegin(c) ==
    /\ op[c] = Idle /\ reads < MaxReads
    /\ reads' = reads + 1
    /\ op' = [op EXCEPT ![c] = Asking(reads + 1, Members(ReadNodes), [s \in Server |-> NoVersion])]
    /\ UNCHANGED <<setting, store, context, repairs, hints, writes, failures, made, pruned, acked, intact>>

\* One of the nodes answers; an error or a time-out counts as not found.
ReadAnswer(c, s) ==
    /\ op[c].pc = "reading" /\ s \in op[c].left
    /\ \/ /\ op' = [op EXCEPT ![c] = Asking(@.read, @.left \ {s}, [@.got EXCEPT ![s] = store[s]])]
          /\ UNCHANGED failures
       \/ /\ failures < MaxFailures /\ failures' = failures + 1
          /\ op' = [op EXCEPT ![c] = Asking(@.read, @.left \ {s}, @.got)]
    /\ UNCHANGED <<setting, store, context, repairs, hints, writes, reads, made, pruned,
                   acked, intact>>

\* successful_reads: the versions found, by the place of their node in ReadNodes
Successful(got) ==
    [i \in {j \in DOMAIN ReadNodes : got[ReadNodes[j]] # NoVersion} |-> got[ReadNodes[i]]]

\* Mistake: only a version that is newer than an earlier one is a conflict.
ConflictIfNewer(vs) ==
    \E i, j \in DOMAIN vs : i < j /\ HappensBefore(vs[i].clock, vs[j].clock)

\* _check_for_conflicts
CheckForConflicts(vs) ==
    \E i, j \in DOMAIN vs : i < j /\ IsConcurrentWith(vs[i].clock, vs[j].clock)

\* _reconcile_versions: every clock merged, every value kept
ReconcileVersions(vs) ==
    [value |-> UNION {vs[i].value : i \in DOMAIN vs},
     clock |-> [n \in UNION {DOMAIN vs[i].clock : i \in DOMAIN vs} |->
                   CHOOSE t \in {At(vs[i].clock, n) : i \in DOMAIN vs} :
                       \A i \in DOMAIN vs : At(vs[i].clock, n) <= t],
     seen  |-> UNION {vs[i].seen : i \in DOMAIN vs}]

\* What read_with_repair returns for the versions it was given
ReadResult(vs) ==
    IF DOMAIN vs = {} THEN NoVersion
    ELSE IF CheckForConflicts(vs) THEN ReconcileVersions(vs)
    ELSE vs[CHOOSE i \in DOMAIN vs : \A j \in DOMAIN vs : i <= j]

\* read_with_repair after the gather: a conflict starts a repair of all replicas.
ReadEnd(c) ==
    /\ op[c].pc = "reading" /\ op[c].left = {}
    /\ op' = [op EXCEPT ![c] = Idle]
    /\ LET vs == Successful(op[c].got)
       IN  /\ context' = IF DOMAIN vs = {} THEN context ELSE [context EXCEPT ![c] = ReadResult(vs)]
           /\ repairs' = IF CheckForConflicts(vs)
                         THEN [repairs EXCEPT ![op[c].read] =
                                  [version |-> ReconcileVersions(vs), left |-> Members(preference)]]
                         ELSE repairs
    /\ UNCHANGED <<setting, store, hints, bounds, made, pruned, acked, intact>>

\* _write_repaired_value: one of its calls ends, whatever became of it.
RepairWrite(i, s) ==
    /\ s \in repairs[i].left
    /\ repairs' = [repairs EXCEPT ![i].left = @ \ {s}]
    /\ \/ Store(s, repairs[i].version) /\ UNCHANGED failures
       \/ StoreFails(s, repairs[i].version)
    /\ UNCHANGED <<setting, op, context, hints, writes, reads, made, pruned, acked>>

WriteStep(c) ==
    \/ \E ctx \in {NoVersion, context[c]} : WriteBegin(c, ctx)
    \/ WriteRetry(c) \/ WriteGivesUp(c) \/ WriteSucceeds(c)

ReadStep(c) ==
    \/ ReadBegin(c)
    \/ \E s \in Server : ReadAnswer(c, s)
    \/ ReadEnd(c)

Next ==
    \/ \E c \in Coordinator : WriteStep(c) \/ ReadStep(c)
    \/ \E i \in 1 .. MaxReads, s \in Server : RepairWrite(i, s)

Spec == Init /\ [][Next]_vars
-----------------------------------------------------------------------------
\* A write whose clock says less than it should: its coordinator made another
\* write of which neither knows (its counter was used twice), or it was pruned.
Ambiguous(w) ==
    \/ w \in pruned
    \/ \E x \in DOMAIN made \ {w} :
           /\ made[x].by = made[w].by
           /\ x \notin made[w].version.seen /\ w \notin made[x].version.seen

\* A stored clock covers only writes its version really comes after, through any
\* chain of contexts, reads and repairs.  Otherwise an unrelated write would
\* count as overwritten.
ClocksOnlyClaimSeen ==
    \A s \in Server, w \in DOMAIN made :
        Dominates(store[s].clock, made[w].version.clock) => w \in store[s].seen \/ Ambiguous(w)

\* A read that is given two versions of which neither knows the other's values
\* returns the values of both.
ConflictsAreReturned ==
    \A c \in Coordinator : op[c].pc = "reading" =>
        LET vs == Successful(op[c].got)
        IN  \A i, j \in DOMAIN vs : \A w \in vs[i].value, x \in vs[j].value :
                w \notin vs[j].seen /\ x \notin vs[i].seen =>
                    {w, x} \subseteq ReadResult(vs).value \/ Ambiguous(w) \/ Ambiguous(x)

\* A write that was reported as successful is held by one of the nodes a read
\* asks, with a sloppy quorum too, unless a version made without it was stored
\* since.
AcknowledgedIsReadable ==
    W + R > N =>
        \A w \in acked \cap intact : \E s \in Members(ReadNodes) : w \in store[s].seen
=============================================================================

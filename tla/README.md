# ClothoDB in TLA+

This directory models the distributed-systems core of ClothoDB
(`src/clotho/`): vector clocks, the nodes and HTTP servers that exchange them, the
consistent-hash ring, the memtable/SSTable storage engine and its write-ahead
log, the circuit breaker with its retries, hinted handoff, the coordinator that
writes to several replicas, and the sloppy quorums, clock pruning and read repair
of `ResilientStorage`. The modules are checked with TLC on small instances and,
the HTTP servers apart, their safety properties are proved for all parameters with
TLAPS. `PROJECT.json` maps every definition to the lines it translates.

Everything runs in one Python process on one asyncio event loop. A TLA+ step is
therefore *what a task does between two awaits*; a method that never awaits is
one step. The only threads are the executor jobs that write files, which the
storage model interleaves with everything else.

## 1. Inventory

| Component (source) | State | Operations | What makes it correct |
|---|---|---|---|
| Vector clock (`vector_clock.py`) | an immutable dict id -> counter | `increment`, `merge`, `compare` and the predicates over it | merge is a least upper bound, happens-before a strict order, an increment comes after |
| Node, Cluster (`node.py`) | clock, events, data, known nodes; nodes, the global event list, the recorded partition | `write`, `delete`, `send_message`/`receive_message`, `is_causally_ready`, `add_node`, `partition`, `heal_partition`, the order and conflict queries | clocks say exactly which event influenced which; queries built on them agree with that |
| Circuit breaker, retries (`resilience.py`) | breaker state and four counters per node; the retry loop of each caller | `call`, `_on_success`, `_on_failure`, `execute` | probes are limited, a healthy node is not locked out, every execution ends |
| Storage engine (`storage.py`) | memtable, SSTables, flush lock, flush tasks | `write`, `delete`, `read`, `_flush_memtable`, `start`, `stop` | reads see the last completed call, recovery follows the log, flushes and stops end |
| Write-ahead log (`storage.py`) | the current file and its size, `_pending_fsync`, the files of earlier ones | `append`, `_rotate`, `fsync`, the group commit task, `start`, `stop`, recovery | an append that returned reaches the disk, recovery reads entries in the order of their appends, files stay bounded, the log stays usable |
| Hash ring, router (`consistent_hash.py`) | dict and sorted list of positions, members | `add_node`, `remove_node`, `get_node`, `get_nodes` | the two structures agree, placement depends on membership only, replicas are distinct, a change moves no other node's keys |
| Hinted handoff (`resilience.py`) | lists of hints per node, the background task | `store_hint`, `_forward_loop`, `cleanup_expired_hints`, `start`, `stop` | a missed write is not forgotten silently, the lists drain |
| Write coordinator (`write_coordinator.py`) | statistics; per call the replica tasks | `write`, `get`, `put` | reports are true, clocks follow what was read, writes return |
| Quorum manager, clock pruner, `ResilientStorage`, read repair (`resilience.py`) | nothing of its own; the versions the nodes hold, repair tasks | node selection, `prune`, `write`, `read`, `read_with_repair`, `_write_repaired_value` | a clock never claims a write its version does not come after, a read drops no concurrent value, an acknowledged write is where reads look |
| HTTP servers (`server.py`) | a Node per server | `put_key`, `get_key`, `delete_key` | contexts carry causality from server to server exactly |
| Visualization, demos, tests | none of their own | formatting, scripts | not modelled: they change no state; tests and docs were read for what they expect |

How they interact: the coordinator asks the router for the replica list of a
key, starts one task per replica, each task runs `ResilientOperation.execute`,
which passes every attempt through that node's `CircuitBreaker.call` around the
write to that node's `StorageEngine`. After `asyncio.wait` (five seconds) it
*cancels* the tasks that are late and stores a hint for each replica missed. The
hint manager's loop runs beside it and shares the hint lists. A node's handler
calls the cluster's handler synchronously, so `Cluster._all_events` is filled in
real time. `ResilientStorage` does what the coordinator does with other means: it
asks the quorum manager for nodes, prunes the clock, writes to one node after the
other through `ResilientOperation`, and its reads may start a repair task that
goes on after them. The storage engine appends to the log before it touches the
memtable. HTTP servers send one another nothing: their clients' contexts are the
only way a clock gets from one to the next.

What is hard here, and guides the properties (the full list with lines is
`hazards` in `PROJECT.json`): a put during a flush; a crash before the group
commit, during a table file, or during recovery; a task cancelled inside the
breaker; results of calls admitted in an earlier breaker period; a hint stored
while the list is walked, and a walk cancelled half way; clocks relayed in any
order; a join or leave moving replicas of other nodes; an append that returns
while a flush is awaited; two rotations at once; a counter that starts again
because its component was pruned; a repair that overwrites a later write.

## 2. Modules

| Module | Models | Remarks |
|---|---|---|
| `VectorClock` | `VectorClock` | a clock is a function on the ids it mentions; a missing id counts 0 |
| `Node` | class `Node` | each method an operator from the node's record before to after |
| `NodeCluster` | class `Cluster` over `Node` | ghosts `occurred`, `past`, `pastOf` hold the true causal relation, independent of clocks |
| `CircuitBreaker` | class `CircuitBreaker` | each critical section under the lock is an operator on the breaker's record |
| `ResilientOperation` | `execute`, run by several callers over one breaker | `Cancel` is `task.cancel()`; ghosts `probes`, `recovered`, `lost` |
| `KeyValueStore` | nothing: the abstract specification of the storage engine | a map from keys to versions, the calls pending on it, and the keys a crash may lose; only the end of a key's own call changes what the key maps to |
| `StorageEngine` | `StorageEngine`, `Memtable`, `SSTable`, the log as the engine sees it | `Call`/`WalWrite`/`ApplyWrite` are the three parts of `write()`, `Cancel`/`AbandonedWrite` what its cancellation leaves of them; `FlushBegin`/`FlushEnd` surround the awaited table file; `Crash`, `StopBegin`/`StopEnd`, `StartBegin`/`ReplayEntry`/`StartEnd`; ghosts `latest`, `clean`, `orderly` |
| `WriteAheadLog` | class `WriteAheadLog` | a step is what a task does between two awaits, or what the thread of an aiofiles call does; `files` are the objects opened, `at` the one each task holds; `Crash`, `Restart`; ghosts `earlier`, `returned`, `overtaken`, `rushed`, `wounded`, `ending` |
| `HashRing` | `ConsistentHashRing`, `Router` | one step per loop iteration; queries are operators |
| `HintedHandoff` | `HintedHandoffManager` | `forward` is the position of the background task; ghost `left`: the hints that went, and why |
| `WriteCoordinator` | `WriteCoordinator.write`, `DistributedWriteClient.get` | extends `HintedHandoff` and `VectorClock`, composes with the hint manager; replica lists come from `HashRing` (any of `Routes`), a replica task ends as `ResilientOperation` lets it end; ghost `basis` |
| `Sublist` | Python's `[x for x in s if ...]` | the kept positions in their order, each found by its rank: a definition that proofs can use where `SelectSeq` is recursive |
| `QuorumManager` | `QuorumManager` | node selection as operators on lists |
| `ClockPruner` | `VectorClockPruner` | `Prune` gives every clock the dictionary's order may leave |
| `ResilientStorage` | `ResilientStorage.write` and `read`, `ReadRepairHandler` | extends the two above; a write is a loop over its nodes, a read a set of answers awaited, a repair a set of calls under way; ghosts `made`, `pruned`, `acked`, `intact`, and `seen` in each version |
| `Server` | `ClothoServer` | extends `NodeCluster`: a behaviour is either the library's cluster or servers with clients, on the same nodes and under the same properties |
| `DataProofs`, `NodeClusterProofs`, `ResilientOperationProofs`, `StorageEngineProofs`, `WriteAheadLogProofs`, `HashRingProofs`, `WriteCoordinatorProofs`, `ResilientStorageProofs` | theorems | section 6 |
| `MC...` | instances for TLC | |

Operators under a comment that begins with "Mistake:" are wrong on purpose. Each
is the definition that follows it with a plausible bug (a dropped guard, an
off-by-one, a missing reset). No specification uses them: put in the place of
the definition they spoil, they make TLC violate the property `PROJECT.json`
pairs them with, which shows that the property depends on the code.

## 3. Abstractions and assumptions

* Values, keys and versions are model values or numbers; event ids are pairs
  instead of uuids; formatting, logging and statistics nobody reads are left out.
* Time: the breaker keeps whether `recovery_timeout` has gone by since the last
  failure; hint ages are counted in periods; back-offs and the five-second
  timeout may be over at any moment.
* Crash is the end of the *process*: what was handed to the operating system
  stays, any prefix of the rest of the buffered log may. A torn last record is
  dropped by recovery, as the code does.
* Every table file gets its own name (the code names them by the millisecond). The
  log's files get theirs from a clock that need not advance, so two can share one.
* Nobody cancels a call of `WriteCoordinator.write` itself: nothing in the repository
  does, and the demos await it. A caller that did, at `asyncio.wait`, would leave the
  replica tasks running and no hints.
* `add_node` of the cluster is called once per id, `start()` and `stop()` are
  awaited by their caller, `stop()` is called once the clients are done.
* In `StorageEngine` the log's files are one sequence; their rotation, the group
  commit and their durability are `WriteAheadLog`. Nothing in the code trims the log.
* Log entries have the same size and are named by the order of their calls. When
  CPython drops the last reference to a file object it is flushed and closed. Two
  objects over one path overwrite each other: what such a file holds counts as lost.
* `ResilientStorage` is one key. `_write_to_node` and `_read_from_node` are stubs: a
  node holds the version it was last sent. A failed call may have taken effect. The
  quorum manager is called with every server available, as `ResilientStorage` calls it;
  a preference list shorter than the quorum makes the quorum sloppy. `execute` is
  retries without a breaker, which is how `ResilientStorage` is constructed.
* A server's handlers never await, so each is one step; `/cluster` endpoints and the
  routing queries read only.
* `_send_hint_to_node` is a stub that answers `True`. `SendResults` says what a
  real transport may answer; the runs allow both answers.
* In `WriteCoordinator` a replica is what its running engine reads. A cancelled
  replica task may still have its entry in that engine's log (`AbandonedWrite` in
  `StorageEngine`), so it can take effect when the engine is restarted; restarts
  are left to `StorageEngine`.
* MD5 is an arbitrary function fixed for a behaviour.

## 4. Runs

| Run | Instance | Distinct states | Shows |
|---|---|---|---|
| `cluster` | 3 nodes, 1 key, 2 occurrences per node, or 2 clients | 324 579 | clocks tell causality exactly, by messages and by contexts; global order, conflicts, the log and a node's own history agree with the true causal past |
| `cluster_ready` (violation) | the same | - | a node that has all that precedes an event is not ready for it before it has the event |
| `breaker` | 3 callers, threshold 2, 2 probes, 1 retry, cancellation, fair | 19 994 | probes stay within the limit, a closed circuit below its threshold, a used-up limit means a probe is out or was lost; a healthy node gets its circuit closed unless the period it is in lost a probe; executions end |
| `breaker_stuck` (violation) | 2 callers, the same | - | with cancelled probes the circuit of a healthy node rejects for ever |
| `storage` | 2 clients, 2 keys, memtable 2, 3 calls with deletes and cancellation, 1 crash, 1 stop, fair | 387 182 | the memtable was logged, recovery follows the log, reads return the last call unless a named disturbance happened; a key whose calls come one at a time changes by them alone (`KeyValueStore`), over flushes, stops and crashes; flushes and `stop()` end |
| `storage_lostput` (violation) | 1 client, 1 key, memtable 1, 2 writes | - | a put during a flush is cleared with the memtable |
| `storage_broken` (violation) | 1 client, 1 crash | - | a process killed in a flush leaves a table that makes `start()` raise |
| `wal` | 2 appenders, files of one entry, 4 appends, 3 clock values, 1 cancellation, 1 crash | 4 287 632 | what returned reaches the disk unless it came during a flush or in a replaced file; recovery keeps the order but for overlapping rotations; files stay bounded; the log is closed only by a rotation; a clean stop keeps all |
| `hash_ring` | 3 nodes, 2 virtual nodes each, 6 positions, all injective hash functions and some with a collision | 289 758 | dict and list agree, placement follows membership, replica lists are distinct and nested, a join or leave moves only its own keys |
| `coordinator` | 2 nodes, 2 writes, N = W = 2, 1 retry, 1 stop, 1 clock tick, fair | 384 856 | reports stay true, a replica was missed just when its hint is in the list or left it for a known reason, a write based on a read comes after it; hints drain, writes return |
| `coordinator_conflict` (violation) | 3 nodes, 2 writes, N = 3, W = 2 | - | two concurrent writes leave different values under equal clocks |
| `resilient` | 2 coordinators, 3 servers, N = 3, W = R = 2, sloppy, clocks of at most 1 or 2 entries, 3 writes, 2 reads, 1 failed call | 3 471 109 | a clock claims no write its version does not come after, but for pruned or reused counters; concurrent values are returned; an acknowledged write is on a node that reads ask |

Why these bounds suffice. *Cluster:* three nodes are the fewest with a relation
that exists only through a third node, and two occurrences each let a node act
both before and after a receipt; `MaxOccurrences` is a guard of every
operation. *Breaker:* three callers exceed the two probes, so a caller is
rejected and another comes back from an earlier period; counters saturate in the
code's own comparisons, so the state space is finite without a bound.
*Storage:* a memtable of two with three calls gives a flush, a call during it
and one after it; `MaxCalls`, `MaxCrashes`, `MaxStops` bound the calls, crashes
and stops, and the crash can hit every stage of the run including recovery. The
conditions of `ReadsLatestUnlessDisturbed` are met: `clean` shrinks and grows in
the run. So does `orderly`, the keys of the refinement's map: two clients make calls of
one key overlap, two keys let one of them stay orderly while the other is disturbed, and a
flush that loses a key, or a restart that reverts one, shows on a single key. *Ring:* with as many positions as virtual nodes every neighbourhood,
the wrap around and a full ring occur. *Coordinator:* one node more or less than
the quorum, a hint given up, sent, expired and stored during a walk all occur.
*Log:* files of one entry make two appenders rotate at once, and four appends let
an entry return before, during and after a flush and a restart; with a clock of
three values names collide and differ. *ResilientStorage:* with clocks of one entry
two coordinators prune each other's counts; three writes give a chain of contexts
and a write beside it; one preference list is full, the other one server, so
substitutes are taken; two reads let a repair race a later write and a repair.
*Servers:* two clients are the fewest whose contexts can cross.

`CHECK_DEADLOCK FALSE` is set where a bound ends the behaviour (calls,
occurrences, writes used up) or `start()` has raised.
Symmetry is used where only invariants are checked (`cluster`: the nodes on one side
of the split and the clients; `wal`, `resilient`), never with
liveness.

## 5. Fairness

* `ResilientOperation`: an operation that was started returns or raises (each
  has its own timeout in the code), a back-off ends, the cooldown passes, and
  requests keep coming (a breaker moves only when called). Nothing makes a node
  fail, mend or a caller be cancelled.
* `WriteAheadLog`, `ResilientStorage`, `Server`, `HashRing`: none; only safety is stated.
* `StorageEngine`: the event loop runs every ready task and the executor its
  jobs: the three parts of a call, flush begin and end, the end of `stop()` and
  the steps of `start()`. No fairness on calls, stops, crashes, or on start
  itself; none is needed for the group commit, whose effect only a crash can see.
* `WriteCoordinator`: weak fairness of the forwarding loop as a whole (it is one
  task that always becomes ready) and of each `Finish`, which `asyncio.wait`'s
  timeout enables. Replica tasks get none: a replica may hang. `HintsDrain`
  assumes that the loop stays started.

## 6. Proofs

Every safety invariant of the runs, the action property `ReorganizationIsMinimal`
and the refinement `ImplementsStore` are theorems, for all values of the constants
their modules' assumptions admit.
Each proof module gives `Init => IInv`, `IInv /\ [Next]_vars => IInv'` (one lemma per
action) and `IInv => property`, and adds further invariants that build on `IInv`.

* **Data** (`DataProofs`): `MergeIsLeastUpperBound`, `HappensBeforeIsStrictOrder`,
  `IncrementHappensAfter`, for clocks over any ids. The library's induction theorems
  have an operator as a parameter, which no installed prover instantiates. `Least`
  and `UpTo` are induction by least counterexample instead, from `WFMin`, whose
  parameter is a set; `Iterates` and `FoldExists` give from them what recursive
  functions and folds are. No prover unfolds `SelectSeq` either: what filters a list
  is `Sublist`, with its lemmas here (`SublistKeeps`, `SublistOrder`).
* **Cluster** (`NodeClusterProofs`): `TypeCorrect`, `StrongClockCondition`
  (clocks are ordered exactly as causality is), `LogIsCausal`, and `ReadyIffSeen` (what
  `is_causally_ready` tells where its docstring is wrong), for
  any sets of nodes, keys and values and any bound. `ClocksTellCausality` is not
  inductive: it says nothing about nodes, whose clocks the next event copies. The
  invariant says that each clock *is a count of* a causal past (`NodesCounted`,
  `EventsCounted`, `DataCounted`), that pasts are closed and acyclic
  (`PastsClosed`, `PastsAcyclic`), and that comparing clocks is comparing the sets
  they count (`DominatesIsInclusion`). The queries follow from it: `CausalOrder` (each
  round of the loop finds an event without predecessors, the one logged first, so it
  ends with all events), `ConflictsExact` and `OwnHistory`.
* **Breaker** (`ResilientOperationProofs`): `TypeCorrect`, `ProbesBounded`,
  `ClosedIsBelowThreshold` and `LimitMeansProbing`. `Accounted` relates the breaker's
  counter to the calls that are really running: at least those, and at most those
  plus the successes and the probes that were cancelled. The last term is the finding
  below.
* **Storage** (`StorageEngineProofs`): `TypeCorrect`, `LoggedFirst`,
  `RecoveryIsFaithful` (any number of crashes at any point, recovery included),
  `UndisturbedReads`. The invariant adds that an acknowledged append is in the log,
  that the snapshot of a flush agrees with the memtable on undisturbed keys
  (`SnapshotAgrees`), and that a key held by tables has a newest one
  (`TablesOrdered`), so that the table published by `FlushEnd` changes no read.
  `EngineIsAStore` is the refinement, for any clients, keys, sizes and numbers of calls,
  stops and crashes. The map has the keys in `orderly`: since `start()` their calls came
  one at a time, and none met a flush, a table, a cancellation or a crash that could
  spoil it; what each of these can spoil is among the findings or the hazards. While
  the engine is up the map is what `read()` returns. A key's call changes it when it
  returns, and every step of a flush, of the group commit but for what it saves, of
  `stop()` and of the replay is a stutter: a restart makes the map complete again, and
  an orderly key must then read as it did before. A crash loses an orderly key only if a
  call on it was under way or an entry of it was not flushed. `OrderlyInv` says why: an
  orderly key is undisturbed, at most one call is under way on it, and the last of its
  log entries, the one not yet applied apart, is what its last call left, so that the
  replay reads the same.
* **Log** (`WriteAheadLogProofs`): `TypeCorrect`, `OnlyOvertakenAreMissed`,
  `NeverLeftClosed`, `NothingLeftBehind`, `FilesAreBounded`, `RecoveryKeepsOrder`, for
  any number of appenders, any file size and any bounds.
  Every step but a crash only opens files and moves entries out of buffers (`Keeps`).
  The invariant says of a task that awaits a flush that whatever had returned when it
  began is in the buffer it flushes or needs no flush (`Flushes`), which is why the
  entries that return meanwhile are the only exception; that a closed file has an empty
  buffer and an open one is current or in use (`ClosedEmpty`, `OpenHeld`); and that a
  stop begun with no append running is alone with the file (`OrderlyStop`). For the
  size of files, `SizeBounded` also counts what is coming (tasks that looked at the size
  and have not written) and what is not yet added (written or cancelled). For the order
  of recovery, `OrderInv` says that what returned before an append began stands before
  its entry (`Ordered`), that a task about to write holds a file no older than any
  that has such an entry (`OnTime`), that nothing is written behind the current file
  (`Latest`), and that names follow the order of opening but for the files of
  overlapped rotations and those that stay empty for good (`Named`).
* **Coordinator** (`WriteCoordinatorProofs`): `TypeCorrect`, `ReportsStayTrue`,
  `BasedOnWhatWasRead` and `HintsKept`, for any nodes, keys, writes, quorums and routes.
  A call that is done has no task left that could write (`Settled`), each call is
  counted once (`Counted`), and a version that was stored or read belongs to a call
  whose clock is fixed (`StoredStarted`, `BasisRead`). The types need the clocks
  bounded by the number of calls (`CallInv`). Of the hint manager `HintInv` says that
  every hint stands for a miss, that what the forwarding loop is about to remove is
  behind its walk (`WalkInBounds`), that every miss has its hint or the reason it
  went (`Accounted`), and that it has one hint (`Once`) and not both (`NotBoth`).
* **ResilientStorage** (`ResilientStorageProofs`): `TypeCorrect`, `PruningBounds`,
  `PruningNeverInverts`, `ClocksAreTruthful`, `ReadsReturnConflicts`, `QuorumsMeet`,
  `WritesAreReadable`, for any number of coordinators, servers, writes and reads, any
  quorum and clock size. The invariant
  (`Good`, `History`) says that every component of a clock was counted by a write the
  version comes after, and that a count that was lost gave way to as many larger ones
  as a clock may have (`Reaches`). So a coordinator that starts to count again makes
  its clock too large: that write is pruned itself, and only pruned writes reuse a
  counter along one history. `SendInv` follows a write on its way (`UnderWay`): the
  nodes that have stored it still hold it or a version made with it, and the rest of
  its list are nodes it has not tried. With `QuorumsMeet`, sloppy quorums included, one
  of them is asked by every read.
* **Ring** (`HashRingProofs`): `TypeCorrect`, `ListFollowsRing` and `ReplicasFollowRing`
  for any hash function, collisions included:
  while a node is added there is room for what is still to place (`RoomIsLeft`), so
  probing ends at a free position, and `insort` and the removal keep the list sorted
  (`BisectCuts`, `InsortKeepsSorted`, `RemoveFirstKeepsSorted`).
  `RingIsItsMembers` and `CallsMoveOnlyTheirKeys` hold of the behaviours in which no two
  virtual nodes hash alike (`NoCollision` is part of both properties: MD5 gives it in
  practice, and with a collision `remove_node` deletes the wrong entry). The invariant
  describes the ring in the middle of a call: the virtual nodes already placed, or not
  yet removed. `MovesInv` adds that since the call began only positions of its node
  came or went.

The constants' assumptions are the named ASSUMEs of the modules; TLC evaluates
them in the runs.

Only model-checked is what needs fairness: `FlushesAndStopsEnd`, `EveryExecutionEnds`,
`RecoversUnlessProbeLost`, `HintsDrain` and `EveryWriteReturns`. Liveness under
fairness and ENABLED are beyond the installed provers.

## 7. Findings and known divergences

Findings (violation runs):

1. `storage_lostput`: a put that completes while a flush writes its table is wiped
   by `memtable.clear()` at its end; until the next restart the key reads as its
   older version.
2. `storage_broken`: a table file without a footer, left by a process killed in
   `create_from_memtable`, makes `start()` raise although the log has every entry.
3. `breaker_stuck`: `half_open_calls` counts a probe that was cancelled; `except
   Exception` does not see `CancelledError`. Used up, the limit rejects for ever.
4. `coordinator_conflict`: two writes without a context get equal clocks, so
   replicas can hold different values that no clock tells apart.
5. `cluster_ready`: `is_causally_ready` asks that the node's clock cover the event's own
   increment, which its docstring excludes: a node with all that precedes the event is not
   ready until it has the event itself.

Known and kept as hazards, modelled as the code does it: `partition()` only records the split; `delete` leaves no tombstone, so an
older table answers again; a write is acknowledged before its fsync; after a crash
the replayed log may shadow a newer table; `start()` can overfill the memtable; a
failed half-open period leaves its `success_count`; `remove_node` after probing;
`remove_hint` removes twins (hints of one key stored in one clock tick); a rejected write is counted only in `writes_total`;
`get` asks the primary only.

In the log: `fsync()` clears `_pending_fsync` after its await, so an append that
returned meanwhile waits for the next one (`overtaken`); `append` returns
`sequence_number` after its await and may so return another's; an append cancelled
inside a rotation leaves a closed file, and every later append fails (`wounded`); the
file of two overlapping rotations that was named first can be opened last
(`rushed`); files of the same millisecond overwrite each other.

In `ResilientStorage`: `read_with_repair` compares for concurrency only, so its "All
versions agree, return first" also covers one version that is newer than another,
and the older may be returned and is not repaired; nodes keep what they are sent
last, so a repair or a retry can put an old version over a new one (`intact`); a
write without a context starts its counter at one again, and pruning drops counters.
In `Server`: `get` after `delete` answers `found: true` with no value;
`_owned_keys` is written and never read.

## 8. Not modelled

* *Formats*: the bytes and checksums of log records and table files, `to_dict` and
  `from_dict`, statistics that nothing reads. The models start from what a reader gets:
  an entry, a torn tail, a file without a footer.
* *Node replacement*: `Cluster.add_node` with a known id starts its clock again; callers
  add each id once, which is the model's precondition.
* *Code without a caller*: `wait_for_fsync`, `remove_hints_for_node`,
  `CircuitBreaker.reset`, `get_read_nodes` and the two `is_*_quorum_possible` (given as
  operators), gossip, which is a placeholder.
* *The transports*: `ReplicaClient` and aiohttp; their outcomes (an answer, an error, a
  time-out, an effect without an answer) are choices of the models.
* *Restarts above the storage engine*: the coordinator's replicas are running engines;
  what a restart changes is `StorageEngine`'s and `WriteAheadLog`'s subject.
* *Visualization, demos and tests*: they change no state. They were read for what they
  expect of the rest.

What could be added: restarts of the coordinator's replicas, node replacement in the
cluster, and properties for the hazards that have none yet.

--------------------------- MODULE StorageEngine ---------------------------
(***************************************************************************)
(* clotho/storage.py, class StorageEngine: write-ahead log, memtable and   *)
(* SSTables, used by concurrent tasks of one event loop, with the          *)
(* background flush task, clean stops, process crashes and restarts.       *)
(*                                                                         *)
(* A step is what runs between two awaits.  An append is awaited in        *)
(* write() while a thread of the executor puts the bytes in the file, so   *)
(* appends of two tasks land in either order and their tasks resume in     *)
(* either order.  A flush task awaits the file between taking its snapshot *)
(* and publishing the table, and anything may run meanwhile.               *)
(*                                                                         *)
(* A write is identified by its version: the versions 1, 2, ... number the *)
(* calls in the order they are made; 0 stands for "not found".  The log is *)
(* the concatenation of the WAL files, whose rotation is left out.         *)
(* Table files are assumed to get distinct names (a millisecond apart).    *)
(***************************************************************************)
EXTENDS Naturals, Sequences, FiniteSets

CONSTANTS Client,          \* tasks that call write() and delete()
          Key,
          MemtableSize,    \* Memtable.max_size
          Deletes,         \* whether clients call delete()
          Cancellation,    \* whether tasks are cancelled in the middle of a call
          MaxCalls,        \* bound: calls
          MaxCrashes,      \* bound: process crashes
          MaxStops         \* bound: clean stops

ASSUME KeyAssumption == IsFiniteSet(Key)
ASSUME SizeAssumption == MemtableSize \in Nat \ {0}
ASSUME FlagAssumption == Deletes \in BOOLEAN /\ Cancellation \in BOOLEAN
ASSUME BoundAssumption == MaxCalls \in Nat /\ MaxCrashes \in Nat /\ MaxStops \in Nat

Version == 1 .. MaxCalls
Absent == 0

\* Tables of keys to versions: the memtable, and what an SSTable holds.
Table == UNION {[D -> Version] : D \in SUBSET Key}
EmptyTable == [k \in {} |-> Absent]

Entry == [operation : {"WRITE", "DELETE"}, key : Key, version : Version]

VARIABLES status,      \* "starting", "up", "stopping", "down", or "broken": start() raised
          replayed,    \* how many entries of the log start() has replayed
          log,         \* entries written to the WAL files, in file order
          flushed,     \* how many of them have left the process's buffer
          memtable,
          sstables,    \* the tables, oldest first
          partial,     \* a table file without its footer is on disk
          flushing,    \* snapshot of the flush task that holds _flush_lock, empty
                       \* while there is none (an empty memtable is not flushed)
          flushTasks,  \* flush tasks waiting for _flush_lock
          stopFlushes, \* stop() is waiting for its own flush
          pc, entry,   \* each client's progress and the entry it appends
          calls, crashes, stops,
          latest,      \* ghost: what the last completed call left for each key
          clean,       \* ghost: keys no flush or table disturbed since then
          orderly      \* ghost: keys whose calls since start() came one at a time and
                       \* met no flush, table, cancellation or crash

memory == <<memtable, flushing, flushTasks, stopFlushes>>
disk == <<log, flushed, sstables, partial>>
clients == <<pc, entry>>
bounds == <<calls, crashes, stops>>
ghosts == <<latest, clean, orderly>>
vars == <<status, replayed, memory, disk, clients, bounds, ghosts>>

TypeOK ==
    /\ status \in {"starting", "up", "stopping", "down", "broken"}
    /\ replayed \in 0 .. Len(log)
    /\ log \in Seq(Entry)
    /\ flushed \in 0 .. Len(log)
    /\ memtable \in Table
    /\ sstables \in Seq(Table)
    /\ partial \in BOOLEAN
    /\ flushing \in Table
    /\ flushTasks \in Nat
    /\ stopFlushes \in BOOLEAN
    /\ pc \in [Client -> {"idle", "appending", "appended", "abandoned"}]
    /\ entry \in [Client -> Entry \cup {<<>>}]
    /\ \A c \in Client : pc[c] # "idle" => entry[c] \in Entry
    /\ calls \in 0 .. MaxCalls /\ crashes \in 0 .. MaxCrashes /\ stops \in 0 .. MaxStops
    /\ latest \in [Key -> Version \cup {Absent}]
    /\ clean \subseteq Key /\ orderly \subseteq Key

Init ==
    /\ status = "up" /\ replayed = 0
    /\ log = <<>> /\ flushed = 0
    /\ memtable = EmptyTable
    /\ sstables = <<>> /\ partial = FALSE
    /\ flushing = EmptyTable /\ flushTasks = 0 /\ stopFlushes = FALSE
    /\ pc = [c \in Client |-> "idle"]
    /\ entry = [c \in Client |-> <<>>]
    /\ calls = 0 /\ crashes = 0 /\ stops = 0
    /\ latest = [k \in Key |-> Absent]
    /\ clean = Key /\ orderly = Key
-----------------------------------------------------------------------------
\* Memtable.put
PutIn(table, k, v) ==
    [x \in DOMAIN table \cup {k} |-> IF x = k THEN v ELSE table[x]]

\* Mistake: the deleted key stays, without a version.
DropLeavesKey(table, k) == PutIn(table, k, Absent)

\* Memtable.delete: the key is dropped, no tombstone is kept.
DropFrom(table, k) == [x \in DOMAIN table \ {k} |-> table[x]]

\* Memtable.is_full
IsFull(table) == Cardinality(DOMAIN table) >= MemtableSize

\* The tables that hold k; StorageEngine.read returns the newest one's version.
Holding(tables, k) == {i \in DOMAIN tables : k \in DOMAIN tables[i]}

\* Mistake: the tables are searched oldest first.
Oldest(I) == CHOOSE i \in I : \A j \in I : i <= j

Newest(I) == CHOOSE i \in I : \A j \in I : j <= i

\* StorageEngine.read: the memtable is looked at before the first await, and a
\* table is published in the step that empties the memtable, so the answer is
\* that of one state.
Lookup(table, tables, k) ==
    IF k \in DOMAIN table THEN table[k]
    ELSE IF Holding(tables, k) # {}
         THEN tables[Newest(Holding(tables, k))][k]
         ELSE Absent

Read(k) == Lookup(memtable, sstables, k)

\* Mistake: recovery ignores deletes.
ReplayWritesOnly(table, e) ==
    IF e.operation = "WRITE" THEN PutIn(table, e.key, e.version) ELSE table

\* One iteration of the loop of start() over the recovered entries.
Replay(table, e) ==
    IF e.operation = "WRITE" THEN PutIn(table, e.key, e.version) ELSE DropFrom(table, e.key)
-----------------------------------------------------------------------------
\* c's call on k has not returned, or its job is left behind.
Calling(c, k) == pc[c] # "idle" /\ entry[c].key = k

\* write() or delete() up to the await of the file write in WriteAheadLog.append
Call(c, op, k) ==
    /\ status = "up" /\ pc[c] = "idle" /\ calls < MaxCalls
    /\ op = "DELETE" => Deletes
    /\ calls' = calls + 1
    /\ pc' = [pc EXCEPT ![c] = "appending"]
    /\ entry' = [entry EXCEPT ![c] = [operation |-> op, key |-> k, version |-> calls + 1]]
    /\ orderly' = IF \E d \in Client : Calling(d, k) THEN orderly \ {k} ELSE orderly
    /\ UNCHANGED <<status, replayed, memory, disk, crashes, stops, latest, clean>>

\* Mistake: write() goes on without the entry being logged.
WalWriteSkipped(c) ==
    /\ status = "up" /\ pc[c] = "appending"
    /\ pc' = [pc EXCEPT ![c] = "appended"]
    /\ UNCHANGED <<status, replayed, memory, disk, entry, bounds, ghosts>>

\* The executor's thread writes the entry to the file's buffer.
WalWrite(c) ==
    /\ status = "up" /\ pc[c] = "appending"
    /\ log' = Append(log, entry[c])
    /\ pc' = [pc EXCEPT ![c] = "appended"]
    /\ UNCHANGED <<status, replayed, memory, flushed, sstables, partial, entry, bounds, ghosts>>

\* write() resumes: update the memtable, start a flush task if it is full, return.
ApplyWrite(c) ==
    LET k == entry[c].key
        table == PutIn(memtable, k, entry[c].version)
    IN  /\ status = "up" /\ pc[c] = "appended" /\ entry[c].operation = "WRITE"
        /\ memtable' = table
        /\ flushTasks' = IF IsFull(table) THEN flushTasks + 1 ELSE flushTasks
        /\ pc' = [pc EXCEPT ![c] = "idle"] /\ entry' = [entry EXCEPT ![c] = <<>>]
        /\ latest' = [latest EXCEPT ![k] = entry[c].version]
        /\ clean' = IF flushing = EmptyTable THEN clean \cup {k} ELSE clean \ {k}
        /\ orderly' = IF flushing = EmptyTable THEN orderly ELSE orderly \ {k}
        /\ UNCHANGED <<status, replayed, disk, flushing, stopFlushes, bounds>>

\* delete() resumes.
ApplyDelete(c) ==
    LET k == entry[c].key
        below == Holding(sstables, k) # {} \/ k \in DOMAIN flushing
    IN  /\ status = "up" /\ pc[c] = "appended" /\ entry[c].operation = "DELETE"
        /\ memtable' = DropFrom(memtable, k)
        /\ pc' = [pc EXCEPT ![c] = "idle"] /\ entry' = [entry EXCEPT ![c] = <<>>]
        /\ latest' = [latest EXCEPT ![k] = Absent]
        /\ clean' = IF below THEN clean \ {k} ELSE clean \cup {k}
        /\ orderly' = IF below THEN orderly \ {k} ELSE orderly
        /\ UNCHANGED <<status, replayed, disk, flushing, flushTasks, stopFlushes, bounds>>

\* The task is cancelled at its await, as WriteCoordinator.write cancels late ones.
\* A job the executor has begun goes on without it.
Cancel(c) ==
    /\ Cancellation
    /\ status = "up" /\ pc[c] \in {"appending", "appended"}
    /\ \/ /\ pc' = [pc EXCEPT ![c] = "idle"]
          /\ entry' = [entry EXCEPT ![c] = <<>>]
          /\ orderly' = IF pc[c] = "appending" THEN orderly ELSE orderly \ {entry[c].key}
       \/ /\ pc[c] = "appending"
          /\ pc' = [pc EXCEPT ![c] = "abandoned"]
          /\ orderly' = orderly \ {entry[c].key}
          /\ UNCHANGED entry
    /\ UNCHANGED <<status, replayed, memory, disk, bounds, latest, clean>>

\* That job writes the entry, and nobody updates the memtable.
AbandonedWrite(c) ==
    /\ status = "up" /\ pc[c] = "abandoned"
    /\ log' = Append(log, entry[c])
    /\ pc' = [pc EXCEPT ![c] = "idle"] /\ entry' = [entry EXCEPT ![c] = <<>>]
    /\ UNCHANGED <<status, replayed, memory, flushed, sstables, partial, bounds, ghosts>>

\* The group commit, or a full buffer, hands the log to the operating system.
GroupCommit ==
    /\ status = "up" /\ flushed < Len(log)
    /\ flushed' = Len(log)
    /\ UNCHANGED <<status, replayed, memory, log, sstables, partial, clients, bounds, ghosts>>

\* Mistake: a flush task that finds the memtable empty waits for it to fill.
FlushWaitsForData ==
    /\ status \in {"up", "stopping"} /\ flushing = EmptyTable /\ flushTasks > 0
    /\ memtable # EmptyTable
    /\ flushTasks' = flushTasks - 1
    /\ flushing' = memtable
    /\ UNCHANGED <<status, replayed, memtable, stopFlushes, disk, clients, bounds, ghosts>>

\* _flush_memtable gets the lock: nothing to do, or the snapshot is taken.
FlushBegin ==
    /\ status \in {"up", "stopping"} /\ flushing = EmptyTable /\ flushTasks > 0
    /\ flushTasks' = flushTasks - 1
    /\ flushing' = memtable
    /\ UNCHANGED <<status, replayed, memtable, stopFlushes, disk, clients, bounds, ghosts>>

\* Mistake: the memtable is cleared and the table not published.
FlushUnpublished ==
    /\ status \in {"up", "stopping"} /\ flushing # EmptyTable
    /\ memtable' = EmptyTable
    /\ flushing' = EmptyTable
    /\ UNCHANGED <<status, replayed, flushTasks, stopFlushes, disk, clients, bounds, ghosts>>

\* The table file is complete: publish it, clear the memtable, release the lock.
FlushEnd ==
    /\ status \in {"up", "stopping"} /\ flushing # EmptyTable
    /\ sstables' = Append(sstables, flushing)
    /\ memtable' = EmptyTable
    /\ flushing' = EmptyTable
    /\ UNCHANGED <<status, replayed, flushTasks, stopFlushes, log, flushed, partial, clients, bounds, ghosts>>

\* stop(), called once the clients are done: flush the memtable unless empty.
StopBegin ==
    /\ status = "up" /\ stops < MaxStops
    /\ \A c \in Client : pc[c] = "idle"
    /\ status' = "stopping"
    /\ stops' = stops + 1
    /\ stopFlushes' = (memtable # EmptyTable)
    /\ flushTasks' = IF memtable # EmptyTable THEN flushTasks + 1 ELSE flushTasks
    /\ UNCHANGED <<replayed, memtable, flushing, disk, clients, calls, crashes, ghosts>>

\* The process ends with S of the log in the files and the tables T complete.
Exit(S, T, torn) ==
    /\ log' = SubSeq(log, 1, S) /\ flushed' = S
    /\ sstables' = T
    /\ partial' = (partial \/ torn)
    /\ status' = "down" /\ replayed' = 0
    /\ memtable' = EmptyTable /\ flushing' = EmptyTable /\ flushTasks' = 0 /\ stopFlushes' = FALSE
    /\ pc' = [c \in Client |-> "idle"]
    /\ entry' = [c \in Client |-> <<>>]

\* What becomes of the file of an unfinished flush: no file yet, a file without
\* footer, or a complete one.
ExitWith(S) ==
    \/ Exit(S, sstables, FALSE)
    \/ flushing # EmptyTable /\ Exit(S, sstables, TRUE)
    \/ flushing # EmptyTable /\ Exit(S, Append(sstables, flushing), FALSE)

\* stop() after its flush: wal.stop() flushes and closes the log.  The tasks
\* queued with stop's flush find nothing more to do.
StopEnd ==
    /\ status = "stopping"
    /\ stopFlushes => flushing = EmptyTable /\ flushTasks = 0
    /\ ExitWith(Len(log))
    /\ UNCHANGED <<bounds, ghosts>>

\* The process is killed; of the buffered entries any prefix was written out.
Crash ==
    /\ status \in {"starting", "up", "stopping"} /\ crashes < MaxCrashes
    /\ crashes' = crashes + 1
    /\ \E S \in flushed .. Len(log) :
           /\ ExitWith(S)
           /\ orderly' = {k \in orderly : /\ \A c \in Client : ~Calling(c, k)
                                         /\ \A i \in S + 1 .. Len(log) : log[i].key # k}
    /\ UNCHANGED <<calls, stops, latest, clean>>

\* start(): a new WAL file is opened and every WAL file ever written is read;
\* nothing trims the log.
StartBegin ==
    /\ status = "down"
    /\ status' = "starting"
    /\ UNCHANGED <<replayed, memory, disk, clients, bounds, ghosts>>

\* start() replays the next entry; it does not look at is_full.
ReplayEntry ==
    /\ status = "starting" /\ replayed < Len(log)
    /\ replayed' = replayed + 1
    /\ memtable' = Replay(memtable, log[replayed + 1])
    /\ UNCHANGED <<status, flushing, flushTasks, stopFlushes, disk, clients, bounds, ghosts>>

\* _load_sstables ends start(); load_index raises on a file without footer.
StartEnd ==
    /\ status = "starting" /\ replayed = Len(log)
    /\ status' = IF partial THEN "broken" ELSE "up"
    /\ replayed' = 0
    /\ latest' = [k \in Key |-> Read(k)]
    /\ clean' = Key
    /\ orderly' = IF partial THEN orderly ELSE Key
    /\ UNCHANGED <<memory, disk, clients, bounds>>

Next ==
    \/ \E c \in Client, k \in Key : Call(c, "WRITE", k) \/ Call(c, "DELETE", k)
    \/ \E c \in Client : WalWrite(c) \/ ApplyWrite(c) \/ ApplyDelete(c)
    \/ \E c \in Client : Cancel(c) \/ AbandonedWrite(c)
    \/ GroupCommit
    \/ FlushBegin
    \/ FlushEnd
    \/ StopBegin
    \/ StopEnd
    \/ Crash
    \/ StartBegin
    \/ ReplayEntry
    \/ StartEnd

\* The event loop runs every task that is ready, and the executor its jobs.
Fairness ==
    /\ \A c \in Client : WF_vars(WalWrite(c)) /\ WF_vars(ApplyWrite(c)) /\ WF_vars(ApplyDelete(c))
                        /\ WF_vars(AbandonedWrite(c))
    /\ WF_vars(FlushBegin) /\ WF_vars(FlushEnd)
    /\ WF_vars(StopEnd)
    /\ WF_vars(ReplayEntry) /\ WF_vars(StartEnd)

Spec == Init /\ [][Next]_vars

FairSpec == Spec /\ Fairness
-----------------------------------------------------------------------------
\* The positions of k's entries among the first n of the log.
Positions(k, n) == {i \in 1 .. n : log[i].key = k}

\* Every version in the memtable was logged as a write of its key before it got
\* there: write() appends before it updates, and recovery has no other source.
MemtableIsLogged ==
    \A k \in DOMAIN memtable :
        \E i \in DOMAIN log : log[i] = [operation |-> "WRITE", key |-> k, version |-> memtable[k]]

\* While start() replays, the memtable holds a key exactly when the last of the
\* key's replayed entries is a write, and then that write's version: so every
\* entry a crash left in the files takes effect, and none undoes a later one.
RecoveryFollowsLog ==
    status = "starting" =>
        \A k \in Key :
            LET I == Positions(k, replayed)
            IN  IF I # {} /\ log[Newest(I)].operation = "WRITE"
                THEN k \in DOMAIN memtable /\ memtable[k] = log[Newest(I)].version
                ELSE k \notin DOMAIN memtable

\* In a running engine read() returns what the key's last completed call left,
\* through flushes and calls on other keys, unless that call was a write made
\* while a flush was under way, or a delete of a key that a table or the flush
\* under way holds (what is lost then: ReadsLatestWrite below).
ReadsLatestUnlessDisturbed ==
    status \in {"up", "stopping"} => \A k \in clean : Read(k) = latest[k]

\* Flushing never stalls, and stop() returns however many flush tasks wait for the
\* lock when it is called: a task that finds nothing left to flush passes it on.
FlushesAndStopsEnd ==
    /\ flushTasks > 0 \/ flushing # EmptyTable ~> flushTasks = 0 /\ flushing = EmptyTable
    /\ status = "stopping" ~> status = "down"

\* An orderly key is what read() returns, and between two processes what its last
\* call left; a call is pending until it returns.
StoreView == [k \in orderly |-> IF status \in {"up", "stopping"} THEN Read(k) ELSE latest[k]]
PendingView ==
    [c \in Client |->
        IF pc[c] \in {"appending", "appended"}
        THEN [key |-> entry[c].key,
              version |-> IF entry[c].operation = "WRITE" THEN entry[c].version ELSE Absent]
        ELSE <<>>]
Unflushed == {k \in orderly : \E i \in flushed + 1 .. Len(log) : log[i].key = k}

KVS == INSTANCE KeyValueStore WITH
           store <- StoreView, pending <- PendingView, unsaved <- Unflushed

\* A key's calls, made one at a time, that no flush, table or cancellation meets, are
\* the only thing that changes what it reads as: no flush does, no stop, and no
\* restart, except after a crash that loses entries of it which no group commit had
\* flushed, or that comes in the middle of a call on it.
ImplementsStore == KVS!Spec
-----------------------------------------------------------------------------
(* What comments say, and the code does not do.                            *)

\* storage.py:575, "Check memtable (most recent)": a key reads as its last completed
\* write.
ReadsLatestWrite ==
    status = "up" => \A k \in Key : latest[k] # Absent => Read(k) = latest[k]

\* storage.py:516, "Start the storage engine and recover from WAL."
StartRecovers == status # "broken"
=============================================================================

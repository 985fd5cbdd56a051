------------------------ MODULE StorageEngineProofs ------------------------
(***************************************************************************)
(* What StorageEngine keeps for every number of clients, keys, calls,      *)
(* flushes, stops and crashes: the memtable is backed by the log, recovery *)
(* follows the log, and an undisturbed key reads as its last completed     *)
(* call left it.                                                           *)
(*                                                                         *)
(* Reads cannot change when a flush publishes its table because, for a     *)
(* clean key, the snapshot still agrees with the memtable it came from     *)
(* (SnapshotAgrees): that is the conjunct that fails for a key written or  *)
(* deleted behind the snapshot's back, and why clean leaves those out.     *)
(*                                                                         *)
(* The engine implements KeyValueStore: the keys of its map are the ones   *)
(* whose calls came one at a time and met nothing (orderly).  For these    *)
(* the log in front of the tables says what read() says, so the flush, the *)
(* stop and the restart do not show; OrderlyInv has what that rests on.    *)
(***************************************************************************)
EXTENDS StorageEngine, DataProofs

USE KeyAssumption, SizeAssumption, FlagAssumption, BoundAssumption

LEMMA TableType ==
    ASSUME NEW t \in Table
    PROVE  /\ DOMAIN t \subseteq Key
           /\ \A k \in DOMAIN t : t[k] \in Version
           /\ t = EmptyTable <=> DOMAIN t = {}
BY DEF Table, EmptyTable

LEMMA EmptyTableType == EmptyTable \in Table /\ DOMAIN EmptyTable = {}
<1>1. EmptyTable \in [{} -> Version]
    BY DEF EmptyTable
<1> QED
    BY <1>1 DEF Table, EmptyTable

LEMMA PutInTable ==
    ASSUME NEW t \in Table, NEW k \in Key, NEW v \in Version
    PROVE  /\ PutIn(t, k, v) \in Table
           /\ DOMAIN PutIn(t, k, v) = DOMAIN t \cup {k}
           /\ PutIn(t, k, v)[k] = v
           /\ \A x \in DOMAIN t : x # k => PutIn(t, k, v)[x] = t[x]
<1>1. PutIn(t, k, v) \in [DOMAIN t \cup {k} -> Version]
    BY TableType DEF PutIn
<1>2. DOMAIN t \cup {k} \in SUBSET Key
    BY TableType
<1> QED
    BY <1>1, <1>2 DEF PutIn, Table

LEMMA DropFromTable ==
    ASSUME NEW t \in Table, NEW k \in Key
    PROVE  /\ DropFrom(t, k) \in Table
           /\ DOMAIN DropFrom(t, k) = DOMAIN t \ {k}
           /\ \A x \in DOMAIN t \ {k} : DropFrom(t, k)[x] = t[x]
<1>1. DropFrom(t, k) \in [DOMAIN t \ {k} -> Version]
    BY TableType DEF DropFrom
<1>2. DOMAIN t \ {k} \in SUBSET Key
    BY TableType
<1> QED
    BY <1>1, <1>2 DEF DropFrom, Table

\* Among the tables that hold k there is a newest one.
HasNewest(tables, k) ==
    Holding(tables, k) # {} =>
        \E i \in Holding(tables, k) : \A j \in Holding(tables, k) : j <= i

\* A new table answers for its keys, the older ones for all others.
LEMMA LookupAppend ==
    ASSUME NEW T \in Seq(Table), NEW t \in Table, NEW k, HasNewest(T, k)
    PROVE  /\ HasNewest(Append(T, t), k)
           /\ Lookup(EmptyTable, Append(T, t), k) =
                  IF k \in DOMAIN t THEN t[k] ELSE Lookup(EmptyTable, T, k)
<1> DEFINE U == Append(T, t)
           n == Len(T)
<1>1. /\ n \in Nat
      /\ DOMAIN T = 1 .. n /\ DOMAIN U = 1 .. (n + 1)
      /\ U[n + 1] = t
      /\ \A i \in 1 .. n : U[i] = T[i]
    BY AppendProperties
<1>2. k \notin DOMAIN EmptyTable
    BY EmptyTableType
<1>3. CASE k \in DOMAIN t
    <2>1. n + 1 \in Holding(U, k) /\ \A j \in Holding(U, k) : j <= n + 1
        BY <1>1, <1>3 DEF Holding
    <2>2. \A j \in Holding(U, k) : j \in Nat
        BY <1>1 DEF Holding
    <2>3. Newest(Holding(U, k)) = n + 1
        BY <1>1, <2>1, <2>2 DEF Newest
    <2> QED
        BY <1>1, <1>2, <1>3, <2>1, <2>3 DEF Lookup, HasNewest
<1>4. CASE k \notin DOMAIN t
    <2>1. Holding(U, k) = Holding(T, k)
        BY <1>1, <1>4 DEF Holding
    <2>2. HasNewest(U, k)
        BY <2>1 DEF HasNewest
    <2>3. ASSUME Holding(T, k) # {}
          PROVE  U[Newest(Holding(T, k))] = T[Newest(Holding(T, k))]
        <3>1. Newest(Holding(T, k)) \in Holding(T, k)
            BY <2>3 DEF HasNewest, Newest
        <3> QED
            BY <1>1, <3>1 DEF Holding
    <2> QED
        BY <1>2, <1>4, <2>1, <2>2, <2>3 DEF Lookup
<1> QED
    BY <1>3, <1>4
-----------------------------------------------------------------------------
(* The inductive invariant.                                                *)

Serving == status \in {"up", "stopping"}

\* Outside a running engine no task of it is alive.
Idle ==
    /\ ~Serving => /\ flushing = EmptyTable
                   /\ \A c \in Client : pc[c] = "idle"
    /\ status = "down" => memtable = EmptyTable /\ replayed = 0

AppendedIsLogged ==
    \A c \in Client : pc[c] = "appended" => \E i \in DOMAIN log : log[i] = entry[c]

\* The snapshot of the flush under way still holds what the memtable holds.
SnapshotAgrees ==
    Serving /\ flushing # EmptyTable =>
        \A k \in clean :
            /\ k \in DOMAIN flushing <=> k \in DOMAIN memtable
            /\ k \in DOMAIN flushing => flushing[k] = memtable[k]

TablesOrdered == \A k \in Key : HasNewest(sstables, k)

IInv ==
    /\ TypeOK
    /\ Idle
    /\ AppendedIsLogged
    /\ MemtableIsLogged
    /\ RecoveryFollowsLog
    /\ SnapshotAgrees
    /\ TablesOrdered
    /\ ReadsLatestUnlessDisturbed

\* A memtable in front of the tables.
LEMMA LookupFront ==
    ASSUME NEW t \in Table, NEW T, NEW k
    PROVE  Lookup(t, T, k) = IF k \in DOMAIN t THEN t[k] ELSE Lookup(EmptyTable, T, k)
BY EmptyTableType DEF Lookup

LEMMA InitIInv == Init => IInv
<1> SUFFICES ASSUME Init PROVE IInv
    OBVIOUS
<1>1. TypeOK
    <2>1. log \in Seq(Entry) /\ sstables \in Seq(Table) /\ Len(log) = 0
        BY DEF Init
    <2>2. replayed \in 0 .. Len(log) /\ flushed \in 0 .. Len(log)
        BY <2>1 DEF Init
    <2>3. /\ entry \in [Client -> Entry \cup {<<>>}]
          /\ pc \in [Client -> {"idle", "appending", "appended", "abandoned"}]
          /\ \A c \in Client : pc[c] # "idle" => entry[c] \in Entry
        BY DEF Init
    <2>4. calls \in 0 .. MaxCalls /\ crashes \in 0 .. MaxCrashes /\ stops \in 0 .. MaxStops
        BY DEF Init
    <2>5. /\ latest \in [Key -> Version \cup {Absent}] /\ clean \subseteq Key
          /\ memtable \in Table /\ flushing \in Table
        BY EmptyTableType DEF Init
    <2> QED
        BY <2>1, <2>2, <2>3, <2>4, <2>5 DEF Init, TypeOK
<1>2. Idle /\ AppendedIsLogged /\ SnapshotAgrees
    BY DEF Init, Idle, Serving, AppendedIsLogged, SnapshotAgrees
<1>3. MemtableIsLogged /\ RecoveryFollowsLog
    BY EmptyTableType DEF Init, MemtableIsLogged, RecoveryFollowsLog
<1>4. \A k : Holding(sstables, k) = {}
    BY DEF Init, Holding
<1>5. TablesOrdered
    BY <1>4 DEF TablesOrdered, HasNewest
<1>6. ReadsLatestUnlessDisturbed
    BY <1>4, EmptyTableType DEF Init, ReadsLatestUnlessDisturbed, Read, Lookup
<1> QED
    BY <1>1, <1>2, <1>3, <1>5, <1>6 DEF IInv

\* A step that leaves the tables, the memtable, the log and the ghosts alone.
LEMMA TablesAlone ==
    ASSUME IInv,
           UNCHANGED <<status, replayed, log, memtable, sstables, flushing, latest, clean>>
    PROVE  /\ MemtableIsLogged'
           /\ RecoveryFollowsLog'
           /\ SnapshotAgrees'
           /\ TablesOrdered'
           /\ ReadsLatestUnlessDisturbed'
<1>1. MemtableIsLogged'
    BY DEF IInv, MemtableIsLogged
<1>2. RecoveryFollowsLog'
    BY DEF IInv, RecoveryFollowsLog, Positions
<1>3. SnapshotAgrees'
    BY DEF IInv, SnapshotAgrees, Serving
<1>4. TablesOrdered'
    BY DEF IInv, TablesOrdered
<1>5. ReadsLatestUnlessDisturbed'
    BY DEF IInv, ReadsLatestUnlessDisturbed, Read
<1> QED
    BY <1>1, <1>2, <1>3, <1>4, <1>5

LEMMA CallIInv ==
    ASSUME IInv, NEW c \in Client, NEW op \in {"WRITE", "DELETE"}, NEW k \in Key,
           Call(c, op, k)
    PROVE  IInv'
<1>1. TypeOK'
    <2>1. calls + 1 \in Version /\ calls' \in 0 .. MaxCalls
        BY DEF IInv, TypeOK, Call, Version
    <2>2. [operation |-> op, key |-> k, version |-> calls + 1] \in Entry
        BY <2>1 DEF Entry
    <2>3. /\ entry' \in [Client -> Entry \cup {<<>>}]
          /\ pc' \in [Client -> {"idle", "appending", "appended", "abandoned"}]
          /\ \A d \in Client : pc'[d] # "idle" => entry'[d] \in Entry
        BY <2>2 DEF IInv, TypeOK, Call
    <2> QED
        BY <2>1, <2>3 DEF IInv, TypeOK, Call, memory, disk, ghosts
<1>2. Idle'
    BY DEF IInv, Idle, Serving, Call, memory
<1>3. AppendedIsLogged'
    BY DEF IInv, TypeOK, AppendedIsLogged, Call, disk
<1> QED
    BY <1>1, <1>2, <1>3, TablesAlone DEF IInv, Call, memory, disk, ghosts

\* A longer log still holds what it held, at the same places.
LEMMA LogGrows ==
    ASSUME log \in Seq(Entry), NEW e \in Entry, log' = Append(log, e)
    PROVE  /\ log' \in Seq(Entry)
           /\ Len(log') = Len(log) + 1 /\ Len(log) \in Nat
           /\ DOMAIN log' = DOMAIN log \cup {Len(log) + 1}
           /\ log'[Len(log) + 1] = e
           /\ \A i \in DOMAIN log : log'[i] = log[i]
BY AppendProperties

LEMMA WalWriteIInv ==
    ASSUME IInv, NEW c \in Client, WalWrite(c)
    PROVE  IInv'
<1>1. entry[c] \in Entry /\ log \in Seq(Entry) /\ log' = Append(log, entry[c])
    BY DEF IInv, TypeOK, WalWrite
<1>2. /\ log' \in Seq(Entry)
      /\ Len(log') = Len(log) + 1 /\ Len(log) \in Nat
      /\ DOMAIN log' = DOMAIN log \cup {Len(log) + 1}
      /\ log'[Len(log) + 1] = entry[c]
      /\ \A i \in DOMAIN log : log'[i] = log[i]
    BY <1>1, LogGrows
<1>3. TypeOK'
    <2>1. flushed' \in 0 .. Len(log') /\ replayed' \in 0 .. Len(log')
        BY <1>2 DEF IInv, TypeOK, WalWrite
    <2>2. /\ pc' \in [Client -> {"idle", "appending", "appended", "abandoned"}]
          /\ \A d \in Client : pc'[d] # "idle" => entry'[d] \in Entry
        BY DEF IInv, TypeOK, WalWrite
    <2> QED
        BY <1>2, <2>1, <2>2 DEF IInv, TypeOK, WalWrite, memory, bounds, ghosts
<1>4. Idle'
    BY DEF IInv, Idle, Serving, WalWrite, memory
<1>5. AppendedIsLogged'
    <2> SUFFICES ASSUME NEW d \in Client, pc'[d] = "appended"
                 PROVE  \E i \in DOMAIN log' : log'[i] = entry'[d]
        BY DEF AppendedIsLogged
    <2>1. CASE d = c
        BY <1>2, <2>1 DEF WalWrite
    <2>2. CASE d # c
        BY <1>2, <2>2 DEF IInv, TypeOK, AppendedIsLogged, WalWrite
    <2> QED
        BY <2>1, <2>2
<1>6. MemtableIsLogged'
    BY <1>2 DEF IInv, MemtableIsLogged, WalWrite, memory
<1>7. RecoveryFollowsLog'
    BY DEF RecoveryFollowsLog, WalWrite
<1>8. SnapshotAgrees' /\ TablesOrdered'
    BY DEF IInv, SnapshotAgrees, TablesOrdered, Serving, WalWrite, memory, ghosts
<1>9. ReadsLatestUnlessDisturbed'
    BY DEF IInv, ReadsLatestUnlessDisturbed, Read, WalWrite, memory, ghosts
<1> QED
    BY <1>3, <1>4, <1>5, <1>6, <1>7, <1>8, <1>9 DEF IInv

LEMMA CancelIInv ==
    ASSUME IInv, NEW c \in Client, Cancel(c)
    PROVE  IInv'
<1>1. TypeOK'
    <2>1. /\ pc' \in [Client -> {"idle", "appending", "appended", "abandoned"}]
          /\ entry' \in [Client -> Entry \cup {<<>>}]
          /\ \A d \in Client : pc'[d] # "idle" => entry'[d] \in Entry
        BY DEF IInv, TypeOK, Cancel
    <2> QED
        BY <2>1 DEF IInv, TypeOK, Cancel, memory, disk, bounds, ghosts
<1>2. Idle'
    BY DEF IInv, Idle, Serving, Cancel, memory
<1>3. AppendedIsLogged'
    <2> SUFFICES ASSUME NEW d \in Client, pc'[d] = "appended"
                 PROVE  \E i \in DOMAIN log' : log'[i] = entry'[d]
        BY DEF AppendedIsLogged
    <2>1. pc[d] = "appended" /\ entry'[d] = entry[d]
        BY DEF IInv, TypeOK, Cancel
    <2> QED
        BY <2>1 DEF IInv, AppendedIsLogged, Cancel, disk
<1> QED
    BY <1>1, <1>2, <1>3, TablesAlone DEF IInv, Cancel, memory, disk, ghosts

LEMMA AbandonedWriteIInv ==
    ASSUME IInv, NEW c \in Client, AbandonedWrite(c)
    PROVE  IInv'
<1>1. entry[c] \in Entry /\ log \in Seq(Entry) /\ log' = Append(log, entry[c])
    BY DEF IInv, TypeOK, AbandonedWrite
<1>2. /\ log' \in Seq(Entry)
      /\ Len(log') = Len(log) + 1 /\ Len(log) \in Nat
      /\ DOMAIN log' = DOMAIN log \cup {Len(log) + 1}
      /\ log'[Len(log) + 1] = entry[c]
      /\ \A i \in DOMAIN log : log'[i] = log[i]
    BY <1>1, LogGrows
<1>3. TypeOK'
    <2>1. flushed' \in 0 .. Len(log') /\ replayed' \in 0 .. Len(log')
        BY <1>2 DEF IInv, TypeOK, AbandonedWrite
    <2>2. /\ pc' \in [Client -> {"idle", "appending", "appended", "abandoned"}]
          /\ entry' \in [Client -> Entry \cup {<<>>}]
          /\ \A d \in Client : pc'[d] # "idle" => entry'[d] \in Entry
        BY DEF IInv, TypeOK, AbandonedWrite
    <2> QED
        BY <1>2, <2>1, <2>2 DEF IInv, TypeOK, AbandonedWrite, memory, bounds, ghosts
<1>4. Idle'
    BY DEF IInv, Idle, Serving, AbandonedWrite, memory
<1>5. AppendedIsLogged'
    <2> SUFFICES ASSUME NEW d \in Client, pc'[d] = "appended"
                 PROVE  \E i \in DOMAIN log' : log'[i] = entry'[d]
        BY DEF AppendedIsLogged
    <2>1. pc[d] = "appended" /\ entry'[d] = entry[d]
        BY DEF IInv, TypeOK, AbandonedWrite
    <2> QED
        BY <1>2, <2>1 DEF IInv, AppendedIsLogged
<1>6. MemtableIsLogged'
    BY <1>2 DEF IInv, MemtableIsLogged, AbandonedWrite, memory
<1>7. RecoveryFollowsLog'
    BY DEF RecoveryFollowsLog, AbandonedWrite
<1>8. SnapshotAgrees' /\ TablesOrdered'
    BY DEF IInv, SnapshotAgrees, TablesOrdered, Serving, AbandonedWrite, memory, ghosts
<1>9. ReadsLatestUnlessDisturbed'
    BY DEF IInv, ReadsLatestUnlessDisturbed, Read, AbandonedWrite, memory, ghosts
<1> QED
    BY <1>3, <1>4, <1>5, <1>6, <1>7, <1>8, <1>9 DEF IInv

LEMMA ApplyWriteIInv ==
    ASSUME IInv, NEW c \in Client, ApplyWrite(c)
    PROVE  IInv'
<1> DEFINE k == entry[c].key
           v == entry[c].version
<1>1. /\ entry[c] \in Entry /\ entry[c].operation = "WRITE"
      /\ k \in Key /\ v \in Version
      /\ memtable \in Table /\ memtable' = PutIn(memtable, k, v)
    BY DEF IInv, TypeOK, ApplyWrite, Entry
<1>2. /\ entry[c] = [operation |-> "WRITE", key |-> k, version |-> v]
      /\ \E i \in DOMAIN log : log[i] = entry[c]
    BY <1>1 DEF IInv, AppendedIsLogged, ApplyWrite, Entry
<1>3. /\ latest' = [latest EXCEPT ![k] = v]
      /\ clean' = IF flushing = EmptyTable THEN clean \cup {k} ELSE clean \ {k}
      /\ status' = "up" /\ status = "up"
    BY DEF ApplyWrite
<1> HIDE DEF k, v
<1>4. /\ memtable' \in Table
      /\ DOMAIN memtable' = DOMAIN memtable \cup {k}
      /\ memtable'[k] = v
      /\ \A x \in DOMAIN memtable : x # k => memtable'[x] = memtable[x]
    <2>1. k \in Key /\ v \in Version /\ memtable \in Table
        BY <1>1
    <2>2. PutIn(memtable, k, v) \in Table
        BY <2>1, PutInTable
    <2>3. DOMAIN PutIn(memtable, k, v) = DOMAIN memtable \cup {k}
        BY <2>1, PutInTable
    <2>4. PutIn(memtable, k, v)[k] = v
        BY <2>1, PutInTable, ZenonT(60)
    <2>5. \A x \in DOMAIN memtable : x # k => PutIn(memtable, k, v)[x] = memtable[x]
        BY <2>1, PutInTable
    <2> QED
        BY <1>1, <2>2, <2>3, <2>4, <2>5
<1>5. TypeOK'
    <2>1. /\ entry' \in [Client -> Entry \cup {<<>>}]
          /\ pc' \in [Client -> {"idle", "appending", "appended", "abandoned"}]
          /\ \A d \in Client : pc'[d] # "idle" => entry'[d] \in Entry
        BY DEF IInv, TypeOK, ApplyWrite
    <2>2. latest' \in [Key -> Version \cup {Absent}] /\ clean' \subseteq Key
        BY <1>1, <1>3 DEF IInv, TypeOK
    <2>3. flushTasks' \in Nat
        BY DEF IInv, TypeOK, ApplyWrite
    <2> QED
        BY <1>4, <1>3, <2>1, <2>2, <2>3 DEF IInv, TypeOK, ApplyWrite, disk, bounds
<1>6. Idle'
    BY <1>3 DEF Idle, Serving
<1>7. AppendedIsLogged'
    BY DEF IInv, TypeOK, AppendedIsLogged, ApplyWrite, disk
<1>8. MemtableIsLogged'
    <2>1. log' = log
        BY DEF ApplyWrite, disk
    <2> QED
        BY <1>4, <1>2, <2>1 DEF IInv, MemtableIsLogged
<1>9. RecoveryFollowsLog'
    BY <1>3 DEF RecoveryFollowsLog
<1>10. SnapshotAgrees'
    <2>1. flushing' = flushing
        BY DEF ApplyWrite
    <2> QED
        BY <1>4, <1>3, <2>1 DEF IInv, SnapshotAgrees, Serving
<1>11. TablesOrdered' /\ sstables' = sstables
    BY DEF IInv, TablesOrdered, ApplyWrite, disk
<1>12. ReadsLatestUnlessDisturbed'
    <2> SUFFICES ASSUME NEW x \in clean' PROVE Read(x)' = latest'[x]
        BY DEF ReadsLatestUnlessDisturbed
    <2>1. Read(x)' = Lookup(memtable', sstables, x)
        BY <1>11 DEF Read
    <2>2. CASE x = k
        BY <1>1, <1>4, <1>3, <2>1, <2>2 DEF IInv, TypeOK, Lookup
    <2>3. CASE x # k
        <3>1. x \in clean /\ x \in Key /\ Read(x) = latest[x]
            BY <1>3, <2>3 DEF IInv, TypeOK, ReadsLatestUnlessDisturbed
        <3>2. latest'[x] = latest[x]
            BY <1>3, <2>3, <3>1 DEF IInv, TypeOK
        <3>3. Lookup(memtable', sstables, x) = Lookup(memtable, sstables, x)
            BY <1>4, <2>3 DEF Lookup
        <3> QED
            BY <2>1, <3>1, <3>2, <3>3 DEF Read
    <2> QED
        BY <2>2, <2>3
<1> QED
    BY <1>5, <1>6, <1>7, <1>8, <1>9, <1>10, <1>11, <1>12 DEF IInv

LEMMA ApplyDeleteIInv ==
    ASSUME IInv, NEW c \in Client, ApplyDelete(c)
    PROVE  IInv'
<1> DEFINE k == entry[c].key
<1>1. /\ entry[c] \in Entry /\ k \in Key
      /\ memtable \in Table /\ memtable' = DropFrom(memtable, k)
    BY DEF IInv, TypeOK, ApplyDelete, Entry
<1>2. /\ latest' = [latest EXCEPT ![k] = Absent]
      /\ clean' = IF Holding(sstables, k) # {} \/ k \in DOMAIN flushing
                  THEN clean \ {k} ELSE clean \cup {k}
      /\ status' = "up" /\ status = "up"
      /\ log' = log /\ sstables' = sstables /\ flushing' = flushing
    BY DEF ApplyDelete, disk
<1> HIDE DEF k
<1>3. /\ memtable' \in Table
      /\ DOMAIN memtable' = DOMAIN memtable \ {k}
      /\ \A x \in DOMAIN memtable \ {k} : memtable'[x] = memtable[x]
    <2>1. memtable \in Table /\ k \in Key
        BY <1>1
    <2>2. DropFrom(memtable, k) \in Table
        BY <2>1, DropFromTable
    <2>3. DOMAIN DropFrom(memtable, k) = DOMAIN memtable \ {k}
        BY <2>1, DropFromTable
    <2>4. \A x \in DOMAIN memtable \ {k} : DropFrom(memtable, k)[x] = memtable[x]
        BY <2>1, DropFromTable
    <2> QED
        BY <1>1, <2>2, <2>3, <2>4
<1>4. TypeOK'
    <2>1. /\ entry' \in [Client -> Entry \cup {<<>>}]
          /\ pc' \in [Client -> {"idle", "appending", "appended", "abandoned"}]
          /\ \A d \in Client : pc'[d] # "idle" => entry'[d] \in Entry
        BY DEF IInv, TypeOK, ApplyDelete
    <2>2. latest' \in [Key -> Version \cup {Absent}] /\ clean' \subseteq Key
        BY <1>1, <1>2 DEF IInv, TypeOK
    <2> QED
        BY <1>2, <1>3, <2>1, <2>2 DEF IInv, TypeOK, ApplyDelete, disk, bounds
<1>5. Idle'
    BY <1>2 DEF Idle, Serving
<1>6. AppendedIsLogged'
    BY DEF IInv, TypeOK, AppendedIsLogged, ApplyDelete, disk
<1>7. MemtableIsLogged'
    BY <1>2, <1>3 DEF IInv, MemtableIsLogged
<1>8. RecoveryFollowsLog'
    BY <1>2 DEF RecoveryFollowsLog
<1>9. SnapshotAgrees'
    BY <1>2, <1>3 DEF IInv, SnapshotAgrees, Serving
<1>10. TablesOrdered'
    BY <1>2 DEF IInv, TablesOrdered
<1>11. ReadsLatestUnlessDisturbed'
    <2> SUFFICES ASSUME NEW x \in clean' PROVE Read(x)' = latest'[x]
        BY DEF ReadsLatestUnlessDisturbed
    <2>1. Read(x)' = Lookup(memtable', sstables, x)
        BY <1>2 DEF Read
    <2>2. CASE x = k
        <3>1. Holding(sstables, k) = {}
            BY <1>2, <2>2
        <3> QED
            BY <1>1, <1>2, <1>3, <2>1, <2>2, <3>1 DEF IInv, TypeOK, Lookup
    <2>3. CASE x # k
        <3>1. x \in clean /\ x \in Key /\ Read(x) = latest[x]
            BY <1>2, <2>3 DEF IInv, TypeOK, ReadsLatestUnlessDisturbed
        <3>2. latest'[x] = latest[x]
            BY <1>2, <2>3, <3>1 DEF IInv, TypeOK
        <3>3. Lookup(memtable', sstables, x) = Lookup(memtable, sstables, x)
            BY <1>3, <2>3 DEF Lookup
        <3> QED
            BY <2>1, <3>1, <3>2, <3>3 DEF Read
    <2> QED
        BY <2>2, <2>3
<1> QED
    BY <1>4, <1>5, <1>6, <1>7, <1>8, <1>9, <1>10, <1>11 DEF IInv

LEMMA GroupCommitIInv ==
    ASSUME IInv, GroupCommit
    PROVE  IInv'
<1>1. TypeOK'
    BY DEF IInv, TypeOK, GroupCommit, memory, clients, bounds, ghosts
<1>2. Idle' /\ AppendedIsLogged'
    BY DEF IInv, Idle, Serving, AppendedIsLogged, GroupCommit, memory, clients
<1> QED
    BY <1>1, <1>2, TablesAlone DEF IInv, GroupCommit, memory, ghosts

LEMMA FlushBeginIInv ==
    ASSUME IInv, FlushBegin
    PROVE  IInv'
<1>1. TypeOK'
    BY DEF IInv, TypeOK, FlushBegin, disk, clients, bounds, ghosts
<1>2. Idle' /\ AppendedIsLogged'
    BY DEF IInv, Idle, Serving, AppendedIsLogged, FlushBegin, disk, clients
<1>3. MemtableIsLogged'
    BY DEF IInv, MemtableIsLogged, FlushBegin, disk
<1>4. RecoveryFollowsLog'
    BY DEF RecoveryFollowsLog, FlushBegin
<1>5. SnapshotAgrees'
    BY DEF SnapshotAgrees, FlushBegin
<1>6. TablesOrdered'
    BY DEF IInv, TablesOrdered, FlushBegin, disk
<1>7. ReadsLatestUnlessDisturbed'
    BY DEF IInv, ReadsLatestUnlessDisturbed, Read, FlushBegin, disk, ghosts
<1> QED
    BY <1>1, <1>2, <1>3, <1>4, <1>5, <1>6, <1>7 DEF IInv

LEMMA FlushEndIInv ==
    ASSUME IInv, FlushEnd
    PROVE  IInv'
<1>1. /\ sstables \in Seq(Table) /\ flushing \in Table /\ memtable \in Table
      /\ sstables' = Append(sstables, flushing)
      /\ memtable' = EmptyTable /\ flushing' = EmptyTable
      /\ status' = status /\ Serving /\ flushing # EmptyTable
      /\ clean' = clean /\ latest' = latest /\ clean \subseteq Key
    BY DEF IInv, TypeOK, FlushEnd, Serving, ghosts
<1>2. TypeOK'
    <2>1. sstables' \in Seq(Table) /\ memtable' \in Table /\ flushing' \in Table
        BY <1>1, EmptyTableType
    <2> QED
        BY <2>1 DEF IInv, TypeOK, FlushEnd, clients, bounds, ghosts
<1>3. Idle' /\ AppendedIsLogged'
    BY <1>1 DEF IInv, Idle, Serving, AppendedIsLogged, FlushEnd, clients
<1>4. MemtableIsLogged'
    BY <1>1, EmptyTableType DEF MemtableIsLogged
<1>5. RecoveryFollowsLog'
    BY <1>1 DEF RecoveryFollowsLog, Serving
<1>6. SnapshotAgrees'
    BY <1>1 DEF SnapshotAgrees
<1>7. TablesOrdered'
    BY <1>1, LookupAppend DEF IInv, TablesOrdered
<1>8. ReadsLatestUnlessDisturbed'
    <2> SUFFICES ASSUME NEW x \in clean PROVE Read(x)' = latest[x]
        BY <1>1 DEF ReadsLatestUnlessDisturbed
    <2>1. x \in Key /\ HasNewest(sstables, x)
        BY <1>1 DEF IInv, TablesOrdered
    <2>2. Read(x)' = IF x \in DOMAIN flushing THEN flushing[x]
                     ELSE Lookup(EmptyTable, sstables, x)
        <3>1. Read(x)' = Lookup(EmptyTable, Append(sstables, flushing), x)
            BY <1>1 DEF Read
        <3> QED
            BY <1>1, <2>1, <3>1, LookupAppend
    <2>3. Read(x) = latest[x]
        BY <1>1 DEF IInv, ReadsLatestUnlessDisturbed, Serving
    <2>4. Read(x) = IF x \in DOMAIN memtable THEN memtable[x]
                    ELSE Lookup(EmptyTable, sstables, x)
        BY <1>1, LookupFront DEF Read
    <2>5. /\ x \in DOMAIN flushing <=> x \in DOMAIN memtable
          /\ x \in DOMAIN flushing => flushing[x] = memtable[x]
        BY <1>1 DEF IInv, SnapshotAgrees
    <2> QED
        BY <2>2, <2>3, <2>4, <2>5
<1> QED
    BY <1>2, <1>3, <1>4, <1>5, <1>6, <1>7, <1>8 DEF IInv

LEMMA StopBeginIInv ==
    ASSUME IInv, StopBegin
    PROVE  IInv'
<1>1. TypeOK'
    BY DEF IInv, TypeOK, StopBegin, disk, clients, ghosts
<1>2. Idle' /\ AppendedIsLogged' /\ SnapshotAgrees'
    BY DEF IInv, Idle, Serving, AppendedIsLogged, SnapshotAgrees, StopBegin, disk, clients, ghosts
<1>3. MemtableIsLogged' /\ RecoveryFollowsLog' /\ TablesOrdered'
    BY DEF IInv, MemtableIsLogged, RecoveryFollowsLog, TablesOrdered, StopBegin, disk
<1>4. ReadsLatestUnlessDisturbed'
    BY DEF IInv, ReadsLatestUnlessDisturbed, Read, StopBegin, disk, ghosts
<1> QED
    BY <1>1, <1>2, <1>3, <1>4 DEF IInv

\* The end of a process, whatever part of the log and of the tables it leaves.
LEMMA ExitIInv ==
    ASSUME IInv, NEW S \in 0 .. Len(log), ExitWith(S),
           UNCHANGED <<calls, stops, latest, clean>>, crashes' \in 0 .. MaxCrashes,
           orderly' \subseteq orderly
    PROVE  IInv'
<1>1. sstables' = sstables \/ sstables' = Append(sstables, flushing)
    BY DEF ExitWith, Exit
<1>2. /\ status' = "down" /\ replayed' = 0 /\ log' = SubSeq(log, 1, S) /\ flushed' = S
      /\ memtable' = EmptyTable /\ flushing' = EmptyTable
      /\ flushTasks' = 0 /\ stopFlushes' = FALSE /\ partial' \in BOOLEAN
      /\ pc' = [c \in Client |-> "idle"] /\ entry' = [c \in Client |-> <<>>]
    BY DEF ExitWith, Exit, IInv, TypeOK
<1>3. log' \in Seq(Entry) /\ Len(log') = S
    BY <1>2 DEF IInv, TypeOK
<1>4. TypeOK'
    <2>1. sstables' \in Seq(Table) /\ memtable' \in Table /\ flushing' \in Table
        <3>1. sstables \in Seq(Table) /\ flushing \in Table
            BY DEF IInv, TypeOK
        <3>2. Append(sstables, flushing) \in Seq(Table)
            BY <3>1, AppendProperties
        <3> QED
            BY <1>1, <1>2, <3>1, <3>2, EmptyTableType
    <2>2. flushed' \in 0 .. Len(log') /\ replayed' \in 0 .. Len(log')
        BY <1>2, <1>3
    <2>3. /\ entry' \in [Client -> Entry \cup {<<>>}]
          /\ pc' \in [Client -> {"idle", "appending", "appended", "abandoned"}]
          /\ \A c \in Client : pc'[c] # "idle" => entry'[c] \in Entry
        BY <1>2
    <2> QED
        BY <1>2, <1>3, <2>1, <2>2, <2>3 DEF IInv, TypeOK
<1>5. Idle' /\ AppendedIsLogged' /\ SnapshotAgrees' /\ RecoveryFollowsLog'
    BY <1>2 DEF Idle, Serving, AppendedIsLogged, SnapshotAgrees, RecoveryFollowsLog
<1>6. MemtableIsLogged'
    BY <1>2, EmptyTableType DEF MemtableIsLogged
<1>7. TablesOrdered'
    <2> SUFFICES ASSUME NEW k \in Key PROVE HasNewest(sstables', k)
        BY DEF TablesOrdered
    <2>1. HasNewest(sstables, k) /\ sstables \in Seq(Table) /\ flushing \in Table
        BY DEF IInv, TypeOK, TablesOrdered
    <2>2. HasNewest(Append(sstables, flushing), k)
        BY <2>1, LookupAppend
    <2> QED
        BY <1>1, <1>2, <2>1, <2>2
<1>8. ReadsLatestUnlessDisturbed'
    BY <1>2 DEF ReadsLatestUnlessDisturbed
<1> QED
    BY <1>4, <1>5, <1>6, <1>7, <1>8 DEF IInv

LEMMA StopEndIInv ==
    ASSUME IInv, StopEnd
    PROVE  IInv'
<1>1. Len(log) \in 0 .. Len(log)
    BY DEF IInv, TypeOK
<1>2. ExitWith(Len(log)) /\ UNCHANGED <<calls, stops, latest, clean, orderly>>
    BY DEF StopEnd, bounds, ghosts
<1>3. crashes' \in 0 .. MaxCrashes
    BY DEF IInv, TypeOK, StopEnd, bounds
<1> QED
    BY <1>1, <1>2, <1>3, ExitIInv

LEMMA CrashIInv ==
    ASSUME IInv, Crash
    PROVE  IInv'
<1>1. PICK S \in flushed .. Len(log) : ExitWith(S)
    BY DEF Crash
<1>2. S \in 0 .. Len(log)
    BY <1>1 DEF IInv, TypeOK
<1>3. UNCHANGED <<calls, stops, latest, clean>> /\ crashes' \in 0 .. MaxCrashes
    BY DEF IInv, TypeOK, Crash
<1>4. orderly' \subseteq orderly
    BY DEF Crash
<1> QED
    BY <1>1, <1>2, <1>3, <1>4, ExitIInv

LEMMA StartBeginIInv ==
    ASSUME IInv, StartBegin
    PROVE  IInv'
<1>1. TypeOK'
    BY DEF IInv, TypeOK, StartBegin, memory, disk, clients, bounds, ghosts
<1>2. Idle' /\ AppendedIsLogged' /\ SnapshotAgrees'
    BY DEF IInv, Idle, Serving, AppendedIsLogged, SnapshotAgrees, StartBegin,
           memory, disk, clients, ghosts
<1>3. MemtableIsLogged' /\ TablesOrdered' /\ ReadsLatestUnlessDisturbed'
    BY DEF IInv, MemtableIsLogged, TablesOrdered, ReadsLatestUnlessDisturbed,
           StartBegin, memory, disk
<1>4. RecoveryFollowsLog'
    <2>1. replayed' = 0 /\ memtable' = EmptyTable
        BY DEF IInv, Idle, StartBegin, memory
    <2>2. \A k \in Key : Positions(k, replayed)' = {}
        BY <2>1 DEF Positions
    <2> QED
        BY <2>1, <2>2, EmptyTableType DEF RecoveryFollowsLog
<1> QED
    BY <1>1, <1>2, <1>3, <1>4 DEF IInv

\* A replayed entry changes its own key's place in the memtable, and no other.
LEMMA ReplayTable ==
    ASSUME NEW t \in Table, NEW e \in Entry
    PROVE  /\ Replay(t, e) \in Table
           /\ \A x \in Key : x # e.key =>
                  /\ x \in DOMAIN Replay(t, e) <=> x \in DOMAIN t
                  /\ x \in DOMAIN t => Replay(t, e)[x] = t[x]
           /\ e.operation = "WRITE" =>
                  e.key \in DOMAIN Replay(t, e) /\ Replay(t, e)[e.key] = e.version
           /\ e.operation = "DELETE" => e.key \notin DOMAIN Replay(t, e)
<1> DEFINE k == e.key
           v == e.version
<1>1. k \in Key /\ v \in Version /\ e.operation \in {"WRITE", "DELETE"}
    BY DEF Entry
<1>2. e.operation = "WRITE" => Replay(t, e) = PutIn(t, k, v)
    BY DEF Replay
<1>3. e.operation = "DELETE" => Replay(t, e) = DropFrom(t, k)
    BY DEF Replay
<1> HIDE DEF k, v
<1>4. CASE e.operation = "WRITE"
    <2>1. PutIn(t, k, v) \in Table
        BY <1>1, PutInTable
    <2>2. DOMAIN PutIn(t, k, v) = DOMAIN t \cup {k}
        BY <1>1, PutInTable
    <2>3. PutIn(t, k, v)[k] = v
        BY <1>1, PutInTable, ZenonT(60)
    <2>4. \A x \in DOMAIN t : x # k => PutIn(t, k, v)[x] = t[x]
        BY <1>1, PutInTable, ZenonT(60)
    <2> QED
        BY <1>2, <1>4, <2>1, <2>2, <2>3, <2>4 DEF k, v
<1>5. CASE e.operation = "DELETE"
    <2>1. DropFrom(t, k) \in Table
        BY <1>1, DropFromTable
    <2>2. DOMAIN DropFrom(t, k) = DOMAIN t \ {k}
        BY <1>1, DropFromTable
    <2>3. \A x \in DOMAIN t \ {k} : DropFrom(t, k)[x] = t[x]
        BY <1>1, DropFromTable
    <2> QED
        BY <1>3, <1>5, <2>1, <2>2, <2>3 DEF k
<1> QED
    BY <1>1, <1>4, <1>5

LEMMA ReplayEntryIInv ==
    ASSUME IInv, ReplayEntry
    PROVE  IInv'
<1> DEFINE n == replayed + 1
           e == log[n]
<1>1. /\ status = "starting" /\ status' = "starting"
      /\ replayed' = n /\ memtable' = Replay(memtable, e)
      /\ log' = log /\ sstables' = sstables /\ flushing' = flushing
      /\ pc' = pc /\ entry' = entry
    BY DEF ReplayEntry, disk, clients
<1>2. /\ log \in Seq(Entry) /\ replayed \in Nat /\ n \in 1 .. Len(log) /\ n \in DOMAIN log
      /\ memtable \in Table
    BY DEF IInv, TypeOK, ReplayEntry
<1>3. e \in Entry
    BY <1>2
<1> HIDE DEF e
<1>4. /\ e.key \in Key /\ e.version \in Version /\ e.operation \in {"WRITE", "DELETE"}
      /\ e = [operation |-> e.operation, key |-> e.key, version |-> e.version]
    BY <1>3 DEF Entry
<1>5. /\ memtable' \in Table
      /\ \A k \in Key : k # e.key =>
             /\ k \in DOMAIN memtable' <=> k \in DOMAIN memtable
             /\ k \in DOMAIN memtable => memtable'[k] = memtable[k]
      /\ e.operation = "WRITE" => e.key \in DOMAIN memtable' /\ memtable'[e.key] = e.version
      /\ e.operation = "DELETE" => e.key \notin DOMAIN memtable'
    <2>1. memtable' = Replay(memtable, e)
        BY <1>1
    <2> QED
        BY <1>2, <1>3, <2>1, ReplayTable
<1>6. TypeOK'
    BY <1>1, <1>2, <1>5 DEF IInv, TypeOK, ReplayEntry, disk, bounds, ghosts
<1>7. Idle' /\ AppendedIsLogged' /\ SnapshotAgrees'
    BY <1>1 DEF IInv, Idle, Serving, AppendedIsLogged, SnapshotAgrees
<1>8. MemtableIsLogged'
    <2> SUFFICES ASSUME NEW k \in DOMAIN memtable'
                 PROVE  \E i \in DOMAIN log :
                            log[i] = [operation |-> "WRITE", key |-> k, version |-> memtable'[k]]
        BY <1>1 DEF MemtableIsLogged
    <2>1. k \in Key
        BY <1>5, TableType
    <2>2. CASE k = e.key
        <3>1. e.operation = "WRITE" /\ memtable'[k] = e.version
            BY <1>4, <1>5, <2>2
        <3> QED
            BY <1>2, <1>4, <2>2, <3>1 DEF e
    <2>3. CASE k # e.key
        BY <1>5, <2>1, <2>3 DEF IInv, MemtableIsLogged
    <2> QED
        BY <2>2, <2>3
<1>9. RecoveryFollowsLog'
    <2> SUFFICES ASSUME NEW k \in Key
                 PROVE  LET I == Positions(k, n)
                        IN  IF I # {} /\ log[Newest(I)].operation = "WRITE"
                            THEN k \in DOMAIN memtable' /\ memtable'[k] = log[Newest(I)].version
                            ELSE k \notin DOMAIN memtable'
        BY <1>1 DEF RecoveryFollowsLog, Positions
    <2>1. CASE k = e.key
        <3>1. n \in Positions(k, n) /\ \A i \in Positions(k, n) : i <= n /\ i \in Nat
            BY <1>2, <2>1 DEF Positions, e
        <3>2. Newest(Positions(k, n)) = n
            BY <1>2, <3>1 DEF Newest
        <3> QED
            BY <1>4, <1>5, <2>1, <3>1, <3>2 DEF e
    <2>2. CASE k # e.key
        <3>1. Positions(k, n) = Positions(k, replayed)
            BY <1>2, <2>2 DEF Positions, e
        <3> QED
            BY <1>1, <1>5, <2>2, <3>1 DEF IInv, RecoveryFollowsLog
    <2> QED
        BY <2>1, <2>2
<1>10. TablesOrdered' /\ ReadsLatestUnlessDisturbed'
    BY <1>1 DEF IInv, TablesOrdered, ReadsLatestUnlessDisturbed
<1> QED
    BY <1>6, <1>7, <1>8, <1>9, <1>10 DEF IInv

LEMMA StartEndIInv ==
    ASSUME IInv, StartEnd
    PROVE  IInv'
<1>1. /\ UNCHANGED <<log, memtable, sstables, flushing, flushTasks, stopFlushes>>
      /\ UNCHANGED <<flushed, partial, pc, entry, calls, crashes, stops>>
      /\ status' \in {"up", "broken"} /\ replayed' = 0
      /\ latest' = [k \in Key |-> Read(k)] /\ clean' = Key
      /\ status = "starting"
    BY DEF StartEnd, memory, disk, clients, bounds
<1>2. flushing = EmptyTable
    BY <1>1 DEF IInv, Idle, Serving
<1>3. \A k \in Key : Read(k) \in Version \cup {Absent}
    <2> SUFFICES ASSUME NEW k \in Key PROVE Read(k) \in Version \cup {Absent}
        OBVIOUS
    <2>1. memtable \in Table /\ sstables \in Seq(Table) /\ HasNewest(sstables, k)
        BY DEF IInv, TypeOK, TablesOrdered
    <2>2. k \in DOMAIN memtable => memtable[k] \in Version
        BY <2>1, TableType
    <2>3. ASSUME Holding(sstables, k) # {}
          PROVE  sstables[Newest(Holding(sstables, k))][k] \in Version
        <3> DEFINE i == Newest(Holding(sstables, k))
        <3>1. i \in Holding(sstables, k)
            BY <2>1, <2>3 DEF HasNewest, Newest
        <3>2. k \in DOMAIN sstables[i] /\ sstables[i] \in Table
            BY <2>1, <3>1 DEF Holding
        <3> QED
            BY <3>2, TableType
    <2> QED
        BY <2>2, <2>3 DEF Read, Lookup
<1>4. TypeOK'
    <2>1. latest' \in [Key -> Version \cup {Absent}] /\ clean' \subseteq Key
        BY <1>1, <1>3
    <2>2. replayed' \in 0 .. Len(log')
        BY <1>1 DEF IInv, TypeOK
    <2>3. orderly' \subseteq Key
        BY DEF IInv, TypeOK, StartEnd
    <2> QED
        BY <1>1, <2>1, <2>2, <2>3 DEF IInv, TypeOK
<1>5. Idle' /\ AppendedIsLogged' /\ SnapshotAgrees'
    BY <1>1, <1>2 DEF IInv, Idle, Serving, AppendedIsLogged, SnapshotAgrees
<1>6. MemtableIsLogged' /\ RecoveryFollowsLog' /\ TablesOrdered'
    BY <1>1 DEF IInv, MemtableIsLogged, RecoveryFollowsLog, TablesOrdered
<1>7. ReadsLatestUnlessDisturbed'
    <2>1. \A k \in Key : Read(k)' = Read(k)
        BY <1>1 DEF Read
    <2> QED
        BY <1>1, <2>1 DEF ReadsLatestUnlessDisturbed
<1> QED
    BY <1>4, <1>5, <1>6, <1>7 DEF IInv

LEMMA NextIInv ==
    ASSUME IInv, [Next]_vars
    PROVE  IInv'
<1>1. CASE UNCHANGED vars
    <2>1. TypeOK' /\ Idle' /\ AppendedIsLogged'
        BY <1>1 DEF IInv, TypeOK, Idle, Serving, AppendedIsLogged,
                    vars, memory, disk, clients, bounds, ghosts
    <2> QED
        BY <1>1, <2>1, TablesAlone DEF IInv, vars, memory, disk, ghosts
<1>2. ASSUME NEW c \in Client, NEW k \in Key, Call(c, "WRITE", k) \/ Call(c, "DELETE", k)
      PROVE  IInv'
    BY <1>2, CallIInv
<1>3. ASSUME NEW c \in Client, WalWrite(c) \/ ApplyWrite(c) \/ ApplyDelete(c)
      PROVE  IInv'
    BY <1>3, WalWriteIInv, ApplyWriteIInv, ApplyDeleteIInv
<1>7. ASSUME NEW c \in Client, Cancel(c) \/ AbandonedWrite(c)
      PROVE  IInv'
    BY <1>7, CancelIInv, AbandonedWriteIInv
<1>4. CASE GroupCommit \/ FlushBegin \/ FlushEnd
    BY <1>4, GroupCommitIInv, FlushBeginIInv, FlushEndIInv
<1>5. CASE StopBegin \/ StopEnd \/ Crash
    BY <1>5, StopBeginIInv, StopEndIInv, CrashIInv
<1>6. CASE StartBegin \/ ReplayEntry \/ StartEnd
    BY <1>6, StartBeginIInv, ReplayEntryIInv, StartEndIInv
<1> QED
    BY <1>1, <1>2, <1>3, <1>4, <1>5, <1>6, <1>7 DEF Next
-----------------------------------------------------------------------------
\* The inductive invariant holds throughout.
THEOREM Invariance == Spec => []IInv
<1>1. Init => IInv
    BY InitIInv
<1>2. IInv /\ [Next]_vars => IInv'
    BY NextIInv
<1> QED
    BY <1>1, <1>2, PTL DEF Spec

\* Every table maps keys to versions, every counter stays within its bound.
THEOREM TypeCorrect == Spec => []TypeOK
<1>1. IInv => TypeOK
    BY DEF IInv
<1> QED
    BY <1>1, Invariance, PTL

\* Nothing is in the memtable before it is in the log.
THEOREM LoggedFirst == Spec => []MemtableIsLogged
<1>1. IInv => MemtableIsLogged
    BY DEF IInv
<1> QED
    BY <1>1, Invariance, PTL

\* After any crash or stop, recovery leaves each key as its last logged entry did.
THEOREM RecoveryIsFaithful == Spec => []RecoveryFollowsLog
<1>1. IInv => RecoveryFollowsLog
    BY DEF IInv
<1> QED
    BY <1>1, Invariance, PTL

\* Flushes, stops and calls on other keys never change what a clean key reads as.
THEOREM UndisturbedReads == Spec => []ReadsLatestUnlessDisturbed
<1>1. IInv => ReadsLatestUnlessDisturbed
    BY DEF IInv
<1> QED
    BY <1>1, Invariance, PTL
-----------------------------------------------------------------------------
(* The engine implements KeyValueStore.                                    *)

\* k's entries in the log L, and the last of them.
Places(L, k) == {i \in 1 .. Len(L) : L[i].key = k}
LastEntry(L, k) == L[Newest(Places(L, k))]

\* What a process that starts with the log L and the tables T reads for k.
Recovered(L, T, k) ==
    IF Places(L, k) # {} /\ LastEntry(L, k).operation = "WRITE"
    THEN LastEntry(L, k).version
    ELSE Lookup(EmptyTable, T, k)

\* c's call on k is in the log and has not returned.
Logged(c, k) == pc[c] = "appended" /\ entry[c].key = k

OneAtATime ==
    \A c, d \in Client, k \in orderly :
        Calling(c, k) /\ Calling(d, k) => c = d /\ pc[c] # "abandoned"

CallsWhileUp == \A c \in Client : pc[c] # "idle" => status = "up"

FilesHoldLog == ~Serving => flushed = Len(log)

\* A call that has not returned is the last of its key in the log, and before and
\* after it the log and the tables say what the key was left as.
CallIsLast ==
    \A c \in Client, k \in orderly :
        Logged(c, k) => Places(log, k) # {} /\ LastEntry(log, k) = entry[c]

RestartsReadTheSame ==
    \A k \in orderly :
        \/ \E c \in Client : Logged(c, k)
        \/ latest[k] = Recovered(log, sstables, k)

OrderlyInv ==
    /\ orderly \subseteq clean
    /\ OneAtATime
    /\ CallsWhileUp
    /\ FilesHoldLog
    /\ CallIsLast
    /\ RestartsReadTheSame

\* A non-empty set of positions has a newest.
LEMMA NewestIsLast ==
    ASSUME NEW n \in Nat, NEW I \in SUBSET (1 .. n), I # {}
    PROVE  Newest(I) \in I /\ \A j \in I : j <= Newest(I)
<1> DEFINE T == {n - i : i \in I}
<1>1. T \in SUBSET Nat /\ T # {}
    <2>1. \A i \in I : i \in 1 .. n /\ n - i \in Nat
        OBVIOUS
    <2> QED
        BY <2>1
<1> HIDE DEF T
<1>2. PICK x \in T : \A y \in T : x <= y
    BY <1>1, Least
<1>3. PICK i \in I : x = n - i
    BY DEF T
<1>4. \A j \in I : n - j \in T
    BY DEF T
<1>5. \A j \in I : j <= i
    BY <1>2, <1>3, <1>4
<1> QED
    BY <1>5 DEF Newest

\* One entry more is the last of its own key, and changes nothing for the others.
LEMMA PlacesAppend ==
    ASSUME NEW L \in Seq(Entry), NEW e \in Entry, NEW k
    PROVE  /\ e.key = k => Places(Append(L, e), k) # {} /\ LastEntry(Append(L, e), k) = e
           /\ e.key # k => /\ Places(Append(L, e), k) = Places(L, k)
                           /\ Places(L, k) # {} => LastEntry(Append(L, e), k) = LastEntry(L, k)
<1> DEFINE M == Append(L, e)
           n == Len(L)
<1>1. /\ n \in Nat /\ Len(M) = n + 1 /\ M[n + 1] = e
      /\ \A i \in 1 .. n : M[i] = L[i]
    BY AppendProperties
<1> HIDE DEF M
<1>2. CASE e.key = k
    <2>1. n + 1 \in Places(M, k) /\ \A j \in Places(M, k) : j \in Nat /\ j <= n + 1
        BY <1>1, <1>2 DEF Places
    <2>2. Newest(Places(M, k)) = n + 1
        BY <1>1, <2>1 DEF Newest
    <2> QED
        BY <1>1, <1>2, <2>1, <2>2 DEF LastEntry, M
<1>3. CASE e.key # k
    <2>1. Places(M, k) = Places(L, k)
        BY <1>1, <1>3 DEF Places
    <2>2. Places(L, k) \in SUBSET (1 .. n)
        BY DEF Places
    <2>3. Places(L, k) # {} => Newest(Places(L, k)) \in 1 .. n
        BY <1>1, <2>2, NewestIsLast
    <2> QED
        BY <1>1, <1>3, <2>1, <2>3 DEF LastEntry, M
<1> QED
    BY <1>2, <1>3

\* Cutting off other keys' entries changes nothing for k.
LEMMA PlacesPrefix ==
    ASSUME NEW L \in Seq(Entry), NEW S \in 0 .. Len(L), NEW k,
           \A i \in S + 1 .. Len(L) : L[i].key # k
    PROVE  /\ Places(SubSeq(L, 1, S), k) = Places(L, k)
           /\ Places(L, k) # {} => LastEntry(SubSeq(L, 1, S), k) = LastEntry(L, k)
<1> DEFINE M == SubSeq(L, 1, S)
           n == Len(L)
<1>1. n \in Nat /\ S \in Nat /\ Len(M) = S /\ \A i \in 1 .. S : M[i] = L[i]
    BY SubSeqProperties
<1> HIDE DEF M
<1>2. Places(M, k) = Places(L, k)
    BY <1>1 DEF Places
<1>3. Places(M, k) \in SUBSET (1 .. S)
    BY <1>1 DEF Places
<1>4. Places(M, k) # {} => Newest(Places(M, k)) \in 1 .. S
    BY <1>1, <1>3, NewestIsLast
<1> QED
    BY <1>1, <1>2, <1>4 DEF LastEntry, M

\* A table that says the same of k as the log and the tables before it.
LEMMA RecoveredTable ==
    ASSUME NEW L, NEW T \in Seq(Table), NEW t \in Table, NEW k, HasNewest(T, k),
           k \in DOMAIN t => t[k] = Recovered(L, T, k)
    PROVE  Recovered(L, Append(T, t), k) = Recovered(L, T, k)
BY LookupAppend DEF Recovered

\* The snapshot of a flush has what the last call left of an undisturbed key.
LEMMA SnapshotIsLatest ==
    ASSUME IInv, flushing # EmptyTable, NEW k \in clean, k \in DOMAIN flushing
    PROVE  flushing[k] = latest[k]
<1>1. Serving
    BY DEF IInv, Idle
<1>2. k \in DOMAIN memtable /\ flushing[k] = memtable[k]
    BY <1>1 DEF IInv, SnapshotAgrees
<1>3. Read(k) = latest[k]
    BY <1>1 DEF IInv, ReadsLatestUnlessDisturbed, Serving
<1> QED
    BY <1>2, <1>3 DEF Read, Lookup

\* What is the same when the log and the tables are.
LEMMA RecoveredSame ==
    ASSUME log' = log, sstables' = sstables, NEW k
    PROVE  /\ Places(log', k) = Places(log, k) /\ LastEntry(log', k) = LastEntry(log, k)
           /\ Recovered(log', sstables', k) = Recovered(log, sstables, k)
OBVIOUS

LEMMA InitOrderly == Init => OrderlyInv
<1> SUFFICES ASSUME Init PROVE OrderlyInv
    OBVIOUS
<1>1. /\ clean = Key /\ orderly = Key /\ log = <<>> /\ sstables = <<>> /\ flushed = 0
      /\ \A c \in Client : pc[c] = "idle"
      /\ \A k \in Key : latest[k] = Absent
    BY DEF Init
<1>2. ASSUME NEW k PROVE Recovered(log, sstables, k) = Absent
    <2>1. Places(log, k) = {} /\ Holding(sstables, k) = {}
        BY <1>1 DEF Places, Holding
    <2> QED
        BY <2>1, EmptyTableType DEF Recovered, Lookup
<1> QED
    BY <1>1, <1>2 DEF OrderlyInv, OneAtATime, CallsWhileUp, FilesHoldLog, CallIsLast,
                      RestartsReadTheSame, Calling, Logged

\* A call beside another one on its key takes the key out.
LEMMA CallOrderly ==
    ASSUME IInv, OrderlyInv, NEW c \in Client, NEW op \in {"WRITE", "DELETE"}, NEW k \in Key,
           Call(c, op, k)
    PROVE  OrderlyInv'
<1>1. /\ log' = log /\ sstables' = sstables /\ flushed' = flushed /\ latest' = latest /\ clean' = clean
      /\ status = "up" /\ status' = "up" /\ pc[c] = "idle"
      /\ orderly' = IF \E d \in Client : Calling(d, k) THEN orderly \ {k} ELSE orderly
    BY DEF Call, disk
<1>2. /\ pc'[c] = "appending" /\ entry'[c].key = k
      /\ \A d \in Client : d # c => pc'[d] = pc[d] /\ entry'[d] = entry[d]
    BY DEF Call, IInv, TypeOK
<1>3. OneAtATime'
    <2> SUFFICES ASSUME NEW d \in Client, NEW f \in Client, NEW j \in orderly',
                        Calling(d, j)', Calling(f, j)'
                 PROVE  d = f /\ pc'[d] # "abandoned"
        BY DEF OneAtATime
    <2>1. \A g \in Client : g # c => Calling(g, j)' = Calling(g, j)
        BY <1>2 DEF Calling
    <2>2. Calling(c, j)' => j = k
        BY <1>2 DEF Calling
    <2>3. CASE d = c \/ f = c
        BY <1>1, <1>2, <2>1, <2>2, <2>3
    <2>4. CASE d # c /\ f # c
        BY <1>1, <1>2, <2>1, <2>4 DEF OrderlyInv, OneAtATime
    <2> QED
        BY <2>3, <2>4
<1>4. \A d \in Client, j \in orderly' : Logged(d, j)' <=> Logged(d, j)
    BY <1>1, <1>2 DEF Logged
<1>5. CallIsLast'
    <2>1. \A d \in Client, j \in orderly' : Logged(d, j)' => entry'[d] = entry[d]
        BY <1>2 DEF Logged
    <2> QED
        BY <1>1, <1>4, <2>1, RecoveredSame DEF OrderlyInv, CallIsLast
<1>6. RestartsReadTheSame'
    BY <1>1, <1>4, RecoveredSame DEF OrderlyInv, RestartsReadTheSame
<1>7. CallsWhileUp' /\ FilesHoldLog' /\ orderly' \subseteq clean'
    BY <1>1 DEF OrderlyInv, CallsWhileUp, FilesHoldLog, Serving
<1> QED
    BY <1>3, <1>5, <1>6, <1>7 DEF OrderlyInv

\* The entry is the last of its key, and of no other key anything changes.
LEMMA WalWriteOrderly ==
    ASSUME IInv, OrderlyInv, NEW c \in Client, WalWrite(c)
    PROVE  OrderlyInv'
<1> DEFINE e == entry[c]
<1>1. /\ status = "up" /\ status' = "up" /\ pc[c] = "appending" /\ entry' = entry
      /\ log' = Append(log, e) /\ sstables' = sstables
      /\ latest' = latest /\ clean' = clean /\ orderly' = orderly
    BY DEF WalWrite, memory, ghosts
<1>2. /\ pc'[c] = "appended" /\ \A d \in Client : d # c => pc'[d] = pc[d]
      /\ e \in Entry /\ log \in Seq(Entry)
    BY DEF WalWrite, IInv, TypeOK
<1> HIDE DEF e
<1>3. /\ \A k : e.key = k => Places(log', k) # {} /\ LastEntry(log', k) = e
      /\ \A k : e.key # k => /\ Places(log', k) = Places(log, k)
                             /\ Places(log, k) # {} => LastEntry(log', k) = LastEntry(log, k)
    BY <1>1, <1>2, PlacesAppend
<1>4. OneAtATime'
    <2>1. \A d \in Client, k \in orderly : Calling(d, k)' <=> Calling(d, k)
        BY <1>1, <1>2 DEF Calling
    <2> QED
        BY <1>1, <1>2, <2>1 DEF OrderlyInv, OneAtATime
<1>5. CallIsLast'
    <2> SUFFICES ASSUME NEW d \in Client, NEW k \in orderly, Logged(d, k)'
                 PROVE  Places(log', k) # {} /\ LastEntry(log', k) = entry[d]
        BY <1>1 DEF CallIsLast
    <2>1. CASE d = c
        BY <1>1, <1>3, <2>1 DEF Logged, e
    <2>2. CASE d # c
        <3>1. Calling(d, k) /\ Logged(d, k)
            BY <1>1, <1>2, <2>2 DEF Calling, Logged
        <3>2. ~Calling(c, k)
            BY <2>2, <3>1 DEF OrderlyInv, OneAtATime
        <3>3. e.key # k
            BY <1>1, <3>2 DEF Calling, e
        <3> QED
            BY <1>3, <3>1, <3>3 DEF OrderlyInv, CallIsLast
    <2> QED
        BY <2>1, <2>2
<1>6. RestartsReadTheSame'
    <2> SUFFICES ASSUME NEW k \in orderly, ~\E d \in Client : Logged(d, k)'
                 PROVE  latest[k] = Recovered(log', sstables, k)
        BY <1>1 DEF RestartsReadTheSame
    <2>1. e.key # k
        BY <1>1, <1>2 DEF Logged, e
    <2>2. ~\E d \in Client : Logged(d, k)
        BY <1>1, <1>2 DEF Logged
    <2>3. latest[k] = Recovered(log, sstables, k)
        BY <2>2 DEF OrderlyInv, RestartsReadTheSame
    <2> QED
        BY <1>3, <2>1, <2>3 DEF Recovered
<1>7. CallsWhileUp' /\ FilesHoldLog' /\ orderly' \subseteq clean'
    BY <1>1 DEF OrderlyInv, CallsWhileUp, FilesHoldLog, Serving
<1> QED
    BY <1>4, <1>5, <1>6, <1>7 DEF OrderlyInv

\* The call returns: its entry is its key's last, or the tables are silent.
LEMMA ApplyOrderly ==
    ASSUME IInv, OrderlyInv, NEW c \in Client, ApplyWrite(c) \/ ApplyDelete(c)
    PROVE  OrderlyInv'
<1> DEFINE e == entry[c]
           k == e.key
<1>1. /\ status = "up" /\ status' = "up" /\ pc[c] = "appended"
      /\ log' = log /\ sstables' = sstables
    BY DEF ApplyWrite, ApplyDelete, disk
<1>2. /\ pc'[c] = "idle" /\ \A d \in Client : d # c => pc'[d] = pc[d] /\ entry'[d] = entry[d]
      /\ e \in Entry
    BY DEF ApplyWrite, ApplyDelete, IInv, TypeOK
<1>3. /\ orderly' \subseteq orderly /\ orderly \ {k} \subseteq orderly'
      /\ clean \ {k} \subseteq clean' /\ (k \in orderly' => k \in clean')
    BY DEF ApplyWrite, ApplyDelete
<1>4. /\ k \in Key /\ \A j \in Key : j # k => latest'[j] = latest[j]
    BY <1>2 DEF ApplyWrite, ApplyDelete, IInv, TypeOK, Entry
<1>5. k \in orderly' => latest'[k] = Recovered(log, sstables, k)
    <2> SUFFICES ASSUME k \in orderly' PROVE latest'[k] = Recovered(log, sstables, k)
        OBVIOUS
    <2>1. Places(log, k) # {} /\ LastEntry(log, k) = e
        BY <1>1, <1>3 DEF OrderlyInv, CallIsLast, Logged
    <2>2. CASE ApplyWrite(c)
        <3>1. e.operation = "WRITE" /\ latest'[k] = e.version
            BY <1>4, <2>2 DEF ApplyWrite, IInv, TypeOK
        <3> QED
            BY <2>1, <3>1 DEF Recovered
    <2>3. CASE ApplyDelete(c)
        <3>1. e.operation = "DELETE" /\ latest'[k] = Absent /\ Holding(sstables, k) = {}
            BY <1>4, <2>3 DEF ApplyDelete, IInv, TypeOK
        <3> QED
            BY <2>1, <3>1, EmptyTableType DEF Recovered, Lookup
    <2> QED
        BY <2>2, <2>3
<1> HIDE DEF k, e
<1>6. \A d \in Client, j \in orderly : Calling(d, j)' <=> d # c /\ Calling(d, j)
    BY <1>2 DEF Calling
<1>7. \A d \in Client, j \in orderly : Logged(d, j)' <=> d # c /\ Logged(d, j)
    BY <1>2 DEF Logged
<1>8. OneAtATime'
    <2> SUFFICES ASSUME NEW d \in Client, NEW f \in Client, NEW j \in orderly',
                        Calling(d, j)', Calling(f, j)'
                 PROVE  d = f /\ pc'[d] # "abandoned"
        BY DEF OneAtATime
    <2>1. d # c /\ Calling(d, j) /\ Calling(f, j)
        BY <1>3, <1>6
    <2> QED
        BY <1>2, <1>3, <2>1 DEF OrderlyInv, OneAtATime
<1>9. CallIsLast'
    <2> SUFFICES ASSUME NEW d \in Client, NEW j \in orderly', Logged(d, j)'
                 PROVE  Places(log', j) # {} /\ LastEntry(log', j) = entry'[d]
        BY DEF CallIsLast
    <2>1. d # c /\ Logged(d, j) /\ j \in orderly
        BY <1>3, <1>7
    <2> QED
        BY <1>1, <1>2, <2>1, RecoveredSame DEF OrderlyInv, CallIsLast
<1>10. RestartsReadTheSame'
    <2> SUFFICES ASSUME NEW j \in orderly', ~\E d \in Client : Logged(d, j)'
                 PROVE  latest'[j] = Recovered(log', sstables', j)
        BY DEF RestartsReadTheSame
    <2>1. CASE j = k
        BY <1>1, <1>5, <2>1, RecoveredSame
    <2>2. CASE j # k
        <3>1. j \in orderly /\ ~Logged(c, j)
            BY <1>3, <2>2 DEF Logged, k, e
        <3>2. ~\E d \in Client : Logged(d, j)
            BY <1>7, <3>1
        <3>3. latest[j] = Recovered(log, sstables, j)
            BY <3>1, <3>2 DEF OrderlyInv, RestartsReadTheSame
        <3>4. j \in Key
            BY <3>1 DEF IInv, TypeOK
        <3> QED
            BY <1>1, <1>4, <2>2, <3>3, <3>4, RecoveredSame
    <2> QED
        BY <2>1, <2>2
<1>11. orderly' \subseteq clean'
    <2>1. orderly \subseteq clean
        BY DEF OrderlyInv
    <2> QED
        BY <1>3, <2>1
<1>12. CallsWhileUp' /\ FilesHoldLog'
    BY <1>1 DEF CallsWhileUp, FilesHoldLog, Serving
<1> QED
    BY <1>8, <1>9, <1>10, <1>11, <1>12 DEF OrderlyInv

\* A cancelled call leaves its key's log alone, or takes the key out.
LEMMA CancelOrderly ==
    ASSUME IInv, OrderlyInv, NEW c \in Client, Cancel(c)
    PROVE  OrderlyInv'
<1>1. /\ status = "up" /\ status' = "up" /\ pc[c] \in {"appending", "appended"}
      /\ log' = log /\ sstables' = sstables /\ latest' = latest /\ clean' = clean
    BY DEF Cancel, disk
<1>2. /\ pc'[c] \in {"idle", "abandoned"}
      /\ \A d \in Client : d # c => pc'[d] = pc[d] /\ entry'[d] = entry[d]
      /\ pc'[c] = "abandoned" => entry'[c] = entry[c]
    BY DEF Cancel, IInv, TypeOK
<1>3. /\ orderly' \subseteq orderly
      /\ pc[c] = "appended" \/ pc'[c] = "abandoned" => entry[c].key \notin orderly'
    BY DEF Cancel, IInv, TypeOK
<1>4. \A d \in Client, j \in orderly' : Calling(d, j)' => d # c /\ Calling(d, j)
    BY <1>2, <1>3 DEF Calling
<1>5. \A d \in Client, j \in orderly' : Logged(d, j)' <=> Logged(d, j)
    BY <1>2, <1>3 DEF Logged
<1>6. OneAtATime'
    <2> SUFFICES ASSUME NEW d \in Client, NEW f \in Client, NEW j \in orderly',
                        Calling(d, j)', Calling(f, j)'
                 PROVE  d = f /\ pc'[d] # "abandoned"
        BY DEF OneAtATime
    <2>1. d # c /\ Calling(d, j) /\ Calling(f, j)
        BY <1>4
    <2> QED
        BY <1>2, <1>3, <2>1 DEF OrderlyInv, OneAtATime
<1>7. CallIsLast'
    <2> SUFFICES ASSUME NEW d \in Client, NEW j \in orderly', Logged(d, j)'
                 PROVE  Places(log', j) # {} /\ LastEntry(log', j) = entry'[d]
        BY DEF CallIsLast
    <2>1. d # c /\ Logged(d, j) /\ j \in orderly
        BY <1>2, <1>3, <1>5 DEF Logged
    <2> QED
        BY <1>1, <1>2, <2>1, RecoveredSame DEF OrderlyInv, CallIsLast
<1>8. RestartsReadTheSame'
    <2> SUFFICES ASSUME NEW j \in orderly', ~\E d \in Client : Logged(d, j)'
                 PROVE  latest[j] = Recovered(log', sstables', j)
        BY <1>1 DEF RestartsReadTheSame
    <2>1. latest[j] = Recovered(log, sstables, j)
        BY <1>3, <1>5 DEF OrderlyInv, RestartsReadTheSame
    <2> QED
        BY <2>1, RecoveredSame, <1>1
<1>9. CallsWhileUp' /\ FilesHoldLog' /\ orderly' \subseteq clean'
    BY <1>1, <1>3 DEF OrderlyInv, CallsWhileUp, FilesHoldLog, Serving
<1> QED
    BY <1>6, <1>7, <1>8, <1>9 DEF OrderlyInv

\* The key of an abandoned job is out already.
LEMMA AbandonedOrderly ==
    ASSUME IInv, OrderlyInv, NEW c \in Client, AbandonedWrite(c)
    PROVE  OrderlyInv' /\ entry[c] \in Entry /\ entry[c].key \notin orderly
<1> DEFINE e == entry[c]
<1>1. /\ status = "up" /\ status' = "up" /\ pc[c] = "abandoned"
      /\ log' = Append(log, e) /\ sstables' = sstables
      /\ latest' = latest /\ clean' = clean /\ orderly' = orderly
    BY DEF AbandonedWrite, memory, ghosts
<1>2. /\ pc'[c] = "idle" /\ \A d \in Client : d # c => pc'[d] = pc[d] /\ entry'[d] = entry[d]
      /\ e \in Entry /\ log \in Seq(Entry)
    BY DEF AbandonedWrite, IInv, TypeOK
<1>3. e.key \notin orderly
    BY <1>1 DEF OrderlyInv, OneAtATime, Calling
<1> HIDE DEF e
<1>4. \A k \in orderly : /\ Places(log', k) = Places(log, k)
                         /\ Places(log, k) # {} => LastEntry(log', k) = LastEntry(log, k)
    BY <1>1, <1>2, <1>3, PlacesAppend
<1>5. \A d \in Client, k \in orderly : Calling(d, k)' => d # c /\ Calling(d, k)
    BY <1>2 DEF Calling
<1>6. \A d \in Client, k \in orderly : Logged(d, k)' <=> d # c /\ Logged(d, k)
    BY <1>2 DEF Logged
<1>7. ~\E k \in orderly : Logged(c, k)
    BY <1>1 DEF Logged
<1>8. OneAtATime'
    <2> SUFFICES ASSUME NEW d \in Client, NEW f \in Client, NEW j \in orderly',
                        Calling(d, j)', Calling(f, j)'
                 PROVE  d = f /\ pc'[d] # "abandoned"
        BY DEF OneAtATime
    <2>1. d # c /\ Calling(d, j) /\ Calling(f, j) /\ j \in orderly
        BY <1>1, <1>5
    <2> QED
        BY <1>2, <2>1 DEF OrderlyInv, OneAtATime
<1>9. CallIsLast'
    <2> SUFFICES ASSUME NEW d \in Client, NEW j \in orderly', Logged(d, j)'
                 PROVE  Places(log', j) # {} /\ LastEntry(log', j) = entry'[d]
        BY DEF CallIsLast
    <2>1. d # c /\ Logged(d, j) /\ j \in orderly
        BY <1>1, <1>6
    <2> QED
        BY <1>2, <1>4, <2>1 DEF OrderlyInv, CallIsLast
<1>10. RestartsReadTheSame'
    <2> SUFFICES ASSUME NEW j \in orderly, ~\E d \in Client : Logged(d, j)'
                 PROVE  latest[j] = Recovered(log', sstables, j)
        BY <1>1 DEF RestartsReadTheSame
    <2>1. latest[j] = Recovered(log, sstables, j)
        BY <1>6, <1>7 DEF OrderlyInv, RestartsReadTheSame
    <2> QED
        BY <1>4, <2>1 DEF Recovered
<1>11. CallsWhileUp' /\ FilesHoldLog' /\ orderly' \subseteq clean'
    BY <1>1 DEF OrderlyInv, CallsWhileUp, FilesHoldLog, Serving
<1> QED
    BY <1>2, <1>3, <1>8, <1>9, <1>10, <1>11 DEF OrderlyInv, e

\* Steps that touch neither the log nor the tables, calls nor what is promised.
LEMMA QuietOrderly ==
    ASSUME OrderlyInv, UNCHANGED <<log, sstables, latest, clean, orderly, pc, entry>>,
           CallsWhileUp', FilesHoldLog'
    PROVE  OrderlyInv'
<1>1. \A c \in Client, k \in orderly : /\ Calling(c, k)' <=> Calling(c, k)
                                       /\ Logged(c, k)' <=> Logged(c, k)
    BY DEF Calling, Logged
<1>2. OneAtATime'
    BY <1>1 DEF OrderlyInv, OneAtATime
<1>3. CallIsLast'
    BY <1>1, RecoveredSame DEF OrderlyInv, CallIsLast
<1>4. RestartsReadTheSame'
    BY <1>1, RecoveredSame DEF OrderlyInv, RestartsReadTheSame
<1> QED
    BY <1>2, <1>3, <1>4 DEF OrderlyInv

LEMMA BackgroundOrderly ==
    ASSUME IInv, OrderlyInv,
           \/ GroupCommit \/ FlushBegin \/ StopBegin
           \/ StartBegin \/ ReplayEntry \/ UNCHANGED vars
    PROVE  OrderlyInv'
<1>1. UNCHANGED <<log, sstables, latest, clean, orderly, pc, entry>>
    BY DEF GroupCommit, FlushBegin, StopBegin, StartBegin, ReplayEntry, vars, disk, clients, ghosts
<1>2. CallsWhileUp'
    BY DEF OrderlyInv, CallsWhileUp, GroupCommit, FlushBegin, StopBegin, StartBegin, ReplayEntry,
           vars, clients
<1>3. FilesHoldLog'
    BY DEF OrderlyInv, FilesHoldLog, Serving, GroupCommit, FlushBegin, StopBegin, StartBegin,
           ReplayEntry, vars, disk
<1> QED
    BY <1>1, <1>2, <1>3, QuietOrderly

\* A published table says of an orderly key what the log says.
LEMMA FlushEndOrderly ==
    ASSUME IInv, OrderlyInv, FlushEnd
    PROVE  OrderlyInv'
<1>1. /\ UNCHANGED <<status, log, flushed, latest, clean, orderly, pc, entry>>
      /\ sstables' = Append(sstables, flushing) /\ flushing # EmptyTable
    BY DEF FlushEnd, clients, ghosts
<1>2. \A c \in Client, k \in orderly : /\ Calling(c, k)' <=> Calling(c, k)
                                       /\ Logged(c, k)' <=> Logged(c, k)
    BY <1>1 DEF Calling, Logged
<1>3. OneAtATime' /\ CallIsLast' /\ CallsWhileUp' /\ FilesHoldLog' /\ orderly' \subseteq clean'
    BY <1>1, <1>2 DEF OrderlyInv, OneAtATime, CallIsLast, CallsWhileUp, FilesHoldLog, Serving
<1>4. RestartsReadTheSame'
    <2> SUFFICES ASSUME NEW k \in orderly, ~\E c \in Client : Logged(c, k)
                 PROVE  latest[k] = Recovered(log, Append(sstables, flushing), k)
        BY <1>1, <1>2 DEF RestartsReadTheSame
    <2>1. latest[k] = Recovered(log, sstables, k)
        BY DEF OrderlyInv, RestartsReadTheSame
    <2>2. k \in DOMAIN flushing => flushing[k] = latest[k]
        BY <1>1, SnapshotIsLatest DEF OrderlyInv
    <2>3. sstables \in Seq(Table) /\ flushing \in Table /\ k \in Key
        BY DEF IInv, TypeOK
    <2>4. HasNewest(sstables, k)
        BY <2>3 DEF IInv, TablesOrdered
    <2> QED
        BY <2>1, <2>2, <2>3, <2>4, RecoveredTable
<1> QED
    BY <1>3, <1>4 DEF OrderlyInv

\* A key that nobody was calling and of which nothing was cut off.
LEMMA ExitOrderly ==
    ASSUME IInv, OrderlyInv, NEW S \in 0 .. Len(log), ExitWith(S),
           UNCHANGED <<latest, clean>>, orderly' \subseteq orderly,
           \A k \in orderly' : /\ \A c \in Client : ~Calling(c, k)
                               /\ \A i \in S + 1 .. Len(log) : log[i].key # k
    PROVE  OrderlyInv'
<1>1. /\ status' = "down" /\ log' = SubSeq(log, 1, S) /\ flushed' = S
      /\ \A c \in Client : pc'[c] = "idle"
      /\ sstables' = sstables \/ (flushing # EmptyTable /\ sstables' = Append(sstables, flushing))
    BY DEF ExitWith, Exit
<1>2. log \in Seq(Entry) /\ Len(log') = S
    <2>1. log \in Seq(Entry)
        BY DEF IInv, TypeOK
    <2> QED
        BY <1>1, <2>1
<1>3. OneAtATime' /\ CallIsLast' /\ CallsWhileUp' /\ FilesHoldLog'
    BY <1>1, <1>2 DEF OneAtATime, Calling, CallIsLast, Logged, CallsWhileUp, FilesHoldLog, Serving
<1>4. RestartsReadTheSame'
    <2> SUFFICES ASSUME NEW k \in orderly' PROVE latest[k] = Recovered(log', sstables', k)
        BY DEF RestartsReadTheSame
    <2>1. ~\E c \in Client : Logged(c, k)
        BY DEF Logged, Calling
    <2>2. latest[k] = Recovered(log, sstables, k)
        BY <2>1 DEF OrderlyInv, RestartsReadTheSame
    <2>3. Recovered(log', sstables, k) = Recovered(log, sstables, k)
        BY <1>1, <1>2, PlacesPrefix DEF Recovered
    <2>4. CASE sstables' = sstables
        BY <2>2, <2>3, <2>4
    <2>5. CASE flushing # EmptyTable /\ sstables' = Append(sstables, flushing)
        <3>1. k \in DOMAIN flushing => flushing[k] = latest[k]
            BY <2>5, SnapshotIsLatest DEF OrderlyInv
        <3>2. sstables \in Seq(Table) /\ flushing \in Table /\ k \in Key
            BY DEF IInv, TypeOK
        <3>3. HasNewest(sstables, k)
            BY <3>2 DEF IInv, TablesOrdered
        <3>4. Recovered(log', Append(sstables, flushing), k) = Recovered(log', sstables, k)
            BY <2>2, <2>3, <3>1, <3>2, <3>3, RecoveredTable
        <3> QED
            BY <2>2, <2>3, <2>5, <3>4
    <2> QED
        BY <1>1, <2>4, <2>5
<1>5. orderly' \subseteq clean'
    BY DEF OrderlyInv
<1> QED
    BY <1>3, <1>4, <1>5 DEF OrderlyInv

LEMMA StopEndOrderly ==
    ASSUME IInv, OrderlyInv, StopEnd
    PROVE  OrderlyInv'
<1>1. Len(log) \in 0 .. Len(log) /\ Len(log) + 1 .. Len(log) = {}
    BY DEF IInv, TypeOK
<1>2. ExitWith(Len(log)) /\ UNCHANGED <<latest, clean>> /\ orderly' = orderly
    BY DEF StopEnd, ghosts
<1>3. \A k \in orderly, c \in Client : ~Calling(c, k)
    BY DEF OrderlyInv, CallsWhileUp, StopEnd, Calling
<1> QED
    BY <1>1, <1>2, <1>3, ExitOrderly

LEMMA CrashOrderly ==
    ASSUME IInv, OrderlyInv, Crash
    PROVE  OrderlyInv'
<1>1. PICK S \in flushed .. Len(log) :
          /\ ExitWith(S)
          /\ orderly' = {k \in orderly : /\ \A c \in Client : ~Calling(c, k)
                                        /\ \A i \in S + 1 .. Len(log) : log[i].key # k}
    BY DEF Crash
<1>2. S \in 0 .. Len(log)
    BY DEF IInv, TypeOK
<1>3. UNCHANGED <<latest, clean>>
    BY DEF Crash
<1> QED
    BY <1>1, <1>2, <1>3, ExitOrderly

\* start() reads what the log in front of the tables says.
LEMMA StartEndReads ==
    ASSUME IInv, StartEnd, NEW k \in Key
    PROVE  latest'[k] = Recovered(log, sstables, k)
<1>1. status = "starting" /\ replayed = Len(log) /\ latest'[k] = Read(k)
    BY DEF StartEnd
<1>2. Positions(k, replayed) = Places(log, k)
    BY <1>1 DEF Positions, Places
<1>3. IF Places(log, k) # {} /\ LastEntry(log, k).operation = "WRITE"
      THEN k \in DOMAIN memtable /\ memtable[k] = LastEntry(log, k).version
      ELSE k \notin DOMAIN memtable
    BY <1>1, <1>2 DEF IInv, RecoveryFollowsLog, LastEntry
<1> QED
    BY <1>1, <1>3, EmptyTableType DEF Read, Lookup, Recovered

LEMMA StartEndOrderly ==
    ASSUME IInv, OrderlyInv, StartEnd
    PROVE  OrderlyInv' /\ \A k \in orderly : latest'[k] = latest[k]
<1>1. /\ UNCHANGED <<log, flushed, sstables, pc>> /\ clean' = Key /\ status = "starting"
      /\ orderly' \in {orderly, Key}
    BY DEF StartEnd, disk, clients
<1>2. \A c \in Client : pc[c] = "idle"
    BY <1>1 DEF IInv, Idle, Serving
<1>3. flushed = Len(log) /\ orderly \subseteq Key
    BY <1>1 DEF OrderlyInv, FilesHoldLog, Serving, IInv, TypeOK
<1>4. OneAtATime' /\ CallIsLast' /\ CallsWhileUp' /\ FilesHoldLog' /\ orderly' \subseteq clean'
    BY <1>1, <1>2, <1>3 DEF OneAtATime, Calling, CallIsLast, Logged, CallsWhileUp, FilesHoldLog
<1>5. RestartsReadTheSame'
    <2>1. orderly' \subseteq Key
        BY <1>1, <1>3
    <2> QED
        BY <1>1, <2>1, StartEndReads, RecoveredSame DEF RestartsReadTheSame
<1>6. \A k \in orderly : latest[k] = Recovered(log, sstables, k)
    BY <1>2 DEF OrderlyInv, RestartsReadTheSame, Logged
<1> QED
    BY <1>3, <1>4, <1>5, <1>6, StartEndReads DEF OrderlyInv

LEMMA NextOrderly ==
    ASSUME IInv, OrderlyInv, [Next]_vars
    PROVE  OrderlyInv'
<1>1. ASSUME NEW c \in Client, NEW k \in Key, Call(c, "WRITE", k) \/ Call(c, "DELETE", k)
      PROVE  OrderlyInv'
    BY <1>1, CallOrderly
<1>2. ASSUME NEW c \in Client, WalWrite(c) \/ ApplyWrite(c) \/ ApplyDelete(c)
      PROVE  OrderlyInv'
    BY <1>2, WalWriteOrderly, ApplyOrderly
<1>3. ASSUME NEW c \in Client, Cancel(c) \/ AbandonedWrite(c)
      PROVE  OrderlyInv'
    BY <1>3, CancelOrderly, AbandonedOrderly
<1>4. CASE FlushEnd \/ StopEnd \/ Crash \/ StartEnd
    BY <1>4, FlushEndOrderly, StopEndOrderly, CrashOrderly, StartEndOrderly
<1>5. CASE \/ GroupCommit \/ FlushBegin \/ StopBegin
           \/ StartBegin \/ ReplayEntry \/ UNCHANGED vars
    BY <1>5, BackgroundOrderly
<1> QED
    BY <1>1, <1>2, <1>3, <1>4, <1>5 DEF Next
-----------------------------------------------------------------------------
(* Every step of the engine is a step of the abstract store, or none.      *)

View == [k \in orderly |-> latest[k]]

LEMMA ViewIsStore == IInv /\ OrderlyInv => StoreView = View
BY DEF IInv, OrderlyInv, ReadsLatestUnlessDisturbed, StoreView, View

Both == IInv /\ OrderlyInv

LEMMA ViewsAreStores ==
    ASSUME Both, Both'
    PROVE  StoreView = View /\ StoreView' = View'
<1>1. StoreView = View
    BY ViewIsStore DEF Both
<1>2. StoreView' = View'
    BY DEF Both, IInv, OrderlyInv, ReadsLatestUnlessDisturbed, StoreView, View
<1> QED
    BY <1>1, <1>2

\* The abstract store does not see a step that leaves all this as it was.
LEMMA NothingSeen ==
    ASSUME Both, Both', UNCHANGED <<orderly, pc, entry>>,
           \A k \in orderly : latest'[k] = latest[k],
           Unflushed' = Unflushed
    PROVE  UNCHANGED KVS!vars
<1>1. View' = View
    BY DEF View
<1>2. PendingView' = PendingView
    BY DEF PendingView
<1> QED
    BY <1>1, <1>2, ViewsAreStores DEF KVS!vars

LEMMA CallBegins ==
    ASSUME Both, Both', NEW c \in Client, NEW op \in {"WRITE", "DELETE"}, NEW k \in Key,
           Call(c, op, k)
    PROVE  KVS!Next
<1> DEFINE v == IF op = "WRITE" THEN calls + 1 ELSE Absent
           lost == {j \in {k} : \E d \in Client : KVS!Calls(d, j)}
<1>1. /\ pc[c] = "idle" /\ log' = log /\ flushed' = flushed /\ latest' = latest
      /\ pc' = [pc EXCEPT ![c] = "appending"]
      /\ entry' = [entry EXCEPT ![c] = [operation |-> op, key |-> k, version |-> calls + 1]]
      /\ orderly' = IF \E d \in Client : Calling(d, k) THEN orderly \ {k} ELSE orderly
    BY DEF Call, disk
<1>2. v \in KVS!Value
    <2>1. calls + 1 \in Version
        BY DEF Both, IInv, TypeOK, Call, Version
    <2> QED
        BY <2>1 DEF KVS!Value
<1>3. /\ PendingView[c] = KVS!NoCall
      /\ PendingView' = [PendingView EXCEPT ![c] = [key |-> k, version |-> v]]
    BY <1>1 DEF PendingView, KVS!NoCall, Both, IInv, TypeOK
<1>4. \A d \in Client, j \in orderly : KVS!Calls(d, j) <=> Calling(d, j)
    <2> SUFFICES ASSUME NEW d \in Client, NEW j \in orderly
                 PROVE  KVS!Calls(d, j) <=> Calling(d, j)
        OBVIOUS
    <2>1. Calling(d, j) => pc[d] # "abandoned"
        BY DEF Both, OrderlyInv, OneAtATime
    <2>2. pc[d] \in {"idle", "appending", "appended", "abandoned"}
        BY DEF Both, IInv, TypeOK
    <2>3. CASE pc[d] \in {"appending", "appended"}
        BY <2>3 DEF KVS!Calls, KVS!NoCall, PendingView, Calling
    <2>4. CASE pc[d] \notin {"appending", "appended"}
        BY <2>1, <2>2, <2>4 DEF KVS!Calls, KVS!NoCall, PendingView, Calling
    <2> QED
        BY <2>3, <2>4
<1>5. orderly' = orderly \ lost
    BY <1>1, <1>4
<1>6. View' = [j \in DOMAIN View \ lost |-> View[j]]
    BY <1>1, <1>5 DEF View
<1>7. Unflushed' = Unflushed \ lost
    BY <1>1, <1>5 DEF Unflushed
<1> HIDE DEF v
<1>8. KVS!Begin(c, k, v)
    BY <1>3, <1>6, <1>7, ViewsAreStores DEF KVS!Begin, KVS!Becomes
<1> QED
    BY <1>2, <1>8 DEF KVS!Next

LEMMA WalWriteLogs ==
    ASSUME Both, Both', NEW c \in Client, WalWrite(c)
    PROVE  KVS!Next
<1> DEFINE e == entry[c]
           n == Len(log)
<1>1. /\ pc[c] = "appending" /\ log' = Append(log, e) /\ flushed' = flushed
      /\ latest' = latest /\ orderly' = orderly /\ entry' = entry
      /\ pc' = [pc EXCEPT ![c] = "appended"]
    BY DEF WalWrite, ghosts
<1>2. /\ log \in Seq(Entry) /\ e \in Entry /\ n \in Nat /\ flushed \in 0 .. n
    BY <1>1 DEF Both, IInv, TypeOK
<1> HIDE DEF e
<1>3. Len(log') = n + 1 /\ log'[n + 1] = e /\ \A i \in 1 .. n : log'[i] = log[i]
    BY <1>1, <1>2, AppendProperties
<1>4. PendingView' = PendingView
    BY <1>1 DEF PendingView, Both, IInv, TypeOK
<1>5. PendingView[c] # KVS!NoCall /\ PendingView[c].key = e.key
    BY <1>1 DEF PendingView, KVS!NoCall, e
<1>6. View' = View /\ DOMAIN View = orderly
    BY <1>1 DEF View
<1>7. Unflushed' = Unflushed \cup ({e.key} \cap orderly)
    <2>1. ASSUME NEW k
          PROVE  (\E i \in flushed + 1 .. n + 1 : log'[i].key = k)
                     <=> (\E i \in flushed + 1 .. n : log[i].key = k) \/ e.key = k
        <3>1. n + 1 \in flushed + 1 .. n + 1
            BY <1>2
        <3>2. \A i \in flushed + 1 .. n + 1 : i = n + 1 \/ (i \in flushed + 1 .. n /\ log'[i] = log[i])
            BY <1>2, <1>3
        <3>3. \A i \in flushed + 1 .. n : i \in flushed + 1 .. n + 1 /\ log'[i] = log[i]
            BY <1>2, <1>3
        <3> QED
            BY <1>3, <3>1, <3>2, <3>3
    <2> QED
        BY <1>1, <1>3, <2>1 DEF Unflushed
<1>8. KVS!Log(c)
    BY <1>4, <1>5, <1>6, <1>7, ViewsAreStores DEF KVS!Log
<1> QED
    BY <1>8 DEF KVS!Next

LEMMA ApplyEnds ==
    ASSUME Both, Both', NEW c \in Client, ApplyWrite(c) \/ ApplyDelete(c)
    PROVE  KVS!Next
<1> DEFINE e == entry[c]
           k == e.key
           v == IF e.operation = "WRITE" THEN e.version ELSE Absent
           lost == {k} \ orderly'
<1>1. /\ pc[c] = "appended" /\ log' = log /\ flushed' = flushed
      /\ pc' = [pc EXCEPT ![c] = "idle"] /\ entry' = [entry EXCEPT ![c] = <<>>]
      /\ latest' = [latest EXCEPT ![k] = v]
      /\ orderly' \in {orderly, orderly \ {k}}
    BY DEF ApplyWrite, ApplyDelete, disk
<1>2. k \in Key /\ latest \in [Key -> Version \cup {Absent}] /\ orderly \subseteq Key
    BY <1>1 DEF Both, IInv, TypeOK, Entry
<1>3. PendingView[c] # KVS!NoCall /\ PendingView[c].key = k /\ PendingView[c].version = v
    BY <1>1 DEF PendingView, KVS!NoCall
<1>10. PendingView' = [PendingView EXCEPT ![c] = KVS!NoCall]
    <2>1. pc'[c] = "idle" /\ \A d \in Client : d # c => pc'[d] = pc[d] /\ entry'[d] = entry[d]
        BY <1>1 DEF Both, IInv, TypeOK
    <2> QED
        BY <2>1 DEF PendingView, KVS!NoCall
<1> HIDE DEF e, k, v
<1>4. KVS!Calls(c, k) /\ \A j : KVS!Calls(c, j) <=> j = k
    BY <1>3 DEF KVS!Calls
<1>5. orderly' = orderly \ lost /\ lost \in SUBSET {k}
    BY <1>1
<1>6. Unflushed' = Unflushed \ lost
    BY <1>1, <1>5 DEF Unflushed
<1> HIDE DEF lost
<1> DEFINE s == [j \in DOMAIN View |-> IF KVS!Calls(c, j) THEN v ELSE View[j]]
<1>7. DOMAIN s = orderly /\ \A j \in orderly : s[j] = latest'[j]
    BY <1>1, <1>2, <1>4 DEF View
<1> HIDE DEF s
<1>8. View' = [j \in DOMAIN s \ lost |-> s[j]]
    BY <1>5, <1>7 DEF View
<1>9. KVS!End(c)
    BY <1>3, <1>10, <1>5, <1>6, <1>8, ViewsAreStores DEF KVS!End, KVS!Becomes, s
<1> QED
    BY <1>9 DEF KVS!Next

LEMMA CancelForgets ==
    ASSUME Both, Both', NEW c \in Client, Cancel(c)
    PROVE  KVS!Next
<1> DEFINE k == entry[c].key
           lost == {k} \ orderly'
<1>1. /\ pc[c] \in {"appending", "appended"} /\ log' = log /\ flushed' = flushed /\ latest' = latest
      /\ orderly' \in {orderly, orderly \ {k}}
    BY DEF Cancel, disk
<1>2. /\ pc'[c] \in {"idle", "abandoned"}
      /\ \A d \in Client : d # c => pc'[d] = pc[d] /\ entry'[d] = entry[d]
    BY DEF Cancel, Both, IInv, TypeOK
<1>3. PendingView[c] # KVS!NoCall /\ PendingView[c].key = k
    BY <1>1 DEF PendingView, KVS!NoCall
<1>4. PendingView' = [PendingView EXCEPT ![c] = KVS!NoCall]
    BY <1>2 DEF PendingView, KVS!NoCall
<1> HIDE DEF k
<1>5. orderly' = orderly \ lost /\ lost \in SUBSET {k}
    BY <1>1
<1>6. Unflushed' = Unflushed \ lost
    BY <1>1, <1>5 DEF Unflushed
<1>7. View' = [j \in DOMAIN View \ lost |-> View[j]]
    BY <1>1, <1>5 DEF View
<1> HIDE DEF lost
<1>8. KVS!Forget(c)
    BY <1>3, <1>4, <1>5, <1>6, <1>7, ViewsAreStores DEF KVS!Forget, KVS!Becomes
<1> QED
    BY <1>8 DEF KVS!Next

LEMMA AbandonedIsUnseen ==
    ASSUME Both, Both', NEW c \in Client, AbandonedWrite(c)
    PROVE  UNCHANGED KVS!vars
<1> DEFINE e == entry[c]
           n == Len(log)
<1>1. /\ pc[c] = "abandoned" /\ log' = Append(log, e) /\ flushed' = flushed
      /\ latest' = latest /\ orderly' = orderly
      /\ pc'[c] = "idle" /\ \A d \in Client : d # c => pc'[d] = pc[d] /\ entry'[d] = entry[d]
    BY DEF AbandonedWrite, ghosts, Both, IInv, TypeOK
<1>2. /\ log \in Seq(Entry) /\ n \in Nat /\ flushed \in 0 .. n
      /\ e \in Entry /\ e.key \notin orderly
    BY AbandonedOrderly DEF Both, IInv, TypeOK
<1> HIDE DEF e
<1>3. Len(log') = n + 1 /\ log'[n + 1] = e /\ \A i \in 1 .. n : log'[i] = log[i]
    BY <1>1, <1>2, AppendProperties
<1>4. PendingView' = PendingView
    BY <1>1 DEF PendingView
<1>5. View' = View
    BY <1>1 DEF View
<1>6. Unflushed' = Unflushed
    <2>1. ASSUME NEW k \in orderly
          PROVE  (\E i \in flushed + 1 .. n + 1 : log'[i].key = k)
                     <=> (\E i \in flushed + 1 .. n : log[i].key = k)
        <3>1. \A i \in flushed + 1 .. n + 1 : i = n + 1 \/ (i \in flushed + 1 .. n /\ log'[i] = log[i])
            BY <1>2, <1>3
        <3>2. \A i \in flushed + 1 .. n : i \in flushed + 1 .. n + 1 /\ log'[i] = log[i]
            BY <1>2, <1>3
        <3> QED
            BY <1>2, <1>3, <3>1, <3>2
    <2>2. Unflushed' = {k \in orderly : \E i \in flushed + 1 .. n + 1 : log'[i].key = k}
        BY <1>1, <1>3 DEF Unflushed
    <2>3. Unflushed = {k \in orderly : \E i \in flushed + 1 .. n : log[i].key = k}
        BY DEF Unflushed
    <2> QED
        BY <2>1, <2>2, <2>3
<1> QED
    BY <1>4, <1>5, <1>6, ViewsAreStores DEF KVS!vars

\* A group commit and a clean stop save everything.
LEMMA CommitSaves ==
    ASSUME Both, Both', GroupCommit \/ StopEnd
    PROVE  KVS!Next
<1>1. orderly' = orderly /\ latest' = latest /\ flushed' = Len(log')
    <2>1. CASE GroupCommit
        BY <2>1 DEF GroupCommit, ghosts
    <2>2. CASE StopEnd
        <3>1. Len(SubSeq(log, 1, Len(log))) = Len(log)
            <4>1. log \in Seq(Entry)
                BY DEF Both, IInv, TypeOK
            <4> QED
                BY <4>1
        <3> QED
            BY <2>2, <3>1 DEF StopEnd, ExitWith, Exit, ghosts
    <2> QED
        BY <2>1, <2>2
<1>2. PendingView' = PendingView
    <2>1. CASE GroupCommit
        BY <2>1 DEF GroupCommit, clients, PendingView
    <2>2. CASE StopEnd
        <3>1. \A c \in Client : pc[c] = "idle"
            BY <2>2 DEF StopEnd, Both, OrderlyInv, CallsWhileUp
        <3>2. \A c \in Client : pc'[c] = "idle"
            BY <2>2 DEF StopEnd, ExitWith, Exit
        <3> QED
            BY <3>1, <3>2 DEF PendingView
    <2> QED
        BY <2>1, <2>2
<1>3. View' = View
    BY <1>1 DEF View
<1>4. Unflushed' = {}
    <2>1. Len(log') \in Nat
        BY DEF Both, IInv, TypeOK
    <2>2. flushed' + 1 .. Len(log') = {}
        BY <1>1, <2>1
    <2> QED
        BY <2>2 DEF Unflushed
<1>5. KVS!Save
    BY <1>2, <1>3, <1>4, ViewsAreStores DEF KVS!Save
<1> QED
    BY <1>5 DEF KVS!Next

LEMMA CrashCrashes ==
    ASSUME Both, Both', Crash
    PROVE  KVS!Next
<1>1. PICK S \in flushed .. Len(log) :
          /\ ExitWith(S)
          /\ orderly' = {k \in orderly : /\ \A c \in Client : ~Calling(c, k)
                                        /\ \A i \in S + 1 .. Len(log) : log[i].key # k}
    BY DEF Crash
<1> DEFINE lost == orderly \ orderly'
<1>2. latest' = latest /\ orderly' = orderly \ lost
    BY <1>1 DEF Crash
<1>3. lost \in SUBSET (Unflushed \cup {k \in Key : \E c \in Client : KVS!Calls(c, k)})
    <2> SUFFICES ASSUME NEW k \in lost, k \notin Unflushed
                 PROVE  k \in Key /\ \E c \in Client : KVS!Calls(c, k)
        OBVIOUS
    <2>1. k \in orderly /\ k \in Key
        BY DEF Both, IInv, TypeOK
    <2>2. \A i \in S + 1 .. Len(log) : log[i].key # k
        <3>1. flushed \in Nat /\ Len(log) \in Nat
            BY DEF Both, IInv, TypeOK
        <3>2. \A i \in S + 1 .. Len(log) : i \in flushed + 1 .. Len(log)
            BY <3>1
        <3> QED
            BY <2>1, <3>2 DEF Unflushed
    <2>3. PICK c \in Client : Calling(c, k)
        BY <1>1, <2>1, <2>2
    <2>4. pc[c] # "abandoned"
        BY <2>1, <2>3 DEF Both, OrderlyInv, OneAtATime
    <2>5. pc[c] \in {"appending", "appended"}
        BY <2>3, <2>4 DEF Calling, Both, IInv, TypeOK
    <2>6. KVS!Calls(c, k)
        BY <2>3, <2>5 DEF Calling, KVS!Calls, KVS!NoCall, PendingView
    <2> QED
        BY <2>1, <2>6
<1> HIDE DEF lost
<1>4. PendingView' = [c \in Client |-> KVS!NoCall]
    BY <1>1 DEF ExitWith, Exit, PendingView, KVS!NoCall
<1>5. View' = [k \in DOMAIN View \ lost |-> View[k]]
    BY <1>2 DEF View
<1>6. Unflushed' = {}
    <2>1. log \in Seq(Entry) /\ flushed \in Nat /\ S \in flushed .. Len(log)
        BY <1>1 DEF Both, IInv, TypeOK
    <2>2. S \in Nat /\ S <= Len(log)
        BY <2>1
    <2>3. log' = SubSeq(log, 1, S) /\ flushed' = S
        BY <1>1 DEF ExitWith, Exit
    <2>4. Len(log') = S
        BY <2>1, <2>2, <2>3
    <2>5. flushed' + 1 .. Len(log') = {}
        BY <2>2, <2>3, <2>4
    <2> QED
        BY <2>5 DEF Unflushed
<1>7. KVS!Crash
    BY <1>3, <1>4, <1>5, <1>6, ViewsAreStores DEF KVS!Crash
<1> QED
    BY <1>7 DEF KVS!Next

LEMMA StartEndRestarts ==
    ASSUME Both, Both', StartEnd
    PROVE  KVS!Next \/ UNCHANGED KVS!vars
<1>1. /\ UNCHANGED <<log, flushed, pc, entry>> /\ status = "starting"
      /\ orderly' \in {orderly, Key}
    BY DEF StartEnd, disk, clients
<1>2. \A k \in orderly : latest'[k] = latest[k]
    BY StartEndOrderly DEF Both
<1>3. flushed = Len(log)
    BY <1>1 DEF Both, OrderlyInv, FilesHoldLog, Serving
<1>4. Unflushed = {} /\ Unflushed' = {}
    <2>1. Len(log) \in Nat
        BY DEF Both, IInv, TypeOK
    <2>2. flushed + 1 .. Len(log) = {}
        BY <1>3, <2>1
    <2> QED
        BY <1>1, <2>2 DEF Unflushed
<1>5. CASE orderly' = orderly
    BY <1>1, <1>2, <1>4, <1>5, NothingSeen
<1>6. CASE orderly' = Key
    <2>1. View' \in [Key -> KVS!Value] /\ \A k \in DOMAIN View : View'[k] = View[k]
        <3>1. latest' \in [Key -> Version \cup {Absent}] /\ orderly \subseteq Key
            BY DEF Both, IInv, TypeOK
        <3> QED
            BY <1>2, <1>6, <3>1 DEF View, KVS!Value
    <2>2. PendingView' = PendingView
        BY <1>1 DEF PendingView
    <2>3. PendingView = [c \in Client |-> KVS!NoCall]
        BY <1>1 DEF PendingView, KVS!NoCall, Both, IInv, Idle, Serving
    <2>4. KVS!Restart
        BY <1>4, <2>1, <2>2, <2>3, ViewsAreStores DEF KVS!Restart
    <2> QED
        BY <2>4 DEF KVS!Next
<1> QED
    BY <1>1, <1>5, <1>6

LEMMA NextImplements ==
    ASSUME Both, Both', [Next]_vars
    PROVE  [KVS!Next]_(KVS!vars)
<1>1. ASSUME NEW c \in Client, NEW k \in Key, Call(c, "WRITE", k) \/ Call(c, "DELETE", k)
      PROVE  KVS!Next
    BY <1>1, CallBegins
<1>2. ASSUME NEW c \in Client, WalWrite(c) \/ ApplyWrite(c) \/ ApplyDelete(c)
      PROVE  KVS!Next
    BY <1>2, WalWriteLogs, ApplyEnds
<1>3. ASSUME NEW c \in Client, Cancel(c)
      PROVE  KVS!Next
    BY <1>3, CancelForgets
<1>4. ASSUME NEW c \in Client, AbandonedWrite(c)
      PROVE  UNCHANGED KVS!vars
    BY <1>4, AbandonedIsUnseen
<1>5. CASE GroupCommit \/ StopEnd \/ Crash
    BY <1>5, CommitSaves, CrashCrashes
<1>6. CASE StartEnd
    BY <1>6, StartEndRestarts
<1>7. CASE FlushBegin \/ FlushEnd \/ StopBegin \/ StartBegin \/ ReplayEntry \/ UNCHANGED vars
    <2>1. UNCHANGED <<log, flushed, orderly, latest, pc, entry>>
        BY <1>7 DEF FlushBegin, FlushEnd, StopBegin, StartBegin, ReplayEntry, vars, disk, clients, ghosts
    <2>2. Unflushed' = Unflushed
        BY <2>1 DEF Unflushed
    <2> QED
        BY <2>1, <2>2, NothingSeen
<1> QED
    BY <1>1, <1>2, <1>3, <1>4, <1>5, <1>6, <1>7 DEF Next

LEMMA InitImplements == Init => KVS!Init
<1> SUFFICES ASSUME Init PROVE KVS!Init
    OBVIOUS
<1>1. StoreView = View
    BY InitIInv, InitOrderly, ViewIsStore
<1>2. View = [k \in Key |-> Absent]
    BY DEF Init, View
<1>3. PendingView = [c \in Client |-> KVS!NoCall]
    BY DEF Init, PendingView, KVS!NoCall
<1>4. Unflushed = {}
    BY DEF Init, Unflushed
<1> QED
    BY <1>1, <1>2, <1>3, <1>4 DEF KVS!Init

\* The engine implements the abstract store: what read (lines 571-590) finds for an
\* orderly key changes when a write() or delete() of it returns and at no other
\* step, so neither a flush nor a stop nor a restart shows; and a crash loses calls
\* that no group commit had flushed, or that had not returned, and no others.
THEOREM EngineIsAStore == Spec => ImplementsStore
<1>1. Init => Both /\ KVS!Init
    BY InitIInv, InitOrderly, InitImplements DEF Both
<1>2. Both /\ [Next]_vars => Both'
    BY NextIInv, NextOrderly DEF Both
<1>3. Both /\ Both' /\ [Next]_vars => [KVS!Next]_(KVS!vars)
    BY NextImplements
<1> QED
    BY <1>1, <1>2, <1>3, PTL DEF Spec, ImplementsStore, KVS!Spec
=============================================================================

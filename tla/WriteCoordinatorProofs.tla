----------------------- MODULE WriteCoordinatorProofs -----------------------
(***************************************************************************)
(* What calls of WriteCoordinator.write report, and which clocks they      *)
(* give, for any nodes, keys, writes, quorums and routing tables, and      *)
(* whatever the hint manager does meanwhile.                               *)
(*                                                                         *)
(* A call that is done has no task left that could still write, so its     *)
(* counts stay true.  A version that is stored, or that get() returned,    *)
(* belongs to a call that was started, whose clock is fixed.               *)
(*                                                                         *)
(* For the hint manager: every miss is accounted for by a hint or by the   *)
(* reason its hint went, at each step of the forwarding loop.              *)
(***************************************************************************)
EXTENDS WriteCoordinator, DataProofs

Ids == NodeId \cup {Coordinator}

Phase == {"ready", "waiting", "done"}

Shape ==
    /\ call \in [Write -> [phase : Phase, clock : ClocksOver(Ids, Nat), task : [NodeId -> TaskState]]]
    /\ context \in [Write -> ClocksOver(Ids, Nat)]
    /\ store \in [NodeId -> [Key -> Write \cup {None}]]
    /\ basis \in [Write -> Write \cup {None}]
    /\ DOMAIN result = Write
    /\ stats \in [total : Nat, successful : Nat, failed : Nat, hints : Nat]

\* Before a call begins no task is there; while it waits, some were.
Begins ==
    /\ \A w \in Write : call[w].phase = "ready" => Contacted(w) = {}
    /\ \A w \in Write : call[w].phase = "waiting" => Contacted(w) # {} /\ call[w].clock # NoClock

\* No task outlives its call.
Settled == \A w \in Write : call[w].phase = "done" => Tasks(w, {"running"}) = {}

Met(w) == Cardinality(Tasks(w, {"ok"})) >= W

Reported(w) ==
    /\ result[w].written = Cardinality(Tasks(w, {"ok"}))
    /\ result[w].hints = Cardinality(Contacted(w)) - Cardinality(Tasks(w, {"ok"}))
    /\ result[w].success <=> Met(w)

Begun == {w \in Write : call[w].phase # "ready"}
Successes == {w \in Write : call[w].phase = "done" /\ Met(w)}
Failures == {w \in Write : call[w].phase = "done" /\ ~Met(w) /\ Contacted(w) # {}}

Counted ==
    /\ stats.total = Cardinality(Begun)
    /\ stats.successful = Cardinality(Successes)
    /\ stats.failed = Cardinality(Failures)

\* Call x has sent its version to nodes, so its clock is fixed.
Started(x) == x \in Write /\ call[x].phase # "ready" /\ Contacted(x) # {} /\ call[x].clock # NoClock

StoredStarted == \A n \in NodeId, k \in Key : store[n][k] # None => Started(store[n][k])

BasisRead ==
    \A w \in Write : basis[w] # None => Started(basis[w]) /\ context[w] = call[basis[w]].clock

Based ==
    \A w \in Write : call[w].phase # "ready" /\ basis[w] # None /\ Contacted(w) # {} =>
        call[w].clock = Increment(context[w], Coordinator)

IInv ==
    /\ Shape /\ Begins /\ Settled
    /\ \A w \in Write : call[w].phase = "done" => Reported(w)
    /\ Counted /\ StoredStarted /\ BasisRead /\ Based
-----------------------------------------------------------------------------
\* Tasks that failed to write are those that were created, less those that wrote.
LEMMA TaskCounts ==
    ASSUME NEW w
    PROVE  /\ IsFiniteSet(Tasks(w, {"ok"})) /\ IsFiniteSet(Contacted(w))
           /\ Cardinality(Tasks(w, {"ok"})) \in Nat /\ Cardinality(Contacted(w)) \in Nat
           /\ Cardinality(Contacted(w) \ Tasks(w, {"ok"})) =
                  Cardinality(Contacted(w)) - Cardinality(Tasks(w, {"ok"}))
           /\ Contacted(w) = {} => ~Met(w)
<1>1. /\ Tasks(w, {"ok"}) \subseteq Contacted(w)
      /\ Contacted(w) \subseteq NodeId
  BY DEF Tasks, Contacted, TaskState
<1>2. IsFiniteSet(Tasks(w, {"ok"})) /\ IsFiniteSet(Contacted(w))
  BY <1>1, FiniteAssumption, FS_Subset
<1>3. Cardinality(Tasks(w, {"ok"})) \in Nat /\ Cardinality(Contacted(w)) \in Nat
  BY <1>2, FS_CardinalityType
<1>4. Contacted(w) \cap Tasks(w, {"ok"}) = Tasks(w, {"ok"})
  BY <1>1
<1>5. Cardinality(Contacted(w) \ Tasks(w, {"ok"})) =
          Cardinality(Contacted(w)) - Cardinality(Contacted(w) \cap Tasks(w, {"ok"}))
  BY <1>2, FS_Difference
<1>6. Contacted(w) = {} => ~Met(w)
  <2> SUFFICES ASSUME Contacted(w) = {} PROVE ~Met(w)
    OBVIOUS
  <2>1. Tasks(w, {"ok"}) = {}
    BY <1>1
  <2>2. Cardinality(Tasks(w, {"ok"})) = 0
    BY <2>1, FS_EmptySet
  <2> QED
    BY <2>2, QuorumAssumption DEF Met
<1> QED
  BY <1>2, <1>3, <1>4, <1>5, <1>6

LEMMA CallSetsFinite ==
    /\ IsFiniteSet(Begun) /\ IsFiniteSet(Successes) /\ IsFiniteSet(Failures)
<1>1. Begun \subseteq Write /\ Successes \subseteq Write /\ Failures \subseteq Write
  BY DEF Begun, Successes, Failures
<1> QED
  BY <1>1, FiniteAssumption, FS_Subset

LEMMA EmptyClock == NoClock \in ClocksOver(Ids, Nat) /\ DOMAIN NoClock = {}
<1>1. NoClock \in [{} -> Nat] /\ {} \in SUBSET Ids
  BY DEF NoClock
<1> QED
  BY <1>1 DEF ClocksOver, NoClock

LEMMA IncrementIsClock ==
    ASSUME NEW c \in ClocksOver(Ids, Nat), NEW n \in Ids
    PROVE  Increment(c, n) \in ClocksOver(Ids, Nat) /\ Increment(c, n) # NoClock
<1>1. Increment(c, n) \in ClocksOver(Ids, Nat)
  BY IncrementClock DEF NatClock
<1>2. n \in DOMAIN Increment(c, n)
  BY DEF Increment
<1> QED
  BY <1>1, <1>2, EmptyClock

LEMMA InitHolds == Init => IInv
<1> SUFFICES ASSUME Init PROVE IInv
  OBVIOUS
<1> USE DEF Init
<1>1. \A w \in Write : call[w].phase = "ready" /\ Contacted(w) = {}
  BY DEF Contacted, Tasks, TaskState
<1>2. Shape
  BY EmptyClock DEF Shape, Phase, TaskState
<1>3. Begun = {} /\ Successes = {} /\ Failures = {}
  BY <1>1 DEF Begun, Successes, Failures
<1>4. Counted
  BY <1>3, FS_EmptySet DEF Counted
<1>5. Begins /\ Settled /\ \A w \in Write : call[w].phase = "done" => Reported(w)
  BY <1>1 DEF Begins, Settled
<1>6. StoredStarted
  BY DEF StoredStarted
<1>7. BasisRead /\ Based
  BY DEF BasisRead, Based
<1> QED
  BY <1>2, <1>4, <1>5, <1>6, <1>7 DEF IInv
-----------------------------------------------------------------------------
\* What is true of a call depends on its record alone.
LEMMA SameCall ==
    ASSUME NEW x, call'[x].phase = call[x].phase, call'[x].task = call[x].task
    PROVE  /\ \A S : Tasks(x, S)' = Tasks(x, S)
           /\ Contacted(x)' = Contacted(x) /\ (Met(x)' <=> Met(x))
BY DEF Tasks, Contacted, Met

\* A step that leaves the calls that are done alone, and begins none, keeps what
\* was counted and reported.
LEMMA CountsKept ==
    ASSUME IInv, stats' = stats, result' = result,
           \A x \in Write : call'[x].phase = call[x].phase,
           \A x \in Write : call[x].phase = "done" => call'[x].task = call[x].task
    PROVE  Counted' /\ \A x \in Write : (call[x].phase = "done" => Reported(x))'
<1>1. ASSUME NEW x \in Write, call[x].phase = "done"
      PROVE  /\ Tasks(x, {"ok"})' = Tasks(x, {"ok"}) /\ Contacted(x)' = Contacted(x)
             /\ Met(x)' <=> Met(x)
  BY <1>1, SameCall
<1>2. Begun' = Begun
  BY DEF Begun
<1>3. Successes' = Successes
  BY <1>1 DEF Successes
<1>4. Failures' = Failures
  BY <1>1 DEF Failures
<1>5. Counted'
  BY <1>2, <1>3, <1>4 DEF IInv, Counted
<1>6. ASSUME NEW x \in Write, call'[x].phase = "done" PROVE Reported(x)'
  <2>1. call[x].phase = "done" /\ Reported(x)
    BY <1>6 DEF IInv
  <2> QED
    BY <1>1, <2>1 DEF Reported
<1> QED
  BY <1>5, <1>6

\* A call that was started stays so, with its clock, if it keeps that clock and the
\* nodes it contacted.
LEMMA StaysStarted ==
    ASSUME NEW x, Started(x), call'[x].clock = call[x].clock, call'[x].phase # "ready",
           Contacted(x)' # {}
    PROVE  Started(x)'
BY DEF Started

LEMMA GetHolds ==
    ASSUME IInv, NEW w \in Write, NEW replicas \in Seq(NodeId), Get(w, replicas)
    PROVE  IInv'
<1> DEFINE version == store[replicas[1]][KeyOf[w]]
<1>1. /\ call[w].phase = "ready" /\ version # None
      /\ basis' = [basis EXCEPT ![w] = version]
      /\ context' = [context EXCEPT ![w] = call[version].clock]
      /\ UNCHANGED <<store, call, result, stats>>
  BY DEF Get
<1>2. replicas[1] \in NodeId /\ KeyOf[w] \in Key
  BY KeyOfAssumption DEF Get
<1>3. Started(version) /\ version \in Write
  BY <1>1, <1>2 DEF IInv, StoredStarted, Started
<1> HIDE DEF version
<1>4. Shape'
  BY <1>1, <1>3 DEF IInv, Shape
<1>5. /\ \A x, S : Tasks(x, S)' = Tasks(x, S)
      /\ \A x : Contacted(x)' = Contacted(x)
      /\ \A x : Started(x)' <=> Started(x)
  BY <1>1 DEF Tasks, Contacted, Started
<1>6. Begins' /\ Settled'
  BY <1>1, <1>5 DEF IInv, Begins, Settled
<1>7. Counted' /\ \A x \in Write : (call[x].phase = "done" => Reported(x))'
  BY <1>1, CountsKept
<1>8. StoredStarted'
  BY <1>1, <1>5 DEF IInv, StoredStarted
<1>9. \A x \in Write : /\ basis'[x] = IF x = w THEN version ELSE basis[x]
                       /\ context'[x] = IF x = w THEN call[version].clock ELSE context[x]
  BY <1>1 DEF IInv, Shape
<1>10. BasisRead'
  BY <1>1, <1>3, <1>5, <1>9 DEF IInv, BasisRead
<1>11. Based'
  BY <1>1, <1>5, <1>9 DEF IInv, Based
<1> QED
  BY <1>4, <1>6, <1>7, <1>8, <1>10, <1>11 DEF IInv

\* A replica task of w ends, as state says, and nothing else happens to calls.
LEMMA TaskEnds ==
    ASSUME IInv, NEW w \in Write, NEW n \in NodeId, NEW state \in {"ok", "failed"},
           call[w].task[n] = "running", call' = [call EXCEPT ![w].task[n] = state],
           UNCHANGED <<context, result, stats, basis>>,
           store' = store \/ store' = [store EXCEPT ![n][KeyOf[w]] = w]
    PROVE  IInv'
<1>1. call \in [Write -> [phase : Phase, clock : ClocksOver(Ids, Nat), task : [NodeId -> TaskState]]]
  BY DEF IInv, Shape
<1>2. n \in Contacted(w) /\ n \in Tasks(w, {"running"})
  BY DEF Contacted, Tasks, TaskState
<1>3. call[w].phase = "waiting"
  BY <1>1, <1>2 DEF IInv, Begins, Settled, Phase
<1>4. /\ call' \in [Write -> [phase : Phase, clock : ClocksOver(Ids, Nat), task : [NodeId -> TaskState]]]
      /\ \A x \in Write : call'[x].phase = call[x].phase /\ call'[x].clock = call[x].clock
      /\ \A x \in Write : x # w => call'[x] = call[x]
      /\ \A m \in NodeId : call'[w].task[m] = IF m = n THEN state ELSE call[w].task[m]
  BY <1>1 DEF TaskState
<1>5. \A x \in Write : Contacted(x)' = Contacted(x)
  <2>1. Contacted(w)' = Contacted(w)
    BY <1>4 DEF Contacted, Tasks, TaskState
  <2> QED
    BY <1>4, <2>1, SameCall
<1>6. \A x \in Write : x # w => Tasks(x, {"running"})' = Tasks(x, {"running"})
  BY <1>4, SameCall
<1>15. /\ store' \in [NodeId -> [Key -> Write \cup {None}]]
       /\ \A m \in NodeId, k \in Key : store'[m][k] = store[m][k] \/ store'[m][k] = w
  <2>1. store \in [NodeId -> [Key -> Write \cup {None}]]
    BY DEF IInv, Shape
  <2>2. CASE store' = store
    BY <2>1, <2>2
  <2>3. CASE store' = [store EXCEPT ![n][KeyOf[w]] = w]
    <3> DEFINE held == [store[n] EXCEPT ![KeyOf[w]] = w]
    <3>1. held \in [Key -> Write \cup {None}] /\ \A k \in Key : held[k] = store[n][k] \/ held[k] = w
      BY <2>1
    <3>2. store' = [store EXCEPT ![n] = held]
      BY <2>3
    <3> HIDE DEF held
    <3>3. store' \in [NodeId -> [Key -> Write \cup {None}]]
      BY <2>1, <3>1, <3>2
    <3>4. \A m \in NodeId : store'[m] = IF m = n THEN held ELSE store[m]
      BY <2>1, <3>2
    <3> QED
      BY <3>1, <3>3, <3>4
  <2> QED
    BY <2>2, <2>3
<1>7. Shape'
  BY <1>4, <1>15 DEF IInv, Shape
<1>8. Begins'
  BY <1>4, <1>5 DEF IInv, Begins
<1>9. Settled'
  BY <1>3, <1>4, <1>6 DEF IInv, Settled
<1>10. Counted' /\ \A x \in Write : (call[x].phase = "done" => Reported(x))'
  BY <1>3, <1>4, CountsKept
<1>11. \A x : Started(x) => Started(x)'
  BY <1>4, <1>5 DEF Started
<1>12. Based'
  BY <1>4, <1>5 DEF IInv, Based
<1>13. BasisRead'
  BY <1>4, <1>11 DEF IInv, BasisRead, Started
<1>14. StoredStarted'
  <2>1. Started(w)
    <3>1. call[w].clock # NoClock
      BY <1>3 DEF IInv, Begins
    <3> QED
      BY <1>2, <1>3, <3>1 DEF Started
  <2>2. \A m \in NodeId, k \in Key : store'[m][k] = store[m][k] \/ store'[m][k] = w
    BY <1>15
  <2> QED
    BY <1>11, <2>1, <2>2 DEF IInv, StoredStarted
<1> QED
  BY <1>7, <1>8, <1>9, <1>10, <1>12, <1>13, <1>14 DEF IInv

LEMMA RejectHolds ==
    ASSUME IInv, NEW w \in Write, NEW replicas, Reject(w, replicas)
    PROVE  IInv'
<1>1. call \in [Write -> [phase : Phase, clock : ClocksOver(Ids, Nat), task : [NodeId -> TaskState]]]
  BY DEF IInv, Shape
<1>2. /\ call[w].phase = "ready" /\ call' = [call EXCEPT ![w].phase = "done"]
      /\ stats' = [stats EXCEPT !.total = @ + 1]
      /\ result' = [result EXCEPT ![w] = [success |-> FALSE, written |-> 0, failed |-> 0, hints |-> 0]]
      /\ UNCHANGED <<store, context, basis>>
  BY DEF Reject
<1>3. /\ call' \in [Write -> [phase : Phase, clock : ClocksOver(Ids, Nat), task : [NodeId -> TaskState]]]
      /\ \A x \in Write : call'[x].task = call[x].task /\ call'[x].clock = call[x].clock
      /\ \A x \in Write : x # w => call'[x] = call[x]
      /\ call'[w].phase = "done"
  BY <1>1, <1>2 DEF Phase
<1>4. ASSUME NEW x \in Write
      PROVE  /\ \A S : Tasks(x, S)' = Tasks(x, S)
             /\ Contacted(x)' = Contacted(x) /\ (Met(x)' <=> Met(x))
  BY <1>3 DEF Tasks, Contacted, Met
<1>5. Contacted(w) = {} /\ ~Met(w) /\ Cardinality(Tasks(w, {"ok"})) = 0
      /\ Tasks(w, {"running"}) = {}
  <2>1. Contacted(w) = {}
    BY <1>2 DEF IInv, Begins
  <2>2. Tasks(w, {"ok"}) \subseteq Contacted(w) /\ Tasks(w, {"running"}) \subseteq Contacted(w)
    BY DEF Tasks, Contacted, TaskState
  <2> QED
    BY <2>1, <2>2, TaskCounts, FS_EmptySet
<1>14. stats' \in [total : Nat, successful : Nat, failed : Nat, hints : Nat]
  <2>1. stats \in [total : Nat, successful : Nat, failed : Nat, hints : Nat]
    BY DEF IInv, Shape
  <2>2. stats.total + 1 \in Nat /\ stats' = [stats EXCEPT !.total = stats.total + 1]
    BY <1>2, <2>1
  <2> QED
    BY <2>1, <2>2
<1>6. Shape'
  BY <1>2, <1>3, <1>14 DEF IInv, Shape
<1>7. Begins' /\ Settled'
  BY <1>3, <1>4, <1>5 DEF IInv, Begins, Settled
<1>8. Counted'
  <2>1. Begun' = Begun \cup {w} /\ w \notin Begun
    BY <1>2, <1>3 DEF Begun
  <2>2. Successes' = Successes
    BY <1>2, <1>3, <1>4, <1>5 DEF Successes
  <2>3. Failures' = Failures
    BY <1>2, <1>3, <1>4, <1>5 DEF Failures
  <2>4. Cardinality(Begun') = Cardinality(Begun) + 1
    BY <2>1, CallSetsFinite, FS_AddElement
  <2>5. /\ stats'.total = stats.total + 1
        /\ stats'.successful = stats.successful /\ stats'.failed = stats.failed
    BY <1>2 DEF IInv, Shape
  <2> QED
    BY <2>2, <2>3, <2>4, <2>5 DEF IInv, Counted
<1>9. ASSUME NEW x \in Write, call'[x].phase = "done" PROVE Reported(x)'
  <2>1. CASE x = w
    <3>1. /\ result'[w].written = 0 /\ result'[w].hints = 0 /\ ~result'[w].success
      BY <1>2 DEF IInv, Shape
    <3>2. Cardinality(Contacted(w)) = 0
      BY <1>5, FS_EmptySet
    <3> QED
      BY <1>4, <1>5, <2>1, <3>1, <3>2 DEF Reported
  <2>2. CASE x # w
    <3>1. result'[x] = result[x] /\ call[x].phase = "done" /\ Reported(x)
      BY <1>2, <1>3, <1>9, <2>2 DEF IInv, Shape
    <3> QED
      BY <1>4, <3>1 DEF Reported
  <2> QED
    BY <2>1, <2>2
<1>10. \A x : Started(x) => Started(x)'
  BY <1>3, <1>4, <1>5 DEF Started
<1>11. StoredStarted'
  BY <1>2, <1>10 DEF IInv, StoredStarted
<1>12. BasisRead'
  BY <1>2, <1>3, <1>10 DEF IInv, BasisRead, Started
<1>13. Based'
  BY <1>2, <1>3, <1>4, <1>5 DEF IInv, Based
<1> QED
  BY <1>6, <1>7, <1>8, <1>9, <1>11, <1>12, <1>13 DEF IInv

LEMMA StartHolds ==
    ASSUME IInv, NEW w \in Write, NEW replicas \in Seq(NodeId), Start(w, replicas)
    PROVE  IInv'
<1> DEFINE sent == {replicas[i] : i \in {j \in DOMAIN replicas : j <= N}}
           clock == ClockOfWrite(w, replicas)
           task == [n \in NodeId |-> IF n \in sent THEN "running" ELSE "none"]
           new == [phase |-> "waiting", clock |-> clock, task |-> task]
<1>1. call \in [Write -> [phase : Phase, clock : ClocksOver(Ids, Nat), task : [NodeId -> TaskState]]]
  BY DEF IInv, Shape
<1>2. /\ call[w].phase = "ready" /\ Len(replicas) >= W /\ call' = [call EXCEPT ![w] = new]
      /\ stats' = [stats EXCEPT !.total = @ + 1]
      /\ UNCHANGED <<store, context, result, basis>>
  BY DEF Start
<1>3. replicas[1] \in NodeId /\ replicas[1] \in sent
  <2>1. Len(replicas) \in Nat /\ 1 <= Len(replicas) /\ 1 <= N
    BY <1>2, QuorumAssumption
  <2>2. 1 \in DOMAIN replicas
    BY <2>1
  <2> QED
    BY <2>1, <2>2
<1>4. /\ clock \in ClocksOver(Ids, Nat) /\ clock # NoClock
      /\ context[w] # NoClock => clock = Increment(context[w], Coordinator)
  <2>1. context[w] \in ClocksOver(Ids, Nat)
    BY DEF IInv, Shape
  <2>2. Coordinator \in Ids /\ replicas[1] \in Ids
    BY <1>3 DEF Ids
  <2>3. New(replicas[1]) \in ClocksOver(Ids, Nat)
    BY <2>2, NewClock DEF NatClock
  <2> QED
    BY <2>1, <2>2, <2>3, IncrementIsClock DEF ClockOfWrite
<1>5. /\ new.phase = "waiting" /\ new.clock = clock
      /\ \A n \in NodeId : new.task[n] = IF n \in sent THEN "running" ELSE "none"
      /\ new \in [phase : Phase, clock : ClocksOver(Ids, Nat), task : [NodeId -> TaskState]]
  BY <1>4 DEF Phase, TaskState
<1> HIDE DEF new, clock, sent
<1>6. /\ call' \in [Write -> [phase : Phase, clock : ClocksOver(Ids, Nat), task : [NodeId -> TaskState]]]
      /\ \A x \in Write : call'[x] = IF x = w THEN new ELSE call[x]
  BY <1>1, <1>2, <1>5
<1>7. ASSUME NEW x \in Write, x # w
      PROVE  /\ \A S : Tasks(x, S)' = Tasks(x, S)
             /\ Contacted(x)' = Contacted(x) /\ (Met(x)' <=> Met(x))
  BY <1>6, <1>7 DEF Tasks, Contacted, Met
<1>8. Contacted(w)' # {}
  <2>1. replicas[1] \in Contacted(w)'
    BY <1>3, <1>5, <1>6 DEF Contacted, Tasks, TaskState
  <2> QED
    BY <2>1
<1>9. stats' \in [total : Nat, successful : Nat, failed : Nat, hints : Nat]
      /\ stats'.total = stats.total + 1
      /\ stats'.successful = stats.successful /\ stats'.failed = stats.failed
  <2>1. stats \in [total : Nat, successful : Nat, failed : Nat, hints : Nat]
    BY DEF IInv, Shape
  <2>2. stats.total + 1 \in Nat /\ stats' = [stats EXCEPT !.total = stats.total + 1]
    BY <1>2, <2>1
  <2> QED
    BY <2>1, <2>2
<1>10. Shape'
  BY <1>2, <1>6, <1>9 DEF IInv, Shape
<1>11. Begins'
  BY <1>4, <1>5, <1>6, <1>7, <1>8 DEF IInv, Begins
<1>12. Settled'
  BY <1>5, <1>6, <1>7 DEF IInv, Settled
<1>13. Counted'
  <2>1. Begun' = Begun \cup {w} /\ w \notin Begun
    BY <1>2, <1>5, <1>6 DEF Begun
  <2>2. Successes' = Successes
    BY <1>2, <1>5, <1>6, <1>7 DEF Successes
  <2>3. Failures' = Failures
    BY <1>2, <1>5, <1>6, <1>7 DEF Failures
  <2>4. Cardinality(Begun') = Cardinality(Begun) + 1
    BY <2>1, CallSetsFinite, FS_AddElement
  <2> QED
    BY <1>9, <2>2, <2>3, <2>4 DEF IInv, Counted
<1>14. ASSUME NEW x \in Write, call'[x].phase = "done" PROVE Reported(x)'
  <2>1. x # w /\ call[x].phase = "done"
    BY <1>5, <1>6, <1>14
  <2>2. result'[x] = result[x] /\ Reported(x)
    BY <1>2, <2>1 DEF IInv
  <2> QED
    BY <1>7, <2>1, <2>2 DEF Reported
<1>15. \A x : Started(x) => x # w /\ call'[x] = call[x] /\ Started(x)'
  BY <1>2, <1>6, <1>7 DEF Started
<1>16. StoredStarted'
  BY <1>2, <1>15 DEF IInv, StoredStarted
<1>17. BasisRead'
  BY <1>2, <1>15 DEF IInv, BasisRead
<1>18. Based'
  <2>1. basis[w] # None => context[w] # NoClock
    BY DEF IInv, BasisRead, Started
  <2> QED
    BY <1>2, <1>4, <1>5, <1>6, <1>7, <2>1 DEF IInv, Based
<1> QED
  BY <1>10, <1>11, <1>12, <1>13, <1>14, <1>16, <1>17, <1>18 DEF IInv

LEMMA FinishHolds ==
    ASSUME IInv, NEW w \in Write, Finish(w)
    PROVE  IInv'
<1> DEFINE ok == Tasks(w, {"ok"})
           missed == Contacted(w) \ ok
           new == [phase |-> "done", clock |-> call[w].clock, task |-> TasksCancelled(w)]
           report == [success |-> Cardinality(ok) >= W, written |-> Cardinality(ok),
                      failed |-> Cardinality(Tasks(w, {"failed"})), hints |-> Cardinality(missed)]
<1>1. call \in [Write -> [phase : Phase, clock : ClocksOver(Ids, Nat), task : [NodeId -> TaskState]]]
  BY DEF IInv, Shape
<1>2. /\ call[w].phase = "waiting" /\ call' = [call EXCEPT ![w] = new]
      /\ result' = [result EXCEPT ![w] = report]
      /\ UNCHANGED <<store, context, basis>>
  BY DEF Finish
<1>3. stats' = [total      |-> stats.total,
                successful |-> stats.successful + (IF Met(w) THEN 1 ELSE 0),
                failed     |-> stats.failed + (IF Met(w) THEN 0 ELSE 1),
                hints      |-> stats.hints + Cardinality(missed)]
  BY DEF Finish, Met
<1>4. /\ report.written = Cardinality(ok) /\ report.hints = Cardinality(missed)
      /\ report.success <=> Met(w)
  BY Zenon DEF Met
<1>5. /\ new.phase = "done" /\ new.clock = call[w].clock
      /\ \A n \in NodeId : new.task[n] =
             IF call[w].task[n] = "running" THEN "cancelled" ELSE call[w].task[n]
      /\ new \in [phase : Phase, clock : ClocksOver(Ids, Nat), task : [NodeId -> TaskState]]
  BY <1>1 DEF TasksCancelled, Phase, TaskState
<1> HIDE DEF new, report
<1>6. /\ call' \in [Write -> [phase : Phase, clock : ClocksOver(Ids, Nat), task : [NodeId -> TaskState]]]
      /\ \A x \in Write : call'[x] = IF x = w THEN new ELSE call[x]
  BY <1>1, <1>2, <1>5
<1>7. ASSUME NEW x \in Write
      PROVE  /\ Tasks(x, {"ok"})' = Tasks(x, {"ok"})
             /\ Contacted(x)' = Contacted(x) /\ (Met(x)' <=> Met(x))
             /\ x # w => Tasks(x, {"running"})' = Tasks(x, {"running"})
  <2>1. Tasks(x, {"ok"})' = Tasks(x, {"ok"})
    BY <1>5, <1>6 DEF Tasks
  <2>2. Contacted(x)' = Contacted(x)
    BY <1>5, <1>6 DEF Contacted, Tasks, TaskState
  <2>3. x # w => Tasks(x, {"running"})' = Tasks(x, {"running"})
    BY <1>6 DEF Tasks
  <2> QED
    BY <2>1, <2>2, <2>3 DEF Met
<1>8. Contacted(w) # {}
  BY <1>2 DEF IInv, Begins
<1>9. Shape'
  <2>1. Cardinality(missed) \in Nat
    <3>1. missed \subseteq NodeId
      BY DEF Contacted, Tasks
    <3> QED
      BY <3>1, FiniteAssumption, FS_Subset, FS_CardinalityType
  <2>2. stats \in [total : Nat, successful : Nat, failed : Nat, hints : Nat]
    BY DEF IInv, Shape
  <2> HIDE DEF missed
  <2>3. stats' \in [total : Nat, successful : Nat, failed : Nat, hints : Nat]
    BY <1>3, <2>1, <2>2
  <2> QED
    BY <1>2, <1>6, <2>3 DEF IInv, Shape
<1>10. Begins'
  BY <1>5, <1>6, <1>7 DEF IInv, Begins
<1>11. Settled'
  <2>1. Tasks(w, {"running"})' = {}
    BY <1>5, <1>6 DEF Tasks
  <2> QED
    BY <1>6, <1>7, <2>1 DEF IInv, Settled
<1>12. Counted'
  <2>1. Begun' = Begun
    BY <1>2, <1>5, <1>6 DEF Begun
  <2>2. Successes' = IF Met(w) THEN Successes \cup {w} ELSE Successes
    BY <1>2, <1>5, <1>6, <1>7 DEF Successes
  <2>3. Failures' = IF Met(w) THEN Failures ELSE Failures \cup {w}
    BY <1>2, <1>5, <1>6, <1>7, <1>8 DEF Failures
  <2>4. w \notin Successes /\ w \notin Failures
    BY <1>2 DEF Successes, Failures
  <2>5. /\ Cardinality(Successes \cup {w}) = Cardinality(Successes) + 1
        /\ Cardinality(Failures \cup {w}) = Cardinality(Failures) + 1
        /\ Cardinality(Successes) \in Nat /\ Cardinality(Failures) \in Nat
    BY <2>4, CallSetsFinite, FS_AddElement, FS_CardinalityType
  <2>6. /\ stats'.total = stats.total
        /\ stats'.successful = stats.successful + (IF Met(w) THEN 1 ELSE 0)
        /\ stats'.failed = stats.failed + (IF Met(w) THEN 0 ELSE 1)
    BY <1>3
  <2>7. CASE Met(w)
    BY <2>1, <2>2, <2>3, <2>5, <2>6, <2>7 DEF IInv, Counted
  <2>8. CASE ~Met(w)
    BY <2>1, <2>2, <2>3, <2>5, <2>6, <2>8 DEF IInv, Counted
  <2> QED
    BY <2>7, <2>8
<1>13. ASSUME NEW x \in Write, call'[x].phase = "done" PROVE Reported(x)'
  <2>1. CASE x = w
    <3>1. result'[w] = report
      BY <1>2 DEF IInv, Shape
    <3>2. Cardinality(missed) = Cardinality(Contacted(w)) - Cardinality(ok)
      BY TaskCounts
    <3>3. result'[w].written = Cardinality(ok) /\ result'[w].hints = Cardinality(missed)
      BY <1>4, <3>1
    <3>4. result'[w].success <=> Met(w)
      BY <1>4, <3>1, Zenon
    <3> QED
      BY <1>7, <2>1, <3>2, <3>3, <3>4 DEF Reported
  <2>2. CASE x # w
    <3>1. result'[x] = result[x] /\ call[x].phase = "done" /\ Reported(x)
      BY <1>2, <1>6, <1>13, <2>2 DEF IInv, Shape
    <3> QED
      BY <1>7, <3>1 DEF Reported
  <2> QED
    BY <2>1, <2>2
<1>14. \A x : Started(x) => Started(x)' /\ call'[x].clock = call[x].clock
  BY <1>5, <1>6, <1>7 DEF Started
<1>15. StoredStarted'
  BY <1>2, <1>14 DEF IInv, StoredStarted
<1>16. BasisRead'
  BY <1>2, <1>14 DEF IInv, BasisRead
<1>17. Based'
  BY <1>2, <1>5, <1>6, <1>7 DEF IInv, Based
<1> QED
  BY <1>9, <1>10, <1>11, <1>12, <1>13, <1>15, <1>16, <1>17 DEF IInv

\* The hint manager changes none of this.
LEMMA ElsewhereHolds ==
    ASSUME IInv, UNCHANGED coordinatorVars
    PROVE  IInv'
<1> USE DEF coordinatorVars
<1>1. /\ \A x, S : Tasks(x, S)' = Tasks(x, S)
      /\ \A x : Contacted(x)' = Contacted(x) /\ (Met(x)' <=> Met(x)) /\ (Started(x)' <=> Started(x))
  BY DEF Tasks, Contacted, Met, Started
<1>2. Shape' /\ Begins' /\ Settled'
  BY <1>1 DEF IInv, Shape, Begins, Settled
<1>3. Counted' /\ \A x \in Write : (call[x].phase = "done" => Reported(x))'
  BY CountsKept
<1>4. StoredStarted' /\ BasisRead' /\ Based'
  BY <1>1 DEF IInv, StoredStarted, BasisRead, Based
<1> QED
  BY <1>2, <1>3, <1>4 DEF IInv
-----------------------------------------------------------------------------
LEMMA StepHolds == IInv /\ [Next]_vars => IInv'
<1> SUFFICES ASSUME IInv, [Next]_vars PROVE IInv'
  OBVIOUS
<1>1. CASE HandoffNext /\ UNCHANGED coordinatorVars
  BY <1>1, ElsewhereHolds
<1>2. ASSUME NEW w \in Write, NEW r \in Routes,
             Get(w, r[KeyOf[w]]) \/ Reject(w, r[KeyOf[w]]) \/ Start(w, r[KeyOf[w]])
      PROVE  IInv'
  <2>1. r[KeyOf[w]] \in Seq(NodeId)
    BY KeyOfAssumption, RoutesAssumption
  <2> QED
    BY <1>2, <2>1, GetHolds, RejectHolds, StartHolds
<1>3. ASSUME NEW w \in Write, Finish(w) PROVE IInv'
  BY <1>3, FinishHolds
<1>4. ASSUME NEW w \in Write, NEW n \in NodeId, ReplicaWrites(w, n) \/ ReplicaFails(w, n)
      PROVE  IInv'
  BY <1>4, TaskEnds DEF ReplicaWrites, ReplicaFails
<1>5. CASE UNCHANGED vars
  BY <1>5, ElsewhereHolds DEF vars
<1> QED
  BY <1>1, <1>2, <1>3, <1>4, <1>5 DEF Next

\* Calls, their tasks, what was counted and what was read fit together, whatever
\* the replicas, the timeout and the forwarding loop do.
THEOREM Invariance == Spec => []IInv
BY InitHolds, StepHolds, PTL DEF Spec

\* What write() reported stays true, and the counters add up.
THEOREM ReportsStayTrue == Spec => []ReportsAreTruthful
<1>1. IInv => ReportsAreTruthful
  <2> SUFFICES ASSUME IInv PROVE ReportsAreTruthful
    OBVIOUS
  <2> DEFINE done == {w \in Write : call[w].phase = "done"}
  <2>1. \A w \in done : Reported(w)
    BY DEF IInv
  <2>2. \A w \in done : result[w].success <=> Cardinality(Tasks(w, {"ok"})) >= W
    BY <2>1 DEF Reported, Met
  <2>3. \A w \in done : /\ result[w].written = Cardinality(Tasks(w, {"ok"}))
                        /\ result[w].hints = Cardinality(Contacted(w)) - result[w].written
    BY <2>1 DEF Reported
  <2>4. {w \in done : result[w].success} = Successes
    BY <2>2 DEF Successes, Met
  <2>5. {w \in done : ~result[w].success /\ Contacted(w) # {}} = Failures
    BY <2>2 DEF Failures, Met
  <2> QED
    BY <2>2, <2>3, <2>4, <2>5 DEF ReportsAreTruthful, IInv, Counted, Begun
<1> QED
  BY <1>1, Invariance, PTL

\* A write based on a version that was read has a clock after that version's.
THEOREM BasedOnWhatWasRead == Spec => []BasedWritesComeAfter
<1>1. IInv => BasedWritesComeAfter
  <2> SUFFICES ASSUME IInv, NEW w \in Write, call[w].phase # "ready", basis[w] # None,
                      Contacted(w) # {}
               PROVE  HappensBefore(call[basis[w]].clock, call[w].clock)
    BY DEF BasedWritesComeAfter
  <2>1. call[w].clock = Increment(context[w], Coordinator) /\ context[w] = call[basis[w]].clock
    BY DEF IInv, Based, BasisRead
  <2>2. context[w] \in NatClock(Ids) /\ Coordinator \in Ids
    BY DEF IInv, Shape, NatClock, Ids
  <2> QED
    BY <2>1, <2>2, IncrementHappensAfter
<1> QED
  BY <1>1, Invariance, PTL
-----------------------------------------------------------------------------
\* No clock counts more than the calls begun.
ClocksBounded ==
    \A w \in Write : \A m \in Ids :
        At(call[w].clock, m) <= Cardinality(Begun) /\ At(context[w], m) <= Cardinality(Begun)

WriteResult == [success : BOOLEAN, written : Nat, failed : Nat, hints : Nat]

Results == result \in [Write -> {None} \cup WriteResult]

\* What the type invariant says of calls needs no more than this.
CallInv == IInv /\ ClocksBounded /\ Results

LEMMA BegunCount ==
    Cardinality(Begun) \in Nat /\ Cardinality(Write) \in Nat /\ Cardinality(Begun) <= Cardinality(Write)
<1>1. Begun \subseteq Write
  BY DEF Begun
<1> QED
  BY <1>1, FiniteAssumption, FS_Subset, FS_CardinalityType

LEMMA CallInvInit == Init => CallInv
<1> SUFFICES ASSUME Init PROVE CallInv
  OBVIOUS
<1>1. IInv
  BY InitHolds
<1>2. \A m : At(NoClock, m) = 0
  BY EmptyClock DEF At
<1>3. ClocksBounded
  <2>1. \A w \in Write : call[w].clock = NoClock /\ context[w] = NoClock
    BY DEF Init
  <2> QED
    BY <1>2, <2>1, BegunCount DEF ClocksBounded
<1> QED
  BY <1>1, <1>3 DEF CallInv, Results, Init

\* A step that begins no call and gives no clock that was not there.
LEMMA ClocksKept ==
    ASSUME CallInv, \A x \in Write : call'[x].phase # "ready" <=> call[x].phase # "ready",
           \A x \in Write : call'[x].clock = call[x].clock,
           \A x \in Write : context'[x] = context[x] \/ \E y \in Write : context'[x] = call[y].clock
    PROVE  ClocksBounded'
<1>1. Begun' = Begun
  BY DEF Begun
<1>2. ASSUME NEW x \in Write, NEW m \in Ids
      PROVE  /\ At(call'[x].clock, m) <= Cardinality(Begun)
             /\ At(context'[x], m) <= Cardinality(Begun)
  BY DEF CallInv, ClocksBounded
<1> QED
  BY <1>1, <1>2 DEF ClocksBounded

LEMMA CallInvStart ==
    ASSUME CallInv, NEW w \in Write, NEW replicas \in Seq(NodeId), Start(w, replicas)
    PROVE  ClocksBounded' /\ Results'
<1> DEFINE clock == ClockOfWrite(w, replicas)
<1>1. /\ call[w].phase = "ready" /\ Len(replicas) >= W
      /\ UNCHANGED <<context, result>>
      /\ \A x \in Write : x # w => call'[x] = call[x]
      /\ call'[w].clock = clock /\ call'[w].phase = "waiting"
  BY DEF Start, CallInv, IInv, Shape
<1>2. Begun' = Begun \cup {w} /\ w \notin Begun
  BY <1>1 DEF Begun
<1>3. Cardinality(Begun') = Cardinality(Begun) + 1 /\ Cardinality(Begun) \in Nat
  BY <1>2, CallSetsFinite, FS_AddElement, BegunCount
<1>4. \A x \in Write : /\ call[x].clock \in NatClock(Ids) /\ context[x] \in NatClock(Ids)
                       /\ \A m \in Ids : At(call[x].clock, m) \in Nat /\ At(context[x], m) \in Nat
  BY AtType DEF CallInv, IInv, Shape, NatClock
<1>5. ASSUME NEW m \in Ids PROVE At(clock, m) \in Nat /\ At(clock, m) <= Cardinality(Begun) + 1
  <2>1. At(context[w], m) <= Cardinality(Begun) /\ At(context[w], m) \in Nat
    BY <1>4 DEF CallInv, ClocksBounded
  <2>2. CASE context[w] # NoClock
    <3>1. Coordinator \in Ids /\ clock = Increment(context[w], Coordinator)
      BY <2>2 DEF Ids, ClockOfWrite
    <3>2. At(clock, m) = IF m = Coordinator THEN At(context[w], Coordinator) + 1 ELSE At(context[w], m)
      BY <1>4, <3>1, IncrementClock
    <3> HIDE DEF clock
    <3> QED
      BY <1>3, <2>1, <3>2
  <2>3. CASE context[w] = NoClock
    <3>1. replicas[1] \in Ids
      <4>1. Len(replicas) \in Nat /\ 1 <= Len(replicas)
        BY <1>1, QuorumAssumption
      <4> QED
        BY <4>1 DEF Ids
    <3>2. New(replicas[1]) \in NatClock(Ids) /\ \A x : At(New(replicas[1]), x) = 0
      BY <3>1, NewClock
    <3>3. clock = Increment(New(replicas[1]), replicas[1])
      BY <2>3 DEF ClockOfWrite
    <3>4. At(clock, m) = IF m = replicas[1] THEN 0 + 1 ELSE 0
      BY <3>1, <3>2, <3>3, IncrementClock
    <3> HIDE DEF clock
    <3> QED
      BY <1>3, <3>4
  <2> QED
    BY <2>2, <2>3
<1> HIDE DEF clock
<1>6. ASSUME NEW x \in Write, NEW m \in Ids
      PROVE  /\ At(call'[x].clock, m) <= Cardinality(Begun')
             /\ At(context'[x], m) <= Cardinality(Begun')
  <2>1. /\ At(call[x].clock, m) <= Cardinality(Begun) /\ At(call[x].clock, m) \in Nat
        /\ At(context[x], m) <= Cardinality(Begun) /\ At(context[x], m) \in Nat
    BY <1>4 DEF CallInv, ClocksBounded
  <2>2. At(context'[x], m) <= Cardinality(Begun')
    BY <1>1, <1>3, <2>1
  <2>3. CASE x = w
    BY <1>1, <1>3, <1>5, <2>2, <2>3
  <2>4. CASE x # w
    BY <1>1, <1>3, <2>1, <2>2, <2>4
  <2> QED
    BY <2>3, <2>4
<1> QED
  BY <1>1, <1>6 DEF ClocksBounded, CallInv, Results

LEMMA CallInvNext == CallInv /\ [Next]_vars => CallInv'
<1> SUFFICES ASSUME CallInv, [Next]_vars PROVE CallInv'
  OBVIOUS
<1>1. IInv /\ IInv'
  BY StepHolds DEF CallInv
<1> SUFFICES ClocksBounded' /\ Results'
  BY <1>1 DEF CallInv
<1>2. call \in [Write -> [phase : Phase, clock : ClocksOver(Ids, Nat), task : [NodeId -> TaskState]]]
      /\ DOMAIN result = Write
  BY <1>1 DEF IInv, Shape
<1>3. CASE UNCHANGED coordinatorVars
  <2>1. ClocksBounded'
    BY <1>3, ClocksKept DEF coordinatorVars
  <2> QED
    BY <1>3, <2>1 DEF coordinatorVars, CallInv, Results
<1>4. ASSUME NEW w \in Write, NEW r \in Routes, Get(w, r[KeyOf[w]])
      PROVE  ClocksBounded' /\ Results'
  <2> DEFINE replicas == r[KeyOf[w]]
             version == store[replicas[1]][KeyOf[w]]
  <2>1. /\ version # None /\ context' = [context EXCEPT ![w] = call[version].clock]
        /\ replicas # << >> /\ UNCHANGED <<call, result>>
    BY <1>4 DEF Get
  <2>2. KeyOf[w] \in Key /\ replicas \in Seq(NodeId)
    BY KeyOfAssumption, RoutesAssumption
  <2>3. replicas[1] \in NodeId
    BY <2>1, <2>2
  <2>4. version \in Write
    BY <1>1, <2>1, <2>2, <2>3 DEF IInv, Shape
  <2> HIDE DEF version
  <2>5. \A x \in Write : context'[x] = context[x] \/ context'[x] = call[version].clock
    BY <1>1, <2>1 DEF IInv, Shape
  <2>6. ClocksBounded'
    BY <2>1, <2>4, <2>5, ClocksKept
  <2> QED
    BY <2>1, <2>6 DEF CallInv, Results
<1>5. ASSUME NEW w \in Write, NEW replicas, Reject(w, replicas)
      PROVE  ClocksBounded' /\ Results'
  <2>1. /\ call[w].phase = "ready" /\ call' = [call EXCEPT ![w].phase = "done"]
        /\ result' = [result EXCEPT ![w] = [success |-> FALSE, written |-> 0, failed |-> 0, hints |-> 0]]
        /\ UNCHANGED context
    BY <1>5 DEF Reject
  <2>2. \A x \in Write : call'[x].clock = call[x].clock
    BY <1>2, <2>1
  <2>3. Begun' = Begun \cup {w} /\ w \notin Begun
    BY <1>2, <2>1 DEF Begun
  <2>4. Cardinality(Begun') = Cardinality(Begun) + 1 /\ Cardinality(Begun) \in Nat
    BY <2>3, CallSetsFinite, FS_AddElement, BegunCount
  <2>5. ASSUME NEW x \in Write, NEW m \in Ids
        PROVE  /\ At(call'[x].clock, m) <= Cardinality(Begun')
               /\ At(context'[x], m) <= Cardinality(Begun')
    <3> DEFINE a == At(call[x].clock, m)
               b == At(context[x], m)
    <3>1. a \in Nat /\ b \in Nat
      BY <1>1, AtType DEF IInv, Shape, NatClock
    <3>2. a <= Cardinality(Begun) /\ b <= Cardinality(Begun)
      BY DEF CallInv, ClocksBounded
    <3>3. At(call'[x].clock, m) = a /\ At(context'[x], m) = b
      BY <2>1, <2>2
    <3> HIDE DEF a, b
    <3> QED
      BY <2>4, <3>1, <3>2, <3>3
  <2>6. Results'
    BY <2>1 DEF CallInv, Results, WriteResult
  <2> QED
    BY <2>5, <2>6 DEF ClocksBounded
<1>6. ASSUME NEW w \in Write, Finish(w)
      PROVE  ClocksBounded' /\ Results'
  <2> DEFINE ok == Tasks(w, {"ok"})
             missed == Contacted(w) \ ok
             failed == Tasks(w, {"failed"})
             report == [success |-> Cardinality(ok) >= W, written |-> Cardinality(ok),
                        failed |-> Cardinality(failed), hints |-> Cardinality(missed)]
  <2>1. /\ call[w].phase = "waiting" /\ UNCHANGED context
        /\ call' = [call EXCEPT ![w] = [phase |-> "done", clock |-> call[w].clock,
                                        task |-> TasksCancelled(w)]]
        /\ result' = [result EXCEPT ![w] = report]
    BY <1>6 DEF Finish
  <2>2. ok \subseteq NodeId /\ missed \subseteq NodeId /\ failed \subseteq NodeId
    BY DEF Tasks, Contacted
  <2>3. Cardinality(ok) \in Nat /\ Cardinality(missed) \in Nat /\ Cardinality(failed) \in Nat
    BY <2>2, FiniteAssumption, FS_Subset, FS_CardinalityType
  <2>4. (Cardinality(ok) >= W) \in BOOLEAN
    OBVIOUS
  <2>5. report \in WriteResult
    BY <2>3, <2>4, Zenon DEF WriteResult
  <2> HIDE DEF report, ok, missed, failed
  <2>6. Results'
    BY <2>1, <2>5 DEF CallInv, Results
  <2>7. \A x \in Write : /\ call'[x].clock = call[x].clock
                         /\ call'[x].phase # "ready" <=> call[x].phase # "ready"
    BY <1>2, <2>1
  <2>8. ClocksBounded'
    BY <2>1, <2>7, ClocksKept
  <2> QED
    BY <2>6, <2>8
<1>7. ASSUME NEW w \in Write, NEW n \in NodeId, ReplicaWrites(w, n) \/ ReplicaFails(w, n)
      PROVE  ClocksBounded' /\ Results'
  <2>1. UNCHANGED <<context, result>>
        /\ (call' = [call EXCEPT ![w].task[n] = "ok"] \/ call' = [call EXCEPT ![w].task[n] = "failed"])
    BY <1>7 DEF ReplicaWrites, ReplicaFails
  <2>4. PICK task : call' = [call EXCEPT ![w] = [call[w] EXCEPT !.task = task]]
    BY <2>1
  <2>2. \A x \in Write : /\ call'[x].clock = call[x].clock
                         /\ call'[x].phase # "ready" <=> call[x].phase # "ready"
    BY <1>2, <2>4
  <2>3. ClocksBounded'
    BY <2>1, <2>2, ClocksKept
  <2> QED
    BY <2>1, <2>3 DEF CallInv, Results
<1>8. ASSUME NEW w \in Write, NEW r \in Routes, Start(w, r[KeyOf[w]])
      PROVE  ClocksBounded' /\ Results'
  <2>1. r[KeyOf[w]] \in Seq(NodeId)
    BY KeyOfAssumption, RoutesAssumption
  <2> QED
    BY <1>8, <2>1, CallInvStart
<1> QED
  BY <1>3, <1>4, <1>5, <1>6, <1>7, <1>8 DEF Next, vars
-----------------------------------------------------------------------------
\* write() w ended without an answer from n, which it had contacted.
Missed(w, n) == call[w].phase = "done" /\ n \in Contacted(w) /\ call[w].task[n] # "ok"

HintsRight ==
    \A n \in NodeId : \A i \in DOMAIN hints[n] :
        hints[n][i].key = KeyOf[hints[n][i].write] /\ Missed(hints[n][i].write, n)

LeftRight == \A l \in left : l.node \in NodeId /\ l.write \in Write /\ Missed(l.write, l.node)

\* The walk has passed the hints it has forwarded, and is not past the end by more
\* than one.
WalkInBounds ==
    forward.pc = "walking" =>
        /\ forward.index <= Len(hints[forward.target]) + 1
        /\ \A i \in forward.forwarded : i \in Nat /\ 1 <= i /\ i < forward.index

Pending(w, n) == \E i \in DOMAIN hints[n] : hints[n][i].write = w

LeftFor(w, n) == \E l \in left : l.node = n /\ l.write = w

Accounted == \A w \in Write, n \in NodeId : Missed(w, n) => Pending(w, n) \/ LeftFor(w, n)

\* A list has at most one hint of a write, and none of one that left it.
Once ==
    \A n \in NodeId : \A i, j \in DOMAIN hints[n] :
        hints[n][i].write = hints[n][j].write => i = j

NotBoth == \A l \in left : ~Pending(l.write, l.node)

HintInv ==
    /\ HandoffTypeOK
    /\ HintsRight
    /\ LeftRight
    /\ WalkInBounds
    /\ Accounted
    /\ Once
    /\ NotBoth

LEMMA HintInvInit == Init => HintInv
<1> SUFFICES ASSUME Init PROVE HintInv
  OBVIOUS
<1>1. HandoffTypeOK
  BY HandoffBounds DEF Init, HandoffInit, HandoffTypeOK
<1>2. \A n \in NodeId : DOMAIN hints[n] = {}
  BY DEF Init, HandoffInit
<1>3. WalkInBounds
  BY DEF Init, HandoffInit, WalkInBounds, Asleep
<1>4. Accounted
  BY DEF Init, Accounted, Missed
<1>5. Once /\ NotBoth
  BY <1>2 DEF Init, HandoffInit, Once, NotBoth
<1> QED
  BY <1>1, <1>2, <1>3, <1>4, <1>5 DEF HintInv, HintsRight, LeftRight, Init, HandoffInit

\* What stays of a list with one hint per write is such a list, and has none of the
\* writes that were taken out.
LEMMA SublistOnce ==
    ASSUME NEW s \in Seq(Hint), NEW I \in SUBSET DOMAIN s,
           \A i, j \in DOMAIN s : s[i].write = s[j].write => i = j
    PROVE  /\ \A k, l \in DOMAIN Sublist(s, I) :
                  Sublist(s, I)[k].write = Sublist(s, I)[l].write => k = l
           /\ \A k \in DOMAIN Sublist(s, I), i \in DOMAIN s \ I :
                  Sublist(s, I)[k].write # s[i].write
<1> DEFINE t == Sublist(s, I)
<1>1. \A k \in DOMAIN t : \E i \in I : t[k] = s[i]
  BY SublistKeeps
<1>2. \A k, l \in DOMAIN t : k < l => \E i, j \in I : i < j /\ t[k] = s[i] /\ t[l] = s[j]
  BY SublistOrder
<1>3. \A i \in I : i \in Nat
  OBVIOUS
<1>4. \A k \in DOMAIN t : k \in Nat
  BY DEF Sublist
<1> HIDE DEF t
<1>5. ASSUME NEW k \in DOMAIN t, NEW l \in DOMAIN t, k < l
      PROVE  t[k].write # t[l].write
  <2>1. PICK i, j \in I : i < j /\ t[k] = s[i] /\ t[l] = s[j]
    BY <1>2, <1>5
  <2> QED
    BY <1>3, <2>1
<1>6. \A k, l \in DOMAIN t : t[k].write = t[l].write => k = l
  <2> SUFFICES ASSUME NEW k \in DOMAIN t, NEW l \in DOMAIN t, k # l
               PROVE  t[k].write # t[l].write
    OBVIOUS
  <2>1. k < l \/ l < k
    BY <1>4
  <2> QED
    BY <1>5, <2>1
<1>7. \A k \in DOMAIN t, i \in DOMAIN s \ I : t[k].write # s[i].write
  BY <1>1
<1> QED
  BY <1>6, <1>7 DEF t

LEMMA HintParts ==
    ASSUME HintInv, NEW n \in NodeId
    PROVE  /\ hints \in [NodeId -> Seq(Hint)] /\ hints[n] \in Seq(Hint)
           /\ Len(hints[n]) \in Nat /\ DOMAIN hints[n] = 1 .. Len(hints[n])
           /\ \A i \in DOMAIN hints[n] : hints[n][i] \in Hint /\ hints[n][i].write \in Write
<1>1. hints \in [NodeId -> Seq(Hint)]
  BY DEF HintInv, HandoffTypeOK
<1>2. hints[n] \in Seq(Hint)
  BY <1>1
<1>3. \A i \in DOMAIN hints[n] : hints[n][i] \in Hint
  BY <1>2
<1>4. \A h \in Hint : h.write \in Write
  BY DEF Hint
<1> QED
  BY <1>1, <1>2, <1>3, <1>4

LEMMA WalkType ==
    ASSUME HintInv, forward.pc = "walking"
    PROVE  /\ forward \in Walking /\ forward.target \in NodeId /\ forward.index \in Nat \ {0}
           /\ forward.forwarded \in SUBSET Nat /\ forward.targets \in SUBSET NodeId
<1>1. forward # Asleep
  BY DEF Asleep
<1> QED
  BY <1>1 DEF HintInv, HandoffTypeOK, Walking

\* Where the loop goes next.
LEMMA VisitType ==
    ASSUME NEW ts \in SUBSET NodeId, NEW f \in Visit(ts)
    PROVE  /\ f \in {Asleep} \cup Walking
           /\ f.pc = "walking" => f.target \in NodeId /\ f.forwarded = {} /\ f.index = 1
<1>1. CASE ts = {}
  BY <1>1 DEF Visit, Asleep
<1>2. CASE ts # {}
  <2>1. PICK t \in ts : f = [pc |-> "walking", target |-> t, index |-> 1, forwarded |-> {},
                            targets |-> ts \ {t}]
    BY <1>2 DEF Visit
  <2> QED
    BY <2>1 DEF Walking
<1> QED
  BY <1>1, <1>2

\* As long as no call changes: what hints remain stood in the lists before, what
\* is recorded as left stood there too, and no hint disappears without a record.
LEMMA HintsAccounted ==
    ASSUME HintInv, call' = call,
           \A n \in NodeId : \A j \in DOMAIN hints'[n] : \E i \in DOMAIN hints[n] :
               hints'[n][j].key = hints[n][i].key /\ hints'[n][j].write = hints[n][i].write,
           left \subseteq left',
           \A l \in left' \ left : /\ l.node \in NodeId
                                   /\ Pending(l.write, l.node) /\ ~Pending(l.write, l.node)',
           \A w \in Write, n \in NodeId : Pending(w, n) => Pending(w, n)' \/ LeftFor(w, n)'
    PROVE  HintsRight' /\ LeftRight' /\ Accounted' /\ NotBoth'
<1>1. \A w, n : Missed(w, n)' <=> Missed(w, n)
  BY DEF Missed, Contacted, Tasks
<1>2. HintsRight'
  BY <1>1 DEF HintInv, HintsRight
<1>3. LeftRight'
  <2>1. ASSUME NEW l \in left', l \notin left
        PROVE  l.node \in NodeId /\ l.write \in Write /\ Missed(l.write, l.node)
    BY <2>1, HintParts DEF Pending, HintInv, HintsRight
  <2> QED
    BY <1>1, <2>1 DEF HintInv, LeftRight
<1>4. ASSUME NEW w \in Write, NEW n \in NodeId, Missed(w, n)'
      PROVE  Pending(w, n)' \/ LeftFor(w, n)'
  <2>1. Pending(w, n) \/ LeftFor(w, n)
    BY <1>1, <1>4 DEF HintInv, Accounted
  <2>2. CASE Pending(w, n)
    BY <2>2
  <2>3. CASE LeftFor(w, n)
    BY <2>3 DEF LeftFor
  <2> QED
    BY <2>1, <2>2, <2>3
<1>5. NotBoth'
  <2>1. ASSUME NEW w, NEW n \in NodeId, Pending(w, n)' PROVE Pending(w, n)
    BY <2>1 DEF Pending
  <2>2. ASSUME NEW l \in left' PROVE ~Pending(l.write, l.node)'
    <3>1. CASE l \in left
      BY <2>1, <3>1 DEF HintInv, NotBoth, LeftRight
    <3>2. CASE l \notin left
      BY <3>2
    <3> QED
      BY <3>1, <3>2
  <2> QED
    BY <2>2 DEF NotBoth
<1> QED
  BY <1>2, <1>3, <1>4, <1>5 DEF Accounted

LEMMA WakeHolds ==
    ASSUME HintInv, Wake, UNCHANGED coordinatorVars
    PROVE  HintInv'
<1> DEFINE Kept(n) == {i \in DOMAIN hints[n] : ~IsExpired(hints[n][i])}
           Expired(n) == {i \in DOMAIN hints[n] : IsExpired(hints[n][i])}
           targets == {n \in NodeId : hints'[n] # << >>}
<1>1. /\ hints' = [n \in NodeId |-> Sublist(hints[n], Kept(n))]
      /\ forward' \in Visit(targets)
      /\ left' = left \cup UNION {Leaving(n, Expired(n), "expired") : n \in NodeId}
      /\ UNCHANGED <<running, now, stops, call>>
  BY DEF Wake, coordinatorVars
<1>2. ASSUME NEW n \in NodeId
      PROVE  /\ hints'[n] \in Seq(Hint)
             /\ \A j \in DOMAIN hints'[n] : \E i \in Kept(n) : hints'[n][j] = hints[n][i]
             /\ \A i \in Kept(n) : \E j \in DOMAIN hints'[n] : hints'[n][j] = hints[n][i]
             /\ \A i, j \in DOMAIN hints'[n] : hints'[n][i].write = hints'[n][j].write => i = j
             /\ \A j \in DOMAIN hints'[n], i \in DOMAIN hints[n] \ Kept(n) :
                    hints'[n][j].write # hints[n][i].write
  <2>1. hints[n] \in Seq(Hint) /\ Kept(n) \in SUBSET DOMAIN hints[n] /\ hints'[n] = Sublist(hints[n], Kept(n))
    BY <1>1, HintParts
  <2>2. \A i, j \in DOMAIN hints[n] : hints[n][i].write = hints[n][j].write => i = j
    BY DEF HintInv, Once
  <2> HIDE DEF Kept
  <2>3. /\ hints'[n] \in Seq(Hint)
        /\ \A j \in DOMAIN hints'[n] : \E i \in Kept(n) : hints'[n][j] = hints[n][i]
        /\ \A i \in Kept(n) : \E j \in DOMAIN hints'[n] : hints'[n][j] = hints[n][i]
    BY <2>1, SublistKeeps
  <2>4. /\ \A i, j \in DOMAIN hints'[n] : hints'[n][i].write = hints'[n][j].write => i = j
        /\ \A j \in DOMAIN hints'[n], i \in DOMAIN hints[n] \ Kept(n) :
               hints'[n][j].write # hints[n][i].write
    <3> DEFINE s == hints[n]
               I == Kept(n)
    <3>1. s \in Seq(Hint) /\ I \in SUBSET DOMAIN s /\ hints'[n] = Sublist(s, I)
      BY <2>1
    <3>2. \A i, j \in DOMAIN s : s[i].write = s[j].write => i = j
      BY <2>2
    <3> HIDE DEF s, I
    <3>3. /\ \A k, l \in DOMAIN Sublist(s, I) :
                 Sublist(s, I)[k].write = Sublist(s, I)[l].write => k = l
          /\ \A k \in DOMAIN Sublist(s, I), i \in DOMAIN s \ I :
                 Sublist(s, I)[k].write # s[i].write
      BY <3>1, <3>2, SublistOnce
    <3> QED
      BY <3>1, <3>3 DEF s, I
  <2> QED
    BY <2>3, <2>4
<1>3. HandoffTypeOK'
  <2>1. hints' \in [NodeId -> Seq(Hint)]
    BY <1>1, <1>2
  <2>2. forward' \in {Asleep} \cup Walking
    <3>1. targets \in SUBSET NodeId
      OBVIOUS
    <3> HIDE DEF targets
    <3> QED
      BY <1>1, <3>1, VisitType
  <2> QED
    BY <1>1, <2>1, <2>2 DEF HintInv, HandoffTypeOK
<1>4. WalkInBounds'
  <2> DEFINE f == forward'
  <2>1. f.pc = "walking" => f.target \in NodeId /\ f.forwarded = {} /\ f.index = 1
    <3>1. targets \in SUBSET NodeId /\ f \in Visit(targets)
      BY <1>1
    <3> HIDE DEF targets, f
    <3> QED
      BY <3>1, VisitType
  <2>2. \A n \in NodeId : Len(hints'[n]) \in Nat
    BY <1>2
  <2> QED
    BY <2>1, <2>2 DEF WalkInBounds
<1>5. \A n \in NodeId : \A j \in DOMAIN hints'[n] : \E i \in DOMAIN hints[n] :
          hints'[n][j].key = hints[n][i].key /\ hints'[n][j].write = hints[n][i].write
  <2>1. TAKE n \in NodeId
  <2>2. \A i \in Kept(n) : i \in DOMAIN hints[n]
    OBVIOUS
  <2>3. \A j \in DOMAIN hints'[n] : \E i \in Kept(n) : hints'[n][j] = hints[n][i]
    BY <1>2
  <2> HIDE DEF Kept
  <2> QED
    BY <2>2, <2>3
<1>6. \A l \in left' \ left : \E n \in NodeId : \E i \in DOMAIN hints[n] \ Kept(n) :
          l.node = n /\ l.write = hints[n][i].write
  BY <1>1 DEF Leaving
<1>7. ASSUME NEW w \in Write, NEW n \in NodeId, Pending(w, n)
      PROVE  Pending(w, n)' \/ LeftFor(w, n)'
  <2>1. PICK i \in DOMAIN hints[n] : hints[n][i].write = w
    BY <1>7 DEF Pending
  <2>2. CASE i \in Kept(n)
    BY <1>2, <2>1, <2>2 DEF Pending
  <2>3. CASE i \notin Kept(n)
    <3> DEFINE l == [node |-> n, write |-> w, why |-> "expired"]
    <3>1. l \in Leaving(n, Expired(n), "expired")
      BY <2>1, <2>3 DEF Leaving
    <3>2. l \in left' /\ l.node = n /\ l.write = w
      BY <1>1, <3>1
    <3> QED
      BY <3>2 DEF LeftFor
  <2> QED
    BY <2>2, <2>3
<1>8. \A l \in left' \ left : /\ l.node \in NodeId
                              /\ Pending(l.write, l.node) /\ ~Pending(l.write, l.node)'
  BY <1>2, <1>6 DEF Pending
<1>9. left \subseteq left'
  BY <1>1
<1>11. Once'
  BY <1>2 DEF Once
<1> HIDE DEF Kept, Expired, targets
<1>10. HintsRight' /\ LeftRight' /\ Accounted' /\ NotBoth'
  BY <1>1, <1>5, <1>7, <1>8, <1>9, HintsAccounted
<1> QED
  BY <1>3, <1>4, <1>10, <1>11 DEF HintInv

\* The walk goes on to the next hint, having forwarded this one or not.
LEMMA AdvanceHolds ==
    ASSUME HintInv, AtHint, NEW more \in SUBSET {forward.index},
           forward' = [forward EXCEPT !.index = forward.index + 1,
                                      !.forwarded = forward.forwarded \cup more],
           hints' = hints \/ (/\ ShouldRetry(Current)
                              /\ hints' = [hints EXCEPT ![forward.target][forward.index] = Refused(@)]),
           UNCHANGED <<running, now, stops, left>>, UNCHANGED coordinatorVars
    PROVE  HintInv'
<1> DEFINE t == forward.target
           i == forward.index
<1>1. /\ forward \in Walking /\ t \in NodeId /\ i \in Nat \ {0}
      /\ forward.forwarded \in SUBSET Nat
  BY WalkType DEF AtHint
<1>2. /\ forward'.pc = "walking" /\ forward'.target = t /\ forward'.index = i + 1
      /\ forward'.forwarded = forward.forwarded \cup more
      /\ forward' \in Walking
  <2>1. i + 1 \in Nat \ {0} /\ forward.forwarded \cup more \in SUBSET Nat
    BY <1>1
  <2> QED
    BY <1>1, <2>1 DEF Walking
<1> DEFINE list == hints[t]
<1>3. list \in Seq(Hint) /\ i \in DOMAIN list /\ i <= Len(list)
  BY <1>1, HintParts DEF AtHint
<1>4. \E g : /\ g \in Hint /\ g.key = list[i].key /\ g.write = list[i].write
             /\ hints' = [hints EXCEPT ![t] = [list EXCEPT ![i] = g]]
  <2>1. list[i] \in Hint
    BY <1>3
  <2>2. CASE hints' = hints
    <3>1. hints = [hints EXCEPT ![t] = [list EXCEPT ![i] = list[i]]]
      BY <1>1, <1>3, HintParts
    <3> QED
      BY <2>1, <2>2, <3>1
  <2>3. CASE /\ ShouldRetry(Current)
             /\ hints' = [hints EXCEPT ![forward.target][forward.index] = Refused(@)]
    <3> DEFINE h == list[i]
               g == Refused(h)
    <3>1. h.retryCount < MaxRetries /\ h \in Hint
      BY <2>1, <2>3 DEF ShouldRetry, Current
    <3>2. g \in Hint /\ g.key = h.key /\ g.write = h.write
      BY <3>1, RetriesAssumption DEF Refused, Hint
    <3>3. hints' = [hints EXCEPT ![t] = [list EXCEPT ![i] = g]]
      BY <2>3
    <3> HIDE DEF g
    <3> QED
      BY <3>2, <3>3
  <2> QED
    BY <2>2, <2>3
<1>5. PICK g : /\ g \in Hint /\ g.key = list[i].key /\ g.write = list[i].write
               /\ hints' = [hints EXCEPT ![t] = [list EXCEPT ![i] = g]]
  BY <1>4
<1>6. /\ hints' \in [NodeId -> Seq(Hint)]
      /\ \A n \in NodeId : /\ DOMAIN hints'[n] = DOMAIN hints[n] /\ Len(hints'[n]) = Len(hints[n])
                           /\ \A j \in DOMAIN hints[n] : /\ hints'[n][j].key = hints[n][j].key
                                                         /\ hints'[n][j].write = hints[n][j].write
  <2> DEFINE new == [list EXCEPT ![i] = g]
  <2>1. /\ new \in Seq(Hint) /\ DOMAIN new = DOMAIN list /\ Len(new) = Len(list)
        /\ \A j \in DOMAIN list : new[j] = IF j = i THEN g ELSE list[j]
    BY <1>3, <1>5
  <2> HIDE DEF new
  <2>2. \A n \in NodeId : hints'[n] = IF n = t THEN new ELSE hints[n]
    BY <1>1, <1>5, HintParts DEF new
  <2>3. hints' \in [NodeId -> Seq(Hint)]
    BY <1>1, <1>5, <2>1, HintParts DEF new
  <2> QED
    BY <1>5, <2>1, <2>2, <2>3
<1>7. HandoffTypeOK'
  BY <1>2, <1>6 DEF HintInv, HandoffTypeOK
<1>8. WalkInBounds'
  <2>1. \A x \in forward.forwarded \cup more : x \in Nat /\ 1 <= x /\ x < i + 1
    <3>1. \A x \in forward.forwarded : x \in Nat /\ 1 <= x /\ x < i
      BY <1>1 DEF HintInv, WalkInBounds, AtHint
    <3> QED
      BY <1>1, <3>1
  <2>2. i + 1 <= Len(hints'[t]) + 1
    <3>1. Len(hints'[t]) = Len(list) /\ Len(list) \in Nat
      BY <1>1, <1>6, HintParts
    <3> QED
      BY <1>1, <1>3, <3>1
  <2> QED
    BY <1>2, <2>1, <2>2 DEF WalkInBounds
<1>9. \A w \in Write, n \in NodeId : Pending(w, n) => Pending(w, n)'
  BY <1>6 DEF Pending
<1>11. Once'
  BY <1>6 DEF HintInv, Once
<1>10. HintsRight' /\ LeftRight' /\ Accounted' /\ NotBoth'
  <2>1. call' = call
    BY DEF coordinatorVars
  <2>2. \A n \in NodeId : \A j \in DOMAIN hints'[n] : \E x \in DOMAIN hints[n] :
            hints'[n][j].key = hints[n][x].key /\ hints'[n][j].write = hints[n][x].write
    BY <1>6
  <2> QED
    BY <1>9, <2>1, <2>2, HintsAccounted
<1> QED
  BY <1>7, <1>8, <1>10, <1>11 DEF HintInv

LEMMA FinishTargetHolds ==
    ASSUME HintInv, FinishTarget, UNCHANGED coordinatorVars
    PROVE  HintInv'
<1> DEFINE t == forward.target
           done == forward.forwarded
           list == hints[t]
           gaveUp == {i \in done : ~ShouldRetry(list[i])}
           twins == Twins(t, done)
           Kept == {j \in DOMAIN list : \A i \in done : ~SameHint(list[j], list[i])}
           stays == Sublist(list, Kept)
<1>1. /\ forward.pc = "walking" /\ forward.index > Len(list)
      /\ hints' = [hints EXCEPT ![t] = stays]
      /\ left' = left \cup Leaving(t, gaveUp, "given up") \cup Leaving(t, done \ gaveUp, "sent")
                      \cup Leaving(t, twins, "twin")
      /\ forward' \in Visit(forward.targets)
      /\ UNCHANGED <<running, now, stops, call>>
  BY DEF FinishTarget, Unforwarded, coordinatorVars
<1>2. /\ t \in NodeId /\ done \in SUBSET Nat /\ forward.targets \in SUBSET NodeId
      /\ forward.index \in Nat
  BY <1>1, WalkType
<1>3. /\ list \in Seq(Hint) /\ DOMAIN list = 1 .. Len(list) /\ Len(list) \in Nat
      /\ \A i \in DOMAIN list : list[i] \in Hint /\ list[i].write \in Write
  BY <1>2, HintParts
<1>4. done \subseteq DOMAIN list
  <2>1. /\ forward.index <= Len(list) + 1
        /\ \A i \in done : i \in Nat /\ 1 <= i /\ i < forward.index
    BY <1>1 DEF HintInv, WalkInBounds
  <2> DEFINE x == forward.index
             len == Len(list)
  <2>2. /\ x \in Nat /\ x <= len + 1 /\ len \in Nat /\ DOMAIN list = 1 .. len
        /\ \A i \in done : i \in Nat /\ 1 <= i /\ i < x
    BY <1>2, <1>3, <2>1
  <2> HIDE DEF x, len, list, done
  <2> QED
    BY <2>2
<1>5. /\ stays \in Seq(Hint)
      /\ \A j \in DOMAIN stays : \E i \in Kept : stays[j] = list[i]
      /\ \A i \in Kept : \E j \in DOMAIN stays : stays[j] = list[i]
      /\ \A i, j \in DOMAIN stays : stays[i].write = stays[j].write => i = j
      /\ \A j \in DOMAIN stays, i \in DOMAIN list \ Kept : stays[j].write # list[i].write
  <2>1. Kept \in SUBSET DOMAIN list
    OBVIOUS
  <2>2. \A i, j \in DOMAIN list : list[i].write = list[j].write => i = j
    BY <1>2 DEF HintInv, Once
  <2> HIDE DEF Kept, list
  <2>3. /\ stays \in Seq(Hint)
        /\ \A j \in DOMAIN stays : \E i \in Kept : stays[j] = list[i]
        /\ \A i \in Kept : \E j \in DOMAIN stays : stays[j] = list[i]
    BY <1>3, <2>1, SublistKeeps
  <2> QED
    BY <1>3, <2>1, <2>2, <2>3, SublistOnce
<1>6. Kept \subseteq DOMAIN list
  OBVIOUS
<1>7. DOMAIN list \ Kept = done \cup twins
  <2>1. \A i \in DOMAIN list : i \notin Kept <=> \E j \in done : SameHint(list[i], list[j])
    OBVIOUS
  <2>2. \A i \in done : SameHint(list[i], list[i])
    BY DEF SameHint
  <2>3. twins = {i \in DOMAIN list \ done : \E j \in done : SameHint(list[i], list[j])}
    BY DEF Twins, SameHint
  <2> HIDE DEF Kept, twins, list, done
  <2> QED
    BY <1>4, <1>6, <2>1, <2>2, <2>3
<1>8. /\ \A l \in left' \ left : \E i \in DOMAIN list \ Kept : l.node = t /\ l.write = list[i].write
      /\ \A i \in DOMAIN list \ Kept : \E l \in left' : l.node = t /\ l.write = list[i].write
  <2>1. ASSUME NEW i \in done \cup twins
        PROVE  \E l \in left' : l.node = t /\ l.write = list[i].write
    <3> DEFINE why == IF i \in gaveUp THEN "given up" ELSE IF i \in done THEN "sent" ELSE "twin"
               l == [node |-> t, write |-> list[i].write, why |-> why]
    <3>1. l \in left'
      BY <1>1 DEF Leaving
    <3>2. l.node = t /\ l.write = list[i].write
      OBVIOUS
    <3> HIDE DEF l
    <3> QED
      BY <3>1, <3>2
  <2>2. \A l \in left' \ left : \E i \in done \cup twins : l.node = t /\ l.write = list[i].write
    <3> SUFFICES ASSUME NEW l \in left', l \notin left
                 PROVE  \E i \in done \cup twins : l.node = t /\ l.write = list[i].write
      OBVIOUS
    <3>1. PICK why : \/ l \in Leaving(t, gaveUp, why) \/ l \in Leaving(t, done \ gaveUp, why)
                     \/ l \in Leaving(t, twins, why)
      BY <1>1
    <3>2. /\ gaveUp \subseteq done \cup twins /\ done \ gaveUp \subseteq done \cup twins
          /\ twins \subseteq done \cup twins
      OBVIOUS
    <3>3. PICK i \in done \cup twins : l = [node |-> t, write |-> hints[t][i].write, why |-> why]
      BY <3>1, <3>2, Zenon DEF Leaving
    <3> QED
      BY <3>3
  <2> HIDE DEF Kept, list, done, twins
  <2> QED
    BY <1>7, <2>1, <2>2
<1>9. /\ hints' \in [NodeId -> Seq(Hint)]
      /\ \A n \in NodeId : hints'[n] = IF n = t THEN stays ELSE hints[n]
  BY <1>1, <1>2, <1>5, HintParts
<1> HIDE DEF Kept, stays, gaveUp, twins
<1>10. HandoffTypeOK'
  <2>1. forward' \in {Asleep} \cup Walking
    BY <1>1, <1>2, VisitType
  <2> QED
    BY <1>1, <1>9, <2>1 DEF HintInv, HandoffTypeOK
<1>11. WalkInBounds'
  <2> DEFINE f == forward'
  <2>1. f.pc = "walking" => f.target \in NodeId /\ f.forwarded = {} /\ f.index = 1
    <3> HIDE DEF f
    <3>1. f \in Visit(forward.targets)
      BY <1>1 DEF f
    <3> QED
      BY <1>2, <3>1, VisitType
  <2>2. \A n \in NodeId : Len(hints'[n]) \in Nat
    BY <1>9
  <2> QED
    BY <2>1, <2>2 DEF WalkInBounds
<1>12. \A n \in NodeId : \A j \in DOMAIN hints'[n] : \E i \in DOMAIN hints[n] :
           hints'[n][j].key = hints[n][i].key /\ hints'[n][j].write = hints[n][i].write
  <2>1. \A j \in DOMAIN stays : \E i \in DOMAIN list : stays[j] = list[i]
    BY <1>5, <1>6
  <2>2. \A n \in NodeId : n = t => hints'[n] = stays /\ hints[n] = list
    BY <1>9
  <2>3. \A n \in NodeId : n # t => hints'[n] = hints[n]
    BY <1>9
  <2> HIDE DEF list
  <2> QED
    BY <2>1, <2>2, <2>3
<1>13. \A l \in left' \ left : /\ l.node \in NodeId
                               /\ Pending(l.write, l.node) /\ ~Pending(l.write, l.node)'
  <2> SUFFICES ASSUME NEW l \in left', l \notin left
               PROVE  /\ l.node \in NodeId
                      /\ Pending(l.write, l.node) /\ ~Pending(l.write, l.node)'
    OBVIOUS
  <2>1. PICK i \in DOMAIN list \ Kept : l.node = t /\ l.write = list[i].write
    BY <1>8
  <2>2. l.node \in NodeId
    BY <1>2, <2>1
  <2>3. Pending(l.write, l.node)
    BY <2>1 DEF Pending
  <2>4. hints'[l.node] = stays
    BY <1>9, <2>1, <2>2
  <2>5. \A j \in DOMAIN stays : stays[j].write # l.write
    BY <1>5, <2>1
  <2>6. ~Pending(l.write, l.node)'
    BY <2>4, <2>5 DEF Pending
  <2> QED
    BY <2>2, <2>3, <2>6
<1>14. ASSUME NEW w \in Write, NEW n \in NodeId, Pending(w, n)
       PROVE  Pending(w, n)' \/ LeftFor(w, n)'
  <2>1. PICK i \in DOMAIN hints[n] : hints[n][i].write = w
    BY <1>14 DEF Pending
  <2>2. CASE n # t
    BY <1>9, <2>1, <2>2 DEF Pending
  <2>3. CASE n = t /\ i \in Kept
    <3>1. \E j \in DOMAIN hints'[n] : hints'[n][j].write = w
      BY <1>5, <1>9, <2>1, <2>3
    <3> QED
      BY <3>1 DEF Pending
  <2>4. CASE n = t /\ i \notin Kept
    BY <1>8, <2>1, <2>4 DEF LeftFor
  <2> QED
    BY <2>2, <2>3, <2>4
<1>15. HintsRight' /\ LeftRight' /\ Accounted' /\ NotBoth'
  <2>1. call' = call /\ left \subseteq left'
    BY <1>1
  <2> QED
    BY <1>12, <1>13, <1>14, <2>1, HintsAccounted
<1>16. Once'
  <2> SUFFICES ASSUME NEW n \in NodeId, NEW i \in DOMAIN hints'[n], NEW j \in DOMAIN hints'[n],
                      hints'[n][i].write = hints'[n][j].write
               PROVE  i = j
    BY DEF Once
  <2>1. CASE n = t
    BY <1>5, <1>9, <2>1
  <2>2. CASE n # t
    BY <1>9, <2>2 DEF HintInv, Once
  <2> QED
    BY <2>1, <2>2
<1> QED
  BY <1>10, <1>11, <1>15, <1>16 DEF HintInv

\* Steps of the manager that leave the lists and the walk as they are, or end it.
LEMMA NoHintMoves ==
    ASSUME HintInv, UNCHANGED <<hints, left, call>>, HandoffTypeOK',
           forward' = forward \/ forward' = Asleep
    PROVE  HintInv'
<1>1. HintsRight' /\ LeftRight' /\ Accounted' /\ Once' /\ NotBoth'
  BY DEF HintInv, HintsRight, LeftRight, Accounted, Once, NotBoth, Pending, LeftFor, Missed,
         Contacted, Tasks
<1>2. WalkInBounds'
  BY DEF HintInv, WalkInBounds, Asleep
<1> QED
  BY <1>1, <1>2 DEF HintInv

LEMMA HandoffHolds ==
    ASSUME HintInv, HandoffNext, UNCHANGED coordinatorVars
    PROVE  HintInv'
<1>1. CASE Wake
  BY <1>1, WakeHolds
<1>2. CASE FinishTarget
  BY <1>2, FinishTargetHolds
<1>3. CASE GiveUp
  <2>1. {forward.index} \in SUBSET {forward.index}
    OBVIOUS
  <2> QED
    BY <1>3, <2>1, AdvanceHolds DEF GiveUp
<1>4. ASSUME NEW success \in SendResults, Send(success) PROVE HintInv'
  <2>1. CASE success
    <3>1. {forward.index} \in SUBSET {forward.index}
      OBVIOUS
    <3> QED
      BY <1>4, <2>1, <3>1, AdvanceHolds DEF Send
  <2>2. CASE ~success
    <3> DEFINE more == {}
    <3>1. more \in SUBSET {forward.index}
      OBVIOUS
    <3>2. forward' = [forward EXCEPT !.index = forward.index + 1,
                                     !.forwarded = forward.forwarded \cup more]
      <4>1. AtHint
        BY <1>4 DEF Send
      <4>2. forward \in Walking
        BY <4>1, WalkType DEF AtHint
      <4>3. forward' = [forward EXCEPT !.index = forward.index + 1]
        BY <1>4, <2>2 DEF Send
      <4>4. forward.forwarded \cup more = forward.forwarded
        OBVIOUS
      <4> QED
        BY <4>2, <4>3, <4>4 DEF Walking
    <3> HIDE DEF more
    <3> QED
      BY <1>4, <2>2, <3>1, <3>2, AdvanceHolds DEF Send
  <2> QED
    BY <2>1, <2>2
<1>5. CASE Stop
  <2>1. HandoffTypeOK'
    <3>1. stops' \in 0 .. MaxStops
      BY <1>5, HandoffBounds DEF Stop, HintInv, HandoffTypeOK
    <3>2. /\ running' = FALSE /\ forward' = Asleep /\ hints' = hints /\ now' = now
          /\ hints \in [NodeId -> Seq(Hint)] /\ now \in 0 .. MaxTime
      BY <1>5 DEF Stop, HintInv, HandoffTypeOK
    <3>3. Asleep \in {Asleep} \cup Walking /\ FALSE \in BOOLEAN
      OBVIOUS
    <3> QED
      BY <3>1, <3>2, <3>3, Zenon DEF HandoffTypeOK
  <2> QED
    BY <1>5, <2>1, NoHintMoves DEF Stop, coordinatorVars
<1>6. CASE Restart
  <2>1. HandoffTypeOK'
    BY <1>6 DEF Restart, HintInv, HandoffTypeOK
  <2> QED
    BY <1>6, <2>1, NoHintMoves DEF Restart, coordinatorVars
<1>7. CASE Tick
  <2>1. HandoffTypeOK'
    BY <1>7, HandoffBounds DEF Tick, HintInv, HandoffTypeOK
  <2> QED
    BY <1>7, <2>1, NoHintMoves DEF Tick, coordinatorVars
<1> QED
  BY <1>1, <1>2, <1>3, <1>4, <1>5, <1>6, <1>7 DEF HandoffNext, ForwardLoop

\* A step of a call before its end makes no miss and touches no hint.
LEMMA NoNewMiss ==
    ASSUME HintInv, UNCHANGED handoffVars,
           \A x \in Write, n \in NodeId : Missed(x, n)' <=> Missed(x, n)
    PROVE  HintInv'
<1>1. /\ hints' = hints /\ left' = left /\ forward' = forward
      /\ running' = running /\ now' = now /\ stops' = stops
  BY DEF handoffVars
<1>2. HandoffTypeOK'
  BY <1>1 DEF HintInv, HandoffTypeOK
<1>3. HintsRight'
  BY <1>1, HintParts DEF HintInv, HintsRight
<1>4. LeftRight'
  BY <1>1 DEF HintInv, LeftRight
<1>5. WalkInBounds'
  BY <1>1 DEF HintInv, WalkInBounds
<1>6. \A x, n : (Pending(x, n)' <=> Pending(x, n)) /\ (LeftFor(x, n)' <=> LeftFor(x, n))
  BY <1>1 DEF Pending, LeftFor
<1>7. Accounted' /\ NotBoth'
  BY <1>1, <1>6 DEF HintInv, Accounted, NotBoth
<1>8. Once'
  BY <1>1 DEF HintInv, Once
<1> QED
  BY <1>2, <1>3, <1>4, <1>5, <1>7, <1>8 DEF HintInv

\* A call that is not over, and was not, has missed no node yet.
LEMMA NotOver ==
    ASSUME IInv, HintInv, UNCHANGED handoffVars, NEW w \in Write,
           \A x \in Write : x # w => call'[x] = call[x],
           \A n \in NodeId : ~Missed(w, n) /\ ~Missed(w, n)'
    PROVE  HintInv'
<1>1. \A x \in Write, n \in NodeId : x # w => (Missed(x, n)' <=> Missed(x, n))
  BY DEF Missed, Contacted, Tasks
<1>2. \A x \in Write, n \in NodeId : Missed(x, n)' <=> Missed(x, n)
  BY <1>1
<1> QED
  BY <1>2, NoNewMiss

LEMMA CallMovesHold ==
    ASSUME IInv, HintInv, NEW w \in Write, NEW replicas \in Seq(NodeId), NEW n \in NodeId,
           \/ Get(w, replicas) \/ Reject(w, replicas) \/ Start(w, replicas)
           \/ ReplicaWrites(w, n) \/ ReplicaFails(w, n)
    PROVE  HintInv'
<1>1. call \in [Write -> [phase : Phase, clock : ClocksOver(Ids, Nat), task : [NodeId -> TaskState]]]
  BY DEF IInv, Shape
<1>2. CASE Get(w, replicas)
  <2>1. \A x \in Write, m \in NodeId : Missed(x, m)' <=> Missed(x, m)
    BY <1>2 DEF Get, Missed, Contacted, Tasks
  <2> QED
    BY <1>2, <2>1, NoNewMiss DEF Get
<1>3. CASE Reject(w, replicas)
  <2>1. call[w].phase = "ready" /\ call' = [call EXCEPT ![w].phase = "done"]
    BY <1>3 DEF Reject
  <2>2. Contacted(w) = {} /\ \A m : ~Missed(w, m)
    BY <2>1 DEF IInv, Begins, Missed
  <2>3. call'[w].task = call[w].task /\ \A x \in Write : x # w => call'[x] = call[x]
    BY <1>1, <2>1
  <2>4. \A m : ~Missed(w, m)'
    BY <2>2, <2>3 DEF Missed, Contacted, Tasks
  <2> QED
    BY <1>3, <2>2, <2>3, <2>4, NotOver DEF Reject
<1>4. CASE Start(w, replicas)
  <2> DEFINE sent == {replicas[i] : i \in {j \in DOMAIN replicas : j <= N}}
             new == [phase |-> "waiting", clock |-> ClockOfWrite(w, replicas),
                     task |-> [m \in NodeId |-> IF m \in sent THEN "running" ELSE "none"]]
  <2>1. call[w].phase = "ready" /\ call' = [call EXCEPT ![w] = new] /\ new.phase = "waiting"
    BY <1>4 DEF Start
  <2> HIDE DEF new
  <2>2. call'[w].phase = "waiting" /\ \A x \in Write : x # w => call'[x] = call[x]
    BY <1>1, <2>1
  <2>3. \A m : ~Missed(w, m) /\ ~Missed(w, m)'
    BY <2>1, <2>2 DEF Missed
  <2> QED
    BY <1>4, <2>2, <2>3, NotOver DEF Start
<1>5. CASE ReplicaWrites(w, n) \/ ReplicaFails(w, n)
  <2>1. /\ call[w].task[n] = "running" /\ UNCHANGED handoffVars
        /\ (call' = [call EXCEPT ![w].task[n] = "ok"] \/ call' = [call EXCEPT ![w].task[n] = "failed"])
    BY <1>5 DEF ReplicaWrites, ReplicaFails
  <2>2. PICK task : call' = [call EXCEPT ![w] = [call[w] EXCEPT !.task = task]]
    BY <2>1
  <2>3. n \in Tasks(w, {"running"})
    BY <2>1 DEF Tasks
  <2>4. call[w].phase # "done"
    BY <2>3 DEF IInv, Settled
  <2>5. call'[w].phase = call[w].phase /\ \A x \in Write : x # w => call'[x] = call[x]
    BY <1>1, <2>2
  <2>6. \A m : ~Missed(w, m) /\ ~Missed(w, m)'
    BY <2>4, <2>5 DEF Missed
  <2> QED
    BY <2>1, <2>5, <2>6, NotOver
<1> QED
  BY <1>2, <1>3, <1>4, <1>5

\* At its end a call leaves a hint for every node it missed.
LEMMA FinishLeavesHints ==
    ASSUME IInv, HintInv, NEW w \in Write, Finish(w)
    PROVE  HintInv'
<1> DEFINE missed == Contacted(w) \ Tasks(w, {"ok"})
           hint == [key |-> KeyOf[w], write |-> w, timestamp |-> now, retryCount |-> 0]
<1>1. /\ call[w].phase = "waiting"
      /\ call' = [call EXCEPT ![w] = [phase |-> "done", clock |-> call[w].clock,
                                      task |-> TasksCancelled(w)]]
      /\ hints' = [n \in NodeId |-> IF n \in missed THEN Append(hints[n], hint) ELSE hints[n]]
      /\ forward' = forward /\ left' = left
      /\ running' = running /\ now' = now /\ stops' = stops
  BY DEF Finish, StoreHints
<1>2. call \in [Write -> [phase : Phase, clock : ClocksOver(Ids, Nat), task : [NodeId -> TaskState]]]
  BY DEF IInv, Shape
<1>3. /\ call'[w].phase = "done" /\ call'[w].task = TasksCancelled(w)
      /\ \A x \in Write : x # w => call'[x] = call[x]
  BY <1>1, <1>2
<1>4. \A n \in NodeId : ~Missed(w, n) /\ (Missed(w, n)' <=> n \in missed)
  <2> SUFFICES ASSUME NEW n \in NodeId PROVE ~Missed(w, n) /\ (Missed(w, n)' <=> n \in missed)
    OBVIOUS
  <2>1. ~Missed(w, n)
    BY <1>1 DEF Missed
  <2>2. /\ (call'[w].task[n] = "ok") <=> (call[w].task[n] = "ok")
        /\ (call'[w].task[n] = "none") <=> (call[w].task[n] = "none")
        /\ call'[w].task[n] \in TaskState /\ call[w].task[n] \in TaskState
    BY <1>2, <1>3 DEF TasksCancelled, TaskState
  <2>3. /\ (n \in Contacted(w)) <=> (call[w].task[n] # "none")
        /\ (n \in Contacted(w)') <=> (call'[w].task[n] # "none")
        /\ (n \in Tasks(w, {"ok"})) <=> (call[w].task[n] = "ok")
    BY <2>2 DEF Contacted, Tasks
  <2>4. Missed(w, n)' <=> (n \in Contacted(w)' /\ call'[w].task[n] # "ok")
    BY <1>3 DEF Missed
  <2> QED
    BY <2>1, <2>2, <2>3, <2>4
<1>5. \A x \in Write, n \in NodeId : x # w => (Missed(x, n)' <=> Missed(x, n))
  BY <1>3 DEF Missed, Contacted, Tasks
<1>6. \A x \in Write, n \in NodeId : Missed(x, n) => Missed(x, n)'
  BY <1>4, <1>5
<1>7. hint \in Hint /\ hint.key = KeyOf[w] /\ hint.write = w
  BY KeyOfAssumption, RetriesAssumption DEF Hint, HintInv, HandoffTypeOK
<1> HIDE DEF hint, missed
<1>8. ASSUME NEW n \in NodeId
      PROVE  /\ hints'[n] \in Seq(Hint)
             /\ Len(hints[n]) \in Nat /\ Len(hints'[n]) \in Nat /\ Len(hints[n]) <= Len(hints'[n])
             /\ \A i \in DOMAIN hints[n] : i \in DOMAIN hints'[n] /\ hints'[n][i] = hints[n][i]
             /\ \A i \in DOMAIN hints'[n] : i \in DOMAIN hints[n] \/ (n \in missed /\ hints'[n][i] = hint)
             /\ n \in missed => \E i \in DOMAIN hints'[n] : hints'[n][i] = hint
  <2> DEFINE list == hints[n]
             new == Append(list, hint)
  <2>1. list \in Seq(Hint) /\ Len(list) \in Nat /\ DOMAIN list = 1 .. Len(list)
    BY HintParts
  <2>2. CASE n \in missed
    <3>1. hints'[n] = new
      BY <1>1, <2>2
    <3> HIDE DEF list
    <3>2. /\ new \in Seq(Hint) /\ Len(new) = Len(list) + 1
          /\ DOMAIN new = 1 .. Len(list) + 1
          /\ \A i \in DOMAIN list : new[i] = list[i]
          /\ new[Len(list) + 1] = hint
      BY <1>7, <2>1
    <3> HIDE DEF new
    <3> USE DEF list
    <3>3. \A i \in DOMAIN new : i \in DOMAIN list \/ i = Len(list) + 1
      BY <2>1, <3>2
    <3>4. Len(list) + 1 \in DOMAIN new /\ \A i \in DOMAIN list : i \in DOMAIN new
      BY <2>1, <3>2
    <3> HIDE DEF list
    <3>5. Len(new) \in Nat /\ Len(list) <= Len(new)
      BY <2>1, <3>2
    <3>6. /\ \A i \in DOMAIN new : i \in DOMAIN list \/ (n \in missed /\ new[i] = hint)
          /\ \E i \in DOMAIN new : new[i] = hint
      BY <2>2, <3>2, <3>3, <3>4
    <3>7. hints[n] = list
      BY DEF list
    <3> QED
      BY <2>1, <3>1, <3>2, <3>4, <3>5, <3>6, <3>7
  <2>3. CASE n \notin missed
    <3>1. hints'[n] = list
      BY <1>1, <2>3
    <3> QED
      BY <2>1, <2>3, <3>1
  <2> QED
    BY <2>2, <2>3
<1>9. HandoffTypeOK'
  <2>1. hints' \in [NodeId -> Seq(Hint)]
    BY <1>1, <1>8
  <2> QED
    BY <1>1, <2>1 DEF HintInv, HandoffTypeOK
<1>10. HintsRight'
  <2> SUFFICES ASSUME NEW n \in NodeId, NEW i \in DOMAIN hints'[n]
               PROVE  \E x : hints'[n][i].write = x /\ hints'[n][i].key = KeyOf[x] /\ Missed(x, n)'
    BY DEF HintsRight, Missed, Contacted, Tasks
  <2>1. CASE i \in DOMAIN hints[n]
    <3> DEFINE h == hints[n][i]
    <3>1. h.write \in Write /\ h.key = KeyOf[h.write] /\ Missed(h.write, n)
      BY <2>1, HintParts DEF HintInv, HintsRight
    <3>2. hints'[n][i] = h
      BY <1>8, <2>1
    <3> QED
      BY <1>6, <3>1, <3>2
  <2>2. CASE i \notin DOMAIN hints[n]
    <3>1. n \in missed /\ hints'[n][i] = hint
      BY <1>8, <2>2
    <3>2. Missed(w, n)'
      BY <1>4, <3>1
    <3>3. hints'[n][i].write = w /\ hints'[n][i].key = KeyOf[w]
      BY <1>7, <3>1
    <3> QED
      BY <3>2, <3>3
  <2> QED
    BY <2>1, <2>2
<1>11. LeftRight'
  BY <1>1, <1>6 DEF HintInv, LeftRight
<1>12. WalkInBounds'
  <2> SUFFICES ASSUME forward.pc = "walking"
               PROVE  /\ forward.index <= Len(hints'[forward.target]) + 1
                      /\ \A i \in forward.forwarded : i \in Nat /\ 1 <= i /\ i < forward.index
    BY <1>1 DEF WalkInBounds
  <2>1. forward.target \in NodeId /\ forward.index \in Nat
    BY WalkType
  <2>2. /\ forward.index <= Len(hints[forward.target]) + 1
        /\ \A i \in forward.forwarded : i \in Nat /\ 1 <= i /\ i < forward.index
    BY DEF HintInv, WalkInBounds
  <2> DEFINE old == Len(hints[forward.target])
             new == Len(hints'[forward.target])
  <2>3. old \in Nat /\ new \in Nat /\ old <= new
    BY <1>8, <2>1
  <2>4. forward.index <= old + 1
    BY <2>2
  <2> HIDE DEF old, new
  <2>5. forward.index <= new + 1
    BY <2>1, <2>3, <2>4
  <2> QED
    BY <2>2, <2>5 DEF new
<1>13. ASSUME NEW x \in Write, NEW n \in NodeId, Missed(x, n)'
       PROVE  Pending(x, n)' \/ LeftFor(x, n)'
  <2>1. CASE x = w
    <3>1. \E i \in DOMAIN hints'[n] : hints'[n][i] = hint
      BY <1>4, <1>8, <1>13, <2>1
    <3> QED
      BY <1>7, <2>1, <3>1 DEF Pending
  <2>2. CASE x # w
    <3>1. Pending(x, n) \/ LeftFor(x, n)
      BY <1>5, <1>13, <2>2 DEF HintInv, Accounted
    <3>2. Pending(x, n) => Pending(x, n)'
      BY <1>8 DEF Pending
    <3>3. LeftFor(x, n) => LeftFor(x, n)'
      BY <1>1 DEF LeftFor
    <3> QED
      BY <3>1, <3>2, <3>3
  <2> QED
    BY <2>1, <2>2
<1>14. \A n \in NodeId : \A i \in DOMAIN hints[n] : hints[n][i].write # w
  BY <1>4 DEF HintInv, HintsRight
<1>15. Once'
  <2> SUFFICES ASSUME NEW n \in NodeId, NEW i \in DOMAIN hints'[n], NEW j \in DOMAIN hints'[n],
                      hints'[n][i].write = hints'[n][j].write
               PROVE  i = j
    BY DEF Once
  <2>1. CASE i \in DOMAIN hints[n] /\ j \in DOMAIN hints[n]
    BY <1>8, <2>1 DEF HintInv, Once
  <2>2. CASE i \notin DOMAIN hints[n] /\ j \notin DOMAIN hints[n]
    <3>1. hints'[n] = Append(hints[n], hint)
      BY <1>1, <1>8, <2>2
    <3>2. hints[n] \in Seq(Hint)
      BY HintParts
    <3> QED
      BY <2>2, <3>1, <3>2
  <2>3. CASE i \in DOMAIN hints[n] /\ j \notin DOMAIN hints[n]
    BY <1>7, <1>8, <1>14, <2>3
  <2>4. CASE i \notin DOMAIN hints[n] /\ j \in DOMAIN hints[n]
    BY <1>7, <1>8, <1>14, <2>4
  <2> QED
    BY <2>1, <2>2, <2>3, <2>4
<1>16. NotBoth'
  <2> SUFFICES ASSUME NEW l \in left, NEW i \in DOMAIN hints'[l.node],
                      hints'[l.node][i].write = l.write
               PROVE  FALSE
    BY <1>1 DEF NotBoth, Pending
  <2>1. l.node \in NodeId /\ l.write \in Write /\ Missed(l.write, l.node) /\ ~Pending(l.write, l.node)
    BY DEF HintInv, LeftRight, NotBoth
  <2>2. l.write # w
    BY <1>4, <2>1
  <2>3. i \in DOMAIN hints[l.node]
    BY <1>7, <1>8, <2>1, <2>2
  <2>4. hints[l.node][i].write = l.write
    BY <1>8, <2>1, <2>3
  <2> QED
    BY <2>1, <2>3, <2>4 DEF Pending
<1> QED
  BY <1>9, <1>10, <1>11, <1>12, <1>13, <1>15, <1>16 DEF HintInv, Accounted

LEMMA HintInvNext == IInv /\ HintInv /\ [Next]_vars => HintInv'
<1> SUFFICES ASSUME IInv, HintInv, [Next]_vars PROVE HintInv'
  OBVIOUS
<1>1. CASE HandoffNext /\ UNCHANGED coordinatorVars
  BY <1>1, HandoffHolds
<1>2. ASSUME NEW w \in Write, NEW r \in Routes,
             Get(w, r[KeyOf[w]]) \/ Reject(w, r[KeyOf[w]]) \/ Start(w, r[KeyOf[w]])
      PROVE  HintInv'
  <2>1. r[KeyOf[w]] \in Seq(NodeId)
    BY KeyOfAssumption, RoutesAssumption
  <2>2. CASE NodeId = {}
    <3>1. \A x \in Write, n \in NodeId : Missed(x, n)' <=> Missed(x, n)
      BY <2>2
    <3> QED
      BY <1>2, <3>1, NoNewMiss DEF Get, Reject, Start
  <2>3. CASE NodeId # {}
    <3>1. PICK n : n \in NodeId
      BY <2>3
    <3> QED
      BY <1>2, <2>1, <3>1, CallMovesHold
  <2> QED
    BY <2>2, <2>3
<1>3. ASSUME NEW w \in Write, Finish(w) PROVE HintInv'
  BY <1>3, FinishLeavesHints
<1>4. ASSUME NEW w \in Write, NEW n \in NodeId, ReplicaWrites(w, n) \/ ReplicaFails(w, n)
      PROVE  HintInv'
  <2>1. << >> \in Seq(NodeId)
    OBVIOUS
  <2> QED
    BY <1>4, <2>1, CallMovesHold
<1>5. CASE UNCHANGED vars
  <2>1. UNCHANGED handoffVars /\ call' = call
    BY <1>5 DEF vars, coordinatorVars
  <2>2. \A x \in Write, n \in NodeId : Missed(x, n)' <=> Missed(x, n)
    BY <2>1 DEF Missed, Contacted, Tasks
  <2> QED
    BY <2>1, <2>2, NoNewMiss
<1> QED
  BY <1>1, <1>2, <1>3, <1>4, <1>5 DEF Next
-----------------------------------------------------------------------------
\* Every variable keeps its type; no clock counts past the number of calls, which
\* is what Clock says.
THEOREM TypeCorrect == Spec => []TypeOK
<1>1. CallInv /\ HintInv => TypeOK
  <2> SUFFICES ASSUME CallInv, HintInv PROVE TypeOK
    OBVIOUS
  <2> DEFINE B == 0 .. Cardinality(Write)
  <2>1. ASSUME NEW c \in ClocksOver(Ids, Nat), \A m \in Ids : At(c, m) <= Cardinality(Begun)
        PROVE  c \in Clock
    <3>1. PICK S \in SUBSET Ids : c \in [S -> Nat]
      BY DEF ClocksOver
    <3>2. \A m \in S : c[m] \in B
      <4> SUFFICES ASSUME NEW m \in S PROVE c[m] \in B
        OBVIOUS
      <4>1. At(c, m) = c[m] /\ c[m] \in Nat /\ At(c, m) <= Cardinality(Begun)
        BY <2>1, <3>1 DEF At
      <4> QED
        BY <4>1, BegunCount
    <3> HIDE DEF B
    <3>3. c \in [S -> B]
      BY <3>1, <3>2
    <3> QED
      BY <3>3 DEF Clock, ClocksOver, Ids, B
  <2>2. /\ store \in [NodeId -> [Key -> Write \cup {None}]]
        /\ call \in [Write -> [phase : Phase, clock : ClocksOver(Ids, Nat), task : [NodeId -> TaskState]]]
        /\ context \in [Write -> ClocksOver(Ids, Nat)]
        /\ stats \in [total : Nat, successful : Nat, failed : Nat, hints : Nat]
    BY DEF CallInv, IInv, Shape
  <2>3. \A w \in Write : call[w].clock \in Clock /\ context[w] \in Clock
    BY <2>1, <2>2 DEF CallInv, ClocksBounded
  <2>4. context \in [Write -> Clock]
    BY <2>2, <2>3
  <2>5. call \in [Write -> [phase : Phase, clock : Clock, task : [NodeId -> TaskState]]]
    <3>1. \A w \in Write : call[w] \in [phase : Phase, clock : Clock, task : [NodeId -> TaskState]]
      BY <2>2, <2>3
    <3> QED
      BY <2>2, <3>1
  <2> QED
    BY <2>2, <2>4, <2>5 DEF TypeOK, HintInv, CallInv, Results, WriteResult, Phase
<1>2. Init => CallInv /\ HintInv
  BY CallInvInit, HintInvInit
<1>3. CallInv /\ HintInv /\ [Next]_vars => CallInv' /\ HintInv'
  BY CallInvNext, HintInvNext DEF CallInv
<1> QED
  BY <1>1, <1>2, <1>3, PTL DEF Spec

\* A replica that missed a write has the write's hint, or else that hint was sent,
\* expired, was tried too often, or was dropped by remove_hint (resilience.py:116-123)
\* with one of its key and time; a replica that has the write never had one.
THEOREM HintsKept == Spec => []HintsStandForMisses
<1>1. HintInv => HintsStandForMisses
  <2> SUFFICES ASSUME HintInv PROVE HintsStandForMisses
    OBVIOUS
  <2> SUFFICES ASSUME NEW w \in Write, NEW n \in NodeId
               PROVE  LET pending == \E h \in ToSet(hints[n]) : h.write = w
                          gone == \E l \in left : l.node = n /\ l.write = w
                      IN  /\ Missed(w, n) <=> pending \/ gone
                          /\ ~(pending /\ gone)
    BY DEF HintsStandForMisses, Missed
  <2>1. (\E h \in ToSet(hints[n]) : h.write = w) <=> Pending(w, n)
    BY DEF ToSet, Pending
  <2>2. Pending(w, n) => Missed(w, n)
    BY DEF Pending, HintInv, HintsRight
  <2>3. LeftFor(w, n) => Missed(w, n)
    BY DEF LeftFor, HintInv, LeftRight
  <2>4. Missed(w, n) => Pending(w, n) \/ LeftFor(w, n)
    BY DEF HintInv, Accounted
  <2>5. ~(Pending(w, n) /\ LeftFor(w, n))
    BY DEF LeftFor, HintInv, NotBoth
  <2> QED
    BY <2>1, <2>2, <2>3, <2>4, <2>5 DEF LeftFor
<1>2. Init => IInv /\ HintInv
  BY InitHolds, HintInvInit
<1>3. IInv /\ HintInv /\ [Next]_vars => IInv' /\ HintInv'
  BY StepHolds, HintInvNext
<1> QED
  BY <1>1, <1>2, <1>3, PTL DEF Spec
=============================================================================

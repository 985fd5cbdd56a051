----------------------- MODULE ResilientStorageProofs -----------------------
(***************************************************************************)
(* What pruning does to clocks, and what ResilientStorage can still tell   *)
(* from them, for any number of coordinators, replicas and writes.         *)
(*                                                                         *)
(* A clock that lost a component can only have been left with components   *)
(* that are at least as large, and with as many as a clock may have.  A    *)
(* coordinator that starts to count again in such a clock makes it too     *)
(* large, so what it writes is pruned in its turn: only such a write can   *)
(* carry a counter its coordinator has used before on the same history.    *)
(*                                                                         *)
(* Last, who holds a write: the nodes that stored it, of which a read asks *)
(* at least one, hold it still unless a version made without it came.      *)
(***************************************************************************)
EXTENDS ResilientStorage, DataProofs

\* A clock c stays ahead of the count k of n: it counts as much for n, or has as
\* many other components as large as a clock may have.
Reaches(c, n, k, max) ==
    At(c, n) >= k \/ Cardinality({m \in DOMAIN c \ {n} : c[m] >= k}) >= max

\* Every component of v's clock was counted by a write that v comes after.
Justified(v, m) ==
    \A n \in DOMAIN v.clock : \E x \in v.seen :
        m[x].by = n /\ n \in DOMAIN m[x].version.clock /\ m[x].version.clock[n] = v.clock[n]

\* v comes after whatever the writes it comes after do.
KnowsPast(v, m) == \A x \in v.seen : m[x].version.seen \subseteq v.seen

\* No count of a write that v comes after was lost, but for larger ones.
CountsPast(v, m, max) ==
    \A x \in v.seen : m[x].by \in DOMAIN m[x].version.clock =>
        Reaches(v.clock, m[x].by, m[x].version.clock[m[x].by], max)

\* v's clock covers those of the writes whose values it has.
CoversValues(v, m) == \A x \in v.value : x \in v.seen /\ Dominates(v.clock, m[x].version.clock)

Typed(v, m) ==
    /\ v.value \subseteq DOMAIN m /\ v.seen \subseteq DOMAIN m
    /\ v.clock \in ClocksOver(Coordinator, Nat)
    /\ \A n \in DOMAIN v.clock : v.clock[n] \in 1 .. Len(m)

Good(v, m, max) ==
    /\ Typed(v, m)
    /\ Justified(v, m) /\ KnowsPast(v, m) /\ CountsPast(v, m, max) /\ CoversValues(v, m)

\* A write that was not pruned counts more than those of its coordinator before it.
Counts(w, m) ==
    /\ m[w].by \in DOMAIN m[w].version.clock
    /\ \A x \in m[w].version.seen \ {w} :
           m[x].by = m[w].by /\ m[x].by \in DOMAIN m[x].version.clock =>
               m[x].version.clock[m[x].by] < m[w].version.clock[m[w].by]

WriteRecord ==
    [version : [value : SUBSET Nat, clock : ClocksOver(Coordinator, Nat), seen : SUBSET Nat],
     by : Coordinator]

\* What is true of a history m of writes, those in lost having been pruned
History(m, lost, max) ==
    /\ m \in Seq(WriteRecord)
    /\ \A w \in DOMAIN m :
           /\ Good(m[w].version, m, max)
           /\ w \in m[w].version.seen
           /\ w \notin lost => Counts(w, m)

IInv ==
    /\ preference \in Preferences /\ maxClockSize \in ClockSizes
    /\ History(made, pruned, maxClockSize) /\ writes = Len(made)
    /\ DOMAIN store = Server /\ \A s \in Server : Good(store[s], made, maxClockSize)
    /\ DOMAIN context = Coordinator /\ \A c \in Coordinator : Good(context[c], made, maxClockSize)
    /\ DOMAIN repairs = 1 .. MaxReads
    /\ \A i \in 1 .. MaxReads : Good(repairs[i].version, made, maxClockSize)
    /\ DOMAIN op = Coordinator
    /\ \A c \in Coordinator : op[c].pc = "writing" => Good(op[c].version, made, maxClockSize)
    /\ \A c \in Coordinator : op[c].pc = "reading" =>
           DOMAIN op[c].got = Server /\ \A s \in Server : Good(op[c].got[s], made, maxClockSize)
-----------------------------------------------------------------------------
\* A set of naturals with a bound has a largest member.
LEMMA Largest ==
    ASSUME NEW B \in Nat, NEW T \in SUBSET (0 .. B), T # {}
    PROVE  \E x \in T : \A y \in T : y <= x
<1> DEFINE I == {B - y : y \in T}
<1>1. I \subseteq Nat /\ I # {}
  <2>1. PICK y \in T : TRUE
    OBVIOUS
  <2>2. B - y \in I
    BY <2>1
  <2>3. \A z \in T : B - z \in Nat
    OBVIOUS
  <2> QED
    BY <2>2, <2>3
<1> HIDE DEF I
<1>2. PICK i \in I : \A j \in I : ~(<<j, i>> \in OpToRel(<, Nat))
  BY <1>1, NatLessThanWellFounded, WFMin, Zenon
<1>3. \A j \in I : ~(j < i)
  BY <1>1, <1>2, Zenon DEF OpToRel
<1>4. PICK x \in T : i = B - x
  BY DEF I
<1>5. \A y \in T : B - y \in I
  BY DEF I
<1> QED
  BY <1>3, <1>4, <1>5

LEMMA ClockDomain ==
    ASSUME NEW c \in ClocksOver(Coordinator, Nat)
    PROVE  /\ DOMAIN c \subseteq Coordinator /\ IsFiniteSet(DOMAIN c)
           /\ Cardinality(DOMAIN c) \in Nat /\ \A n \in DOMAIN c : c[n] \in Nat
           /\ \A n : At(c, n) \in Nat
<1>1. DOMAIN c \subseteq Coordinator /\ \A n \in DOMAIN c : c[n] \in Nat
  BY DEF ClocksOver
<1>2. IsFiniteSet(DOMAIN c) /\ Cardinality(DOMAIN c) \in Nat
  BY <1>1, CoordinatorAssumption, FS_Subset, FS_CardinalityType
<1> QED
  BY <1>1, <1>2 DEF At

\* VectorClockPruner.prune keeps at most MAX_CLOCK_SIZE components, as they are,
\* and drops none that is larger than one it keeps.
THEOREM PruningBounds ==
    ASSUME NEW c \in ClocksOver(Coordinator, Nat), NEW max \in Nat, NEW p \in Prune(c, max)
    PROVE  /\ p \in ClocksOver(Coordinator, Nat)
           /\ DOMAIN p \subseteq DOMAIN c /\ Cardinality(DOMAIN p) <= max
           /\ \A n \in DOMAIN p : p[n] = c[n]
           /\ ~ShouldPrune(c, max) => p = c
           /\ ShouldPrune(c, max) => Cardinality(DOMAIN p) = max
           /\ \A n \in DOMAIN p, m \in DOMAIN c \ DOMAIN p : c[n] >= c[m]
<1>1. /\ DOMAIN c \subseteq Coordinator /\ IsFiniteSet(DOMAIN c)
      /\ Cardinality(DOMAIN c) \in Nat /\ \A n \in DOMAIN c : c[n] \in Nat
  BY ClockDomain
<1>2. CASE ~ShouldPrune(c, max)
  <2>1. p = c
    BY <1>2 DEF Prune
  <2>2. Cardinality(DOMAIN c) <= max
    BY <1>1, <1>2 DEF ShouldPrune
  <2> QED
    BY <1>1, <1>2, <2>1, <2>2
<1>3. CASE ShouldPrune(c, max)
  <2>1. PICK D \in Newest(c, max) : p = [n \in D |-> c[n]]
    BY <1>3 DEF Prune
  <2>2. /\ D \subseteq DOMAIN c /\ Cardinality(D) = max
        /\ \A n \in D, m \in DOMAIN c \ D : c[n] >= c[m]
    BY DEF Newest
  <2>3. DOMAIN p = D /\ \A n \in D : p[n] = c[n]
    BY <2>1
  <2>4. p \in ClocksOver(Coordinator, Nat)
    <3>1. D \in SUBSET Coordinator /\ p \in [D -> Nat]
      BY <1>1, <2>1, <2>2
    <3> QED
      BY <3>1 DEF ClocksOver
  <2> QED
    BY <1>3, <2>2, <2>3, <2>4
<1> QED
  BY <1>2, <1>3

\* Pruning two clocks, one of which covers the other, never makes the smaller one
\* the later: a version read back cannot be taken for older than one it follows.
THEOREM PruningNeverInverts ==
    ASSUME NEW c \in ClocksOver(Coordinator, Nat), NEW d \in ClocksOver(Coordinator, Nat),
           NEW max \in Nat, Dominates(d, c),
           NEW p \in Prune(c, max), NEW q \in Prune(d, max)
    PROVE  ~HappensBefore(q, p)
<1>1. /\ p \in ClocksOver(Coordinator, Nat)
      /\ DOMAIN p \subseteq DOMAIN c /\ Cardinality(DOMAIN p) <= max
      /\ \A n \in DOMAIN p : p[n] = c[n]
  BY PruningBounds
<1>2. /\ q \in ClocksOver(Coordinator, Nat)
      /\ DOMAIN q \subseteq DOMAIN d
      /\ \A n \in DOMAIN q : q[n] = d[n]
      /\ ~ShouldPrune(d, max) => q = d
      /\ ShouldPrune(d, max) => Cardinality(DOMAIN q) = max
      /\ \A n \in DOMAIN q, m \in DOMAIN d \ DOMAIN q : d[n] >= d[m]
  BY PruningBounds
<1> SUFFICES ASSUME Dominates(p, q), ~Dominates(q, p) PROVE FALSE
  BY <1>1, <1>2, CompareByDomination DEF NatClock
<1>3. /\ \A n : At(c, n) \in Nat /\ At(d, n) \in Nat /\ At(p, n) \in Nat /\ At(q, n) \in Nat
      /\ IsFiniteSet(DOMAIN p) /\ Cardinality(DOMAIN p) \in Nat
      /\ IsFiniteSet(DOMAIN q) /\ Cardinality(DOMAIN q) \in Nat
  BY <1>1, <1>2, ClockDomain
<1>4. \A n : At(p, n) >= At(q, n)
  BY <1>3 DEF Dominates, At
<1>5. \A n : At(d, n) >= At(c, n)
  BY <1>3 DEF Dominates, At
<1>6. PICK n \in DOMAIN q \cup DOMAIN p : ~(At(q, n) >= At(p, n))
  BY DEF Dominates
<1>7. n \in DOMAIN p /\ At(p, n) = c[n] /\ At(c, n) = c[n] /\ At(c, n) > 0
  BY <1>1, <1>3, <1>6 DEF At
<1>8. n \in DOMAIN d /\ At(d, n) = d[n] /\ At(d, n) >= At(c, n)
  BY <1>3, <1>5, <1>7 DEF At
<1>9. n \notin DOMAIN q
  BY <1>2, <1>3, <1>6, <1>7, <1>8 DEF At
<1>10. Cardinality(DOMAIN q) = max
  BY <1>2, <1>8, <1>9
<1>11. DOMAIN q \subseteq DOMAIN p
  <2> SUFFICES ASSUME NEW m \in DOMAIN q PROVE m \in DOMAIN p
    OBVIOUS
  <2>1. At(q, m) = d[m] /\ d[m] = At(d, m) /\ d[m] >= d[n]
    BY <1>2, <1>8, <1>9 DEF At
  <2>2. At(q, m) > 0
    BY <1>3, <1>7, <1>8, <2>1
  <2>3. At(p, m) > 0
    BY <1>3, <1>4, <2>2
  <2> QED
    BY <2>3 DEF At
<1>12. DOMAIN q # DOMAIN p
  BY <1>7, <1>9
<1> QED
  BY <1>1, <1>3, <1>10, <1>11, <1>12, FS_Subset
-----------------------------------------------------------------------------
\* A clock that has grown still reaches what it reached.
LEMMA ReachesMore ==
    ASSUME NEW c \in ClocksOver(Coordinator, Nat), NEW d \in ClocksOver(Coordinator, Nat),
           \A m \in DOMAIN c : m \in DOMAIN d /\ d[m] >= c[m],
           NEW n, NEW k \in Nat, NEW max \in Nat, Reaches(c, n, k, max)
    PROVE  Reaches(d, n, k, max)
<1>1. /\ IsFiniteSet(DOMAIN d) /\ \A m \in DOMAIN d : d[m] \in Nat
      /\ \A m \in DOMAIN c : c[m] \in Nat
  BY ClockDomain
<1>2. CASE At(c, n) >= k
  <2>1. At(d, n) >= At(c, n)
    BY <1>1 DEF At
  <2>2. At(c, n) \in Nat /\ At(d, n) \in Nat
    BY ClockDomain
  <2> QED
    BY <1>2, <2>1, <2>2 DEF Reaches
<1>3. CASE Cardinality({m \in DOMAIN c \ {n} : c[m] >= k}) >= max
  <2> DEFINE C == {m \in DOMAIN c \ {n} : c[m] >= k}
             D == {m \in DOMAIN d \ {n} : d[m] >= k}
  <2>1. C \subseteq D
    BY <1>1
  <2>2. IsFiniteSet(D)
    BY <1>1, FS_Subset
  <2>3. Cardinality(C) <= Cardinality(D) /\ Cardinality(C) \in Nat /\ Cardinality(D) \in Nat
    BY <2>1, <2>2, FS_Subset, FS_CardinalityType
  <2>4. Cardinality(D) >= max
    BY <1>3, <2>3
  <2> QED
    BY <2>4 DEF Reaches
<1> QED
  BY <1>2, <1>3 DEF Reaches

\* So does one that was pruned.
LEMMA ReachesPrune ==
    ASSUME NEW c \in ClocksOver(Coordinator, Nat), NEW max \in Nat, NEW p \in Prune(c, max),
           NEW n, NEW k \in Nat, Reaches(c, n, k, max)
    PROVE  Reaches(p, n, k, max)
<1>1. /\ p \in ClocksOver(Coordinator, Nat)
      /\ DOMAIN p \subseteq DOMAIN c /\ Cardinality(DOMAIN p) <= max
      /\ \A m \in DOMAIN p : p[m] = c[m]
      /\ ~ShouldPrune(c, max) => p = c
      /\ ShouldPrune(c, max) => Cardinality(DOMAIN p) = max
      /\ \A i \in DOMAIN p, m \in DOMAIN c \ DOMAIN p : c[i] >= c[m]
  BY PruningBounds
<1>2. /\ IsFiniteSet(DOMAIN c) /\ IsFiniteSet(DOMAIN p)
      /\ \A m \in DOMAIN c : c[m] \in Nat
  BY <1>1, ClockDomain
<1> SUFFICES ASSUME ShouldPrune(c, max), ~(At(p, n) >= k) PROVE Reaches(p, n, k, max)
  BY <1>1 DEF Reaches
<1> DEFINE P == {m \in DOMAIN p \ {n} : p[m] >= k}
\* It is enough that every component left is as large as k.
<1>3. SUFFICES n \notin DOMAIN p /\ \A m \in DOMAIN p : p[m] >= k
  <2>1. P = DOMAIN p
    BY <1>3
  <2>2. Cardinality(P) >= max
    BY <1>1, <2>1
  <2> QED
    BY <2>2 DEF Reaches
<1>4. ASSUME NEW h \in DOMAIN c \ DOMAIN p, c[h] >= k
      PROVE  n \notin DOMAIN p /\ \A m \in DOMAIN p : p[m] >= k
  <2>1. \A m \in DOMAIN p : p[m] >= k
    BY <1>1, <1>2, <1>4
  <2> QED
    BY <2>1 DEF At
<1>5. CASE At(c, n) >= k
  <2>1. CASE n \in DOMAIN c
    <3>1. n \notin DOMAIN p
      BY <1>1, <1>5, <2>1 DEF At
    <3> QED
      BY <1>4, <1>5, <2>1, <3>1 DEF At
  <2>2. CASE n \notin DOMAIN c
    <3>1. k = 0 /\ At(p, n) >= 0
      BY <1>1, <1>5, <2>2 DEF At
    <3> QED
      BY <3>1
  <2> QED
    BY <2>1, <2>2
<1>6. CASE Cardinality({m \in DOMAIN c \ {n} : c[m] >= k}) >= max
  <2> DEFINE H == {m \in DOMAIN c \ {n} : c[m] >= k}
  <2>1. CASE H \subseteq DOMAIN p
    <3>1. H = DOMAIN p
      <4>1. IsFiniteSet(H) /\ Cardinality(H) <= Cardinality(DOMAIN p)
            /\ (Cardinality(H) = Cardinality(DOMAIN p) => H = DOMAIN p)
        BY <1>2, <2>1, FS_Subset
      <4>2. Cardinality(H) \in Nat /\ Cardinality(DOMAIN p) = max
        BY <1>1, <4>1, FS_CardinalityType
      <4> QED
        BY <1>6, <4>1, <4>2
    <3> QED
      BY <1>1, <3>1
  <2>2. CASE ~(H \subseteq DOMAIN p)
    BY <1>4, <2>2
  <2> QED
    BY <2>1, <2>2
<1> QED
  BY <1>5, <1>6 DEF Reaches

-----------------------------------------------------------------------------
\* A clock claims only writes its version comes after, or ambiguous ones.
LEMMA ClaimsOnlySeen ==
    ASSUME History(made, pruned, maxClockSize), NEW v, Good(v, made, maxClockSize),
           NEW w \in DOMAIN made, Dominates(v.clock, made[w].version.clock)
    PROVE  w \in v.seen \/ Ambiguous(w)
<1> SUFFICES ASSUME ~Ambiguous(w) PROVE w \in v.seen
  OBVIOUS
<1> DEFINE c == made[w].by
           t == made[w].version.clock[c]
<1>1. w \notin pruned /\ Counts(w, made) /\ Good(made[w].version, made, maxClockSize)
  BY DEF Ambiguous, History
<1>2. c \in DOMAIN made[w].version.clock /\ t \in 1 .. Len(made)
  BY <1>1 DEF Counts, Good, Typed
<1>3. v.clock \in ClocksOver(Coordinator, Nat)
  BY DEF Good, Typed
<1>4. c \in DOMAIN v.clock /\ v.clock[c] >= t
  <2>1. At(v.clock, c) >= t
    <3>1. At(made[w].version.clock, c) = t
      BY <1>2 DEF At
    <3> QED
      BY <1>2, <3>1 DEF Dominates
  <2>2. t > 0 /\ t \in Nat
    BY <1>2
  <2> HIDE DEF t
  <2> QED
    BY <2>1, <2>2 DEF At
<1>5. PICK x \in v.seen : /\ made[x].by = c /\ c \in DOMAIN made[x].version.clock
                          /\ made[x].version.clock[c] = v.clock[c]
  BY <1>4 DEF Good, Justified
<1>6. x \in DOMAIN made /\ made[x].version.seen \subseteq v.seen
  BY DEF Good, Typed, KnowsPast
<1>7. x = w \/ x \in made[w].version.seen \/ w \in made[x].version.seen
  BY <1>5, <1>6 DEF Ambiguous
<1>8. ~(x \in made[w].version.seen \ {w})
  <2> SUFFICES ASSUME x \in made[w].version.seen \ {w} PROVE FALSE
    OBVIOUS
  <2>1. made[x].version.clock[c] < t
    BY <1>1, <1>5 DEF Counts
  <2>2. v.clock[c] \in Nat /\ t \in Nat
    BY <1>2, <1>3, <1>4, ClockDomain
  <2> QED
    BY <1>4, <1>5, <2>1, <2>2
<1> QED
  BY <1>6, <1>7, <1>8

\* A longer history does not change what is true of a version.
LEMMA GoodLater ==
    ASSUME NEW m \in Seq(WriteRecord), NEW r \in WriteRecord, NEW max, NEW v, Good(v, m, max)
    PROVE  Good(v, Append(m, r), max)
<1> DEFINE m2 == Append(m, r)
<1>1. /\ DOMAIN m \subseteq DOMAIN m2 /\ Len(m2) = Len(m) + 1 /\ Len(m) \in Nat
      /\ \A x \in DOMAIN m : m2[x] = m[x]
  OBVIOUS
<1> HIDE DEF m2
<1>2. v.value \subseteq DOMAIN m /\ v.seen \subseteq DOMAIN m
  BY DEF Good, Typed
<1>3. Typed(v, m2)
  BY <1>1 DEF Good, Typed
<1>4. Justified(v, m2)
  BY <1>1, <1>2 DEF Good, Justified
<1>5. KnowsPast(v, m2)
  BY <1>1, <1>2 DEF Good, KnowsPast
<1>6. CountsPast(v, m2, max)
  BY <1>1, <1>2 DEF Good, CountsPast
<1>7. CoversValues(v, m2)
  BY <1>1, <1>2 DEF Good, CoversValues
<1> QED
  BY <1>3, <1>4, <1>5, <1>6, <1>7 DEF Good, m2

LEMMA GoodNoVersion ==
    ASSUME NEW m, NEW max
    PROVE  Good(NoVersion, m, max)
<1>1. NoVersion.clock \in ClocksOver(Coordinator, Nat) /\ DOMAIN NoVersion.clock = {}
      /\ NoVersion.value = {} /\ NoVersion.seen = {}
  <2>1. NoClock \in [{} -> Nat] /\ {} \in SUBSET Coordinator
    BY DEF NoClock
  <2> QED
    BY <2>1 DEF NoVersion, NoClock, ClocksOver
<1> QED
  BY <1>1 DEF Good, Typed, Justified, KnowsPast, CountsPast, CoversValues

\* The clock of a write without a context is that of one with an empty clock.
LEMMA WriteClockIncrements ==
    ASSUME NEW c \in Coordinator, NEW ctx, ctx.clock \in ClocksOver(Coordinator, Nat)
    PROVE  LET clock == WriteClock(c, ctx)
           IN  /\ clock \in ClocksOver(Coordinator, Nat)
               /\ DOMAIN clock = DOMAIN ctx.clock \cup {c}
               /\ clock[c] = At(ctx.clock, c) + 1
               /\ \A n \in DOMAIN ctx.clock \ {c} : clock[n] = ctx.clock[n]
<1>1. CASE ctx.clock # NoClock
  <2>1. WriteClock(c, ctx) = Increment(ctx.clock, c)
    BY <1>1 DEF WriteClock
  <2>2. Increment(ctx.clock, c) \in ClocksOver(Coordinator, Nat)
    BY IncrementClock DEF NatClock
  <2> QED
    BY <2>1, <2>2 DEF Increment
<1>2. CASE ctx.clock = NoClock
  <2>1. WriteClock(c, ctx) = Increment(New(c), c)
    BY <1>2 DEF WriteClock
  <2>2. Increment(New(c), c) \in ClocksOver(Coordinator, Nat)
    <3>1. New(c) \in NatClock(Coordinator)
      BY NewClock
    <3> QED
      BY <3>1, IncrementClock DEF NatClock
  <2>3. DOMAIN ctx.clock = {} /\ At(ctx.clock, c) = 0
    BY <1>2 DEF NoClock, At
  <2>4. DOMAIN Increment(New(c), c) = {c} /\ Increment(New(c), c)[c] = 1
    BY DEF Increment, New, At
  <2> QED
    BY <2>1, <2>2, <2>3, <2>4
<1> QED
  BY <1>1, <1>2

-----------------------------------------------------------------------------
\* What the n-th write, by c with this context, adds to the history when clock is
\* what pruning left
Record(n, c, ctx, clock) ==
    [version |-> [value |-> {n}, clock |-> clock, seen |-> ctx.seen \cup {n}], by |-> c]

LEMMA NewVersion ==
    ASSUME NEW max \in Nat, NEW m, NEW lost, History(m, lost, max),
           NEW c \in Coordinator, NEW ctx, Good(ctx, m, max),
           NEW clock \in Prune(WriteClock(c, ctx), max), NEW n, n = Len(m) + 1,
           NEW lost2, lost \subseteq lost2, ShouldPrune(WriteClock(c, ctx), max) => n \in lost2
    PROVE  /\ History(Append(m, Record(n, c, ctx, clock)), lost2, max)
           /\ Good(Record(n, c, ctx, clock).version, Append(m, Record(n, c, ctx, clock)), max)
<1> DEFINE r == Record(n, c, ctx, clock)
           v == r.version
           m2 == Append(m, r)
           inc == WriteClock(c, ctx)
<1>1. /\ ctx.clock \in ClocksOver(Coordinator, Nat) /\ ctx.seen \subseteq DOMAIN m
      /\ \A i \in DOMAIN ctx.clock : ctx.clock[i] \in 1 .. Len(m)
      /\ m \in Seq(WriteRecord) /\ Len(m) \in Nat
  BY DEF Good, Typed, History
<1>2. /\ inc \in ClocksOver(Coordinator, Nat)
      /\ DOMAIN inc = DOMAIN ctx.clock \cup {c}
      /\ inc[c] = At(ctx.clock, c) + 1
      /\ \A i \in DOMAIN ctx.clock \ {c} : inc[i] = ctx.clock[i]
  BY <1>1, WriteClockIncrements
<1>3. At(ctx.clock, c) \in 0 .. Len(m)
  BY <1>1 DEF At
<1> HIDE DEF inc
<1>4. /\ clock \in ClocksOver(Coordinator, Nat)
      /\ DOMAIN clock \subseteq DOMAIN inc
      /\ \A i \in DOMAIN clock : clock[i] = inc[i]
      /\ ~ShouldPrune(inc, max) => clock = inc
  BY <1>2, PruningBounds DEF inc
<1>5. /\ v.value = {n} /\ v.clock = clock /\ v.seen = ctx.seen \cup {n}
      /\ v = [value |-> {n}, clock |-> clock, seen |-> ctx.seen \cup {n}]
      /\ r = [version |-> v, by |-> c] /\ n \in Nat
  BY <1>1 DEF Record
<1> HIDE DEF r, v
<1>6. r \in WriteRecord
  <2>1. v.seen \subseteq Nat
    BY <1>1, <1>5
  <2>2. v \in [value : SUBSET Nat, clock : ClocksOver(Coordinator, Nat), seen : SUBSET Nat]
    BY <1>4, <1>5, <2>1
  <2> QED
    BY <1>5, <2>2 DEF WriteRecord
<1>7. /\ m2 \in Seq(WriteRecord) /\ Len(m2) = n /\ m2[n] = r /\ n \in DOMAIN m2 /\ n \notin DOMAIN m
      /\ \A x \in DOMAIN m : x \in DOMAIN m2 /\ m2[x] = m[x]
      /\ \A x \in DOMAIN m2 : x \in DOMAIN m \/ x = n
  BY <1>1, <1>6
<1>8. m2[n].version = v /\ m2[n].by = c
  BY <1>5, <1>7
<1>9. \A x : Good(x, m, max) => Good(x, m2, max)
  BY <1>1, <1>6, GoodLater
<1> HIDE DEF m2
<1>10. Typed(v, m2)
  <2>1. \A i \in DOMAIN clock : clock[i] \in 1 .. Len(m2)
    <3> SUFFICES ASSUME NEW i \in DOMAIN clock PROVE clock[i] \in 1 .. n
      BY <1>7
    <3>1. CASE i = c
      BY <1>1, <1>2, <1>3, <1>4, <3>1
    <3>2. CASE i # c
      BY <1>1, <1>2, <1>4, <3>2
    <3> QED
      BY <3>1, <3>2
  <2>2. v.value \subseteq DOMAIN m2 /\ v.seen \subseteq DOMAIN m2
    BY <1>1, <1>5, <1>7
  <2> QED
    BY <1>4, <1>5, <2>1, <2>2 DEF Typed
<1>11. Justified(v, m2)
  <2> SUFFICES ASSUME NEW i \in DOMAIN clock
               PROVE  \E x \in v.seen : /\ m2[x].by = i /\ i \in DOMAIN m2[x].version.clock
                                        /\ m2[x].version.clock[i] = clock[i]
    BY <1>5 DEF Justified
  <2>1. CASE i = c
    BY <1>5, <1>8, <2>1
  <2>2. CASE i # c
    <3>1. i \in DOMAIN ctx.clock /\ clock[i] = ctx.clock[i]
      BY <1>2, <1>4, <2>2
    <3>2. PICK x \in ctx.seen : /\ m[x].by = i /\ i \in DOMAIN m[x].version.clock
                                /\ m[x].version.clock[i] = ctx.clock[i]
      BY <3>1 DEF Good, Justified
    <3>3. m2[x] = m[x] /\ x \in v.seen
      BY <1>1, <1>5, <1>7
    <3> QED
      BY <3>1, <3>2, <3>3
  <2> QED
    BY <2>1, <2>2
<1>12. KnowsPast(v, m2)
  <2> SUFFICES ASSUME NEW x \in v.seen PROVE m2[x].version.seen \subseteq v.seen
    BY DEF KnowsPast
  <2>1. CASE x = n
    BY <1>8, <2>1
  <2>2. CASE x \in ctx.seen
    <3>1. m2[x] = m[x] /\ m[x].version.seen \subseteq ctx.seen
      BY <1>1, <1>7, <2>2 DEF Good, KnowsPast
    <3> QED
      BY <1>5, <3>1
  <2> QED
    BY <1>5, <2>1, <2>2
<1>13. CountsPast(v, m2, max)
  <2> SUFFICES ASSUME NEW x \in v.seen, m2[x].by \in DOMAIN m2[x].version.clock
               PROVE  Reaches(clock, m2[x].by, m2[x].version.clock[m2[x].by], max)
    BY <1>5 DEF CountsPast
  <2>1. CASE x = n
    <3>1. At(clock, c) = clock[c] /\ clock[c] >= clock[c]
      BY <1>4, <1>5, <1>8, <2>1, ClockDomain DEF At
    <3> QED
      BY <1>5, <1>8, <2>1, <3>1 DEF Reaches
  <2>2. CASE x \in ctx.seen
    <3> DEFINE b == m[x].by
               k == m[x].version.clock[b]
    <3>1. m2[x] = m[x] /\ x \in DOMAIN m /\ b \in DOMAIN m[x].version.clock
      BY <1>1, <1>7, <2>2
    <3>2. k \in Nat /\ Reaches(ctx.clock, b, k, max)
      <4>1. Good(m[x].version, m, max)
        BY <3>1 DEF History
      <4> QED
        BY <2>2, <3>1, <4>1 DEF Good, Typed, CountsPast
    <3> HIDE DEF k, b
    <3>3. \A i \in DOMAIN ctx.clock : i \in DOMAIN inc /\ inc[i] >= ctx.clock[i]
      <4> SUFFICES ASSUME NEW i \in DOMAIN ctx.clock PROVE i \in DOMAIN inc /\ inc[i] >= ctx.clock[i]
        OBVIOUS
      <4>1. CASE i = c
        BY <1>1, <1>2, <4>1 DEF At
      <4>2. CASE i # c
        BY <1>1, <1>2, <4>2
      <4> QED
        BY <4>1, <4>2
    <3>4. Reaches(inc, b, k, max)
      BY <1>1, <1>2, <3>2, <3>3, ReachesMore
    <3>5. Reaches(clock, b, k, max)
      BY <1>2, <3>2, <3>4, ReachesPrune DEF inc
    <3> QED
      BY <3>1, <3>5 DEF k, b
  <2> QED
    BY <1>5, <2>1, <2>2
<1>14. CoversValues(v, m2)
  <2>1. Dominates(clock, clock)
    <3>1. \A i : At(clock, i) >= At(clock, i)
      BY <1>4, ClockDomain
    <3> QED
      BY <3>1 DEF Dominates
  <2> QED
    BY <1>5, <1>8, <2>1 DEF CoversValues
<1>15. Good(v, m2, max)
  BY <1>10, <1>11, <1>12, <1>13, <1>14 DEF Good
<1>16. n \notin lost2 => Counts(n, m2)
  <2> SUFFICES ASSUME ~ShouldPrune(inc, max) PROVE Counts(n, m2)
    BY DEF inc
  <2>1. clock = inc /\ c \in DOMAIN inc
    BY <1>2, <1>4
  <2>2. ASSUME NEW x \in ctx.seen, m[x].by = c, c \in DOMAIN m[x].version.clock
        PROVE  m[x].version.clock[c] < inc[c]
    <3> DEFINE k == m[x].version.clock[c]
    <3>1. k \in Nat /\ Reaches(ctx.clock, c, k, max)
      <4>1. x \in DOMAIN m /\ Good(m[x].version, m, max)
        BY <1>1, <2>2 DEF History
      <4> QED
        BY <2>2, <4>1 DEF Good, Typed, CountsPast
    <3> HIDE DEF k
    <3>2. CASE At(ctx.clock, c) >= k
      BY <1>2, <1>3, <3>1, <3>2 DEF k
    <3>3. CASE Cardinality({i \in DOMAIN ctx.clock \ {c} : ctx.clock[i] >= k}) >= max
      <4> DEFINE H == {i \in DOMAIN ctx.clock \ {c} : ctx.clock[i] >= k}
      <4>1. IsFiniteSet(DOMAIN inc) /\ Cardinality(DOMAIN inc) \in Nat
        BY <1>2, ClockDomain
      <4>2. H \cup {c} \subseteq DOMAIN inc /\ c \notin H /\ H \subseteq DOMAIN inc
        BY <1>2
      <4> HIDE DEF H
      <4>3. IsFiniteSet(H) /\ Cardinality(H) \in Nat
        BY <4>1, <4>2, FS_Subset, FS_CardinalityType
      <4>4. Cardinality(H \cup {c}) = Cardinality(H) + 1
        BY <4>2, <4>3, FS_AddElement
      <4>5. Cardinality(H \cup {c}) <= Cardinality(DOMAIN inc)
        BY <4>1, <4>2, FS_Subset
      <4>6. Cardinality(H) >= max
        BY <3>3 DEF H
      <4>7. Cardinality(DOMAIN inc) > max
        BY <4>1, <4>3, <4>4, <4>5, <4>6
      <4> QED
        BY <4>7 DEF ShouldPrune
    <3> QED
      BY <3>1, <3>2, <3>3 DEF Reaches
  <2>3. ASSUME NEW x \in m2[n].version.seen \ {n}
        PROVE  x \in ctx.seen /\ m2[x] = m[x]
    BY <1>1, <1>5, <1>7, <1>8
  <2>4. m2[n].version.clock = inc
    BY <1>5, <1>8, <2>1
  <2> QED
    BY <1>8, <2>1, <2>2, <2>3, <2>4 DEF Counts
<1>17. ASSUME NEW w \in DOMAIN m
       PROVE  /\ Good(m2[w].version, m2, max) /\ w \in m2[w].version.seen
              /\ w \notin lost2 => Counts(w, m2)
  <2>1. /\ m2[w] = m[w] /\ Good(m[w].version, m, max) /\ w \in m[w].version.seen
        /\ w \notin lost => Counts(w, m)
    BY <1>7 DEF History
  <2>2. Good(m2[w].version, m2, max)
    BY <1>9, <2>1
  <2>3. \A x \in m[w].version.seen : m2[x] = m[x]
    BY <1>7, <2>1 DEF Good, Typed
  <2>4. w \notin lost2 => Counts(w, m2)
    BY <2>1, <2>3 DEF Counts
  <2> QED
    BY <2>1, <2>2, <2>4
<1>18. History(m2, lost2, max)
  <2>1. ASSUME NEW w \in DOMAIN m2
        PROVE  /\ Good(m2[w].version, m2, max) /\ w \in m2[w].version.seen
               /\ w \notin lost2 => Counts(w, m2)
    <3>1. CASE w = n
      BY <1>5, <1>8, <1>15, <1>16, <3>1
    <3> QED
      BY <1>7, <1>17, <3>1
  <2> QED
    BY <1>7, <2>1 DEF History
<1> QED
  BY <1>15, <1>18 DEF m2, r, v

-----------------------------------------------------------------------------
\* The merged clock of a reconciliation counts for each id what one of the
\* versions counts, and none counts more.
LEMMA MergedClock ==
    ASSUME NEW m, Len(m) \in Nat, NEW vs, DOMAIN vs # {}, \A i \in DOMAIN vs : Typed(vs[i], m)
    PROVE  LET clock == ReconcileVersions(vs).clock
           IN  /\ clock \in ClocksOver(Coordinator, Nat)
               /\ \A n \in DOMAIN clock : \E i \in DOMAIN vs :
                      n \in DOMAIN vs[i].clock /\ clock[n] = vs[i].clock[n]
               /\ \A i \in DOMAIN vs : \A n \in DOMAIN vs[i].clock :
                      n \in DOMAIN clock /\ clock[n] >= vs[i].clock[n]
<1> DEFINE clock == ReconcileVersions(vs).clock
           T(n) == {At(vs[i].clock, n) : i \in DOMAIN vs}
<1>1. DOMAIN clock = UNION {DOMAIN vs[i].clock : i \in DOMAIN vs}
  BY DEF ReconcileVersions
<1>2. ASSUME NEW i \in DOMAIN vs
      PROVE  /\ DOMAIN vs[i].clock \subseteq Coordinator
             /\ \A n \in DOMAIN vs[i].clock : At(vs[i].clock, n) = vs[i].clock[n]
             /\ \A n \in DOMAIN vs[i].clock : vs[i].clock[n] \in 1 .. Len(m)
             /\ \A n : At(vs[i].clock, n) \in 0 .. Len(m)
             /\ \A n : At(vs[i].clock, n) > 0 => n \in DOMAIN vs[i].clock
  <2>1. vs[i].clock \in ClocksOver(Coordinator, Nat)
    BY DEF Typed
  <2>2. DOMAIN vs[i].clock \subseteq Coordinator
    BY <2>1, ClockDomain
  <2>3. \A n \in DOMAIN vs[i].clock : vs[i].clock[n] \in 1 .. Len(m)
    BY DEF Typed
  <2> QED
    BY <2>2, <2>3 DEF At
<1>3. ASSUME NEW n \in DOMAIN clock
      PROVE  /\ clock[n] \in T(n)
             /\ \A i \in DOMAIN vs : At(vs[i].clock, n) <= clock[n]
  <2>1. clock[n] = CHOOSE t \in T(n) : \A i \in DOMAIN vs : At(vs[i].clock, n) <= t
    BY <1>1 DEF ReconcileVersions
  <2>2. T(n) \in SUBSET (0 .. Len(m)) /\ T(n) # {}
    BY <1>2
  <2>3. \E t \in T(n) : \A y \in T(n) : y <= t
    <3> HIDE DEF T
    <3> QED
      BY <2>2, Largest
  <2>4. \E t \in T(n) : \A i \in DOMAIN vs : At(vs[i].clock, n) <= t
    BY <2>3
  <2> QED
    BY <2>1, <2>4, Zenon
<1>7. clock = [n \in DOMAIN clock |-> clock[n]]
  <2> DEFINE S == UNION {DOMAIN vs[i].clock : i \in DOMAIN vs}
             e(n) == CHOOSE t \in T(n) : \A i \in DOMAIN vs : At(vs[i].clock, n) <= t
  <2>1. clock = [n \in S |-> e(n)]
    BY DEF ReconcileVersions
  <2> HIDE DEF clock, S, e
  <2> QED
    BY <2>1
<1>8. ASSUME NEW n \in DOMAIN clock
      PROVE  /\ \E i \in DOMAIN vs : clock[n] = At(vs[i].clock, n)
             /\ \A i \in DOMAIN vs : At(vs[i].clock, n) <= clock[n]
             /\ clock[n] \in Nat
  <2>1. /\ clock[n] \in T(n)
        /\ \A i \in DOMAIN vs : At(vs[i].clock, n) <= clock[n]
    BY <1>3
  <2> HIDE DEF clock
  <2>2. PICK i \in DOMAIN vs : clock[n] = At(vs[i].clock, n)
    BY <2>1
  <2>3. clock[n] \in Nat
    BY <1>2, <2>2
  <2> QED
    BY <2>1, <2>2, <2>3
<1> HIDE DEF clock, T
<1>4. ASSUME NEW n \in DOMAIN clock
      PROVE  \E i \in DOMAIN vs : n \in DOMAIN vs[i].clock /\ clock[n] = vs[i].clock[n]
  <2>1. PICK i \in DOMAIN vs : clock[n] = At(vs[i].clock, n)
    BY <1>8
  <2>2. PICK j \in DOMAIN vs : n \in DOMAIN vs[j].clock
    BY <1>1
  <2>3. At(vs[j].clock, n) <= clock[n] /\ At(vs[j].clock, n) >= 1
    BY <1>2, <1>8, <2>2
  <2>4. At(vs[j].clock, n) \in 0 .. Len(m)
    BY <1>2
  <2>5. clock[n] \in Nat
    BY <1>8
  <2>6. clock[n] > 0
    BY <2>3, <2>4, <2>5
  <2> QED
    BY <1>2, <2>1, <2>6
<1>5. ASSUME NEW i \in DOMAIN vs, NEW n \in DOMAIN vs[i].clock
      PROVE  n \in DOMAIN clock /\ clock[n] >= vs[i].clock[n]
  <2>1. n \in DOMAIN clock
    BY <1>1
  <2>2. At(vs[i].clock, n) <= clock[n] /\ clock[n] \in Nat
    BY <1>8, <2>1
  <2>3. At(vs[i].clock, n) = vs[i].clock[n] /\ vs[i].clock[n] \in Nat
    BY <1>2
  <2> QED
    BY <2>1, <2>2, <2>3
<1>6. clock \in ClocksOver(Coordinator, Nat)
  <2>1. DOMAIN clock \subseteq Coordinator
    BY <1>1, <1>2
  <2>2. \A n \in DOMAIN clock : clock[n] \in Nat
    BY <1>8
  <2>3. clock \in [DOMAIN clock -> Nat]
    BY <1>7, <2>2
  <2> QED
    BY <2>1, <2>3 DEF ClocksOver
<1> QED
  BY <1>4, <1>5, <1>6 DEF clock

LEMMA DominatesTransitive ==
    ASSUME NEW c \in ClocksOver(Coordinator, Nat), NEW d \in ClocksOver(Coordinator, Nat),
           NEW e \in ClocksOver(Coordinator, Nat), Dominates(c, d), Dominates(d, e)
    PROVE  Dominates(c, e)
<1>1. \A n : At(c, n) \in Nat /\ At(d, n) \in Nat /\ At(e, n) \in Nat
  BY ClockDomain
<1>2. \A n : At(c, n) >= At(d, n) /\ At(d, n) >= At(e, n)
  BY <1>1 DEF Dominates, At
<1> HIDE DEF Dominates
<1>3. \A n : At(c, n) >= At(e, n)
  BY <1>1, <1>2
<1> QED
  BY <1>3 DEF Dominates

\* Reconciling versions keeps what is true of each of them.
LEMMA GoodReconciled ==
    ASSUME NEW m, NEW lost, NEW max \in Nat, History(m, lost, max),
           NEW vs, DOMAIN vs # {}, \A i \in DOMAIN vs : Good(vs[i], m, max)
    PROVE  Good(ReconcileVersions(vs), m, max)
<1> DEFINE v == ReconcileVersions(vs)
<1>1. Len(m) \in Nat /\ DOMAIN m = 1 .. Len(m)
  BY DEF History
<1>2. /\ v.value = UNION {vs[i].value : i \in DOMAIN vs}
      /\ v.seen = UNION {vs[i].seen : i \in DOMAIN vs}
  BY DEF ReconcileVersions
<1>3. \A i \in DOMAIN vs : Typed(vs[i], m)
  BY DEF Good
<1>4. /\ v.clock \in ClocksOver(Coordinator, Nat)
      /\ \A n \in DOMAIN v.clock : \E i \in DOMAIN vs :
             n \in DOMAIN vs[i].clock /\ v.clock[n] = vs[i].clock[n]
      /\ \A i \in DOMAIN vs : \A n \in DOMAIN vs[i].clock :
             n \in DOMAIN v.clock /\ v.clock[n] >= vs[i].clock[n]
  BY <1>1, <1>3, MergedClock
<1> HIDE DEF v
<1>5. Typed(v, m)
  <2>1. v.value \subseteq DOMAIN m /\ v.seen \subseteq DOMAIN m
    BY <1>2, <1>3 DEF Typed
  <2>2. \A n \in DOMAIN v.clock : v.clock[n] \in 1 .. Len(m)
    BY <1>3, <1>4 DEF Typed
  <2> QED
    BY <1>4, <2>1, <2>2 DEF Typed
<1>6. Justified(v, m)
  <2> SUFFICES ASSUME NEW n \in DOMAIN v.clock
               PROVE  \E x \in v.seen : /\ m[x].by = n /\ n \in DOMAIN m[x].version.clock
                                        /\ m[x].version.clock[n] = v.clock[n]
    BY DEF Justified
  <2>1. PICK i \in DOMAIN vs : n \in DOMAIN vs[i].clock /\ v.clock[n] = vs[i].clock[n]
    BY <1>4
  <2>2. PICK x \in vs[i].seen : /\ m[x].by = n /\ n \in DOMAIN m[x].version.clock
                                /\ m[x].version.clock[n] = vs[i].clock[n]
    BY <2>1 DEF Good, Justified
  <2> QED
    BY <1>2, <2>1, <2>2
<1>7. KnowsPast(v, m)
  <2> SUFFICES ASSUME NEW x \in v.seen PROVE m[x].version.seen \subseteq v.seen
    BY DEF KnowsPast
  <2>1. PICK i \in DOMAIN vs : x \in vs[i].seen
    BY <1>2
  <2>2. m[x].version.seen \subseteq vs[i].seen
    BY <2>1 DEF Good, KnowsPast
  <2> QED
    BY <1>2, <2>2
<1>8. CountsPast(v, m, max)
  <2> SUFFICES ASSUME NEW x \in v.seen, m[x].by \in DOMAIN m[x].version.clock
               PROVE  Reaches(v.clock, m[x].by, m[x].version.clock[m[x].by], max)
    BY DEF CountsPast
  <2>1. PICK i \in DOMAIN vs : x \in vs[i].seen
    BY <1>2
  <2> DEFINE k == m[x].version.clock[m[x].by]
             c == vs[i].clock
             d == v.clock
  <2>2. Reaches(c, m[x].by, k, max)
    BY <2>1 DEF Good, CountsPast
  <2>3. k \in Nat
    <3>1. x \in DOMAIN m
      BY <1>5 DEF Typed
    <3>2. Good(m[x].version, m, max)
      BY <3>1 DEF History
    <3> QED
      BY <3>2 DEF Good, Typed
  <2>4. c \in ClocksOver(Coordinator, Nat) /\ d \in ClocksOver(Coordinator, Nat)
    BY <1>3, <1>4 DEF Typed
  <2>5. \A n \in DOMAIN c : n \in DOMAIN d /\ d[n] >= c[n]
    BY <1>4
  <2> HIDE DEF c, d, k
  <2>6. Reaches(d, m[x].by, k, max)
    BY <2>2, <2>3, <2>4, <2>5, ReachesMore
  <2> QED
    BY <2>6 DEF d, k
<1>9. CoversValues(v, m)
  <2> SUFFICES ASSUME NEW x \in v.value
               PROVE  x \in v.seen /\ Dominates(v.clock, m[x].version.clock)
    BY DEF CoversValues
  <2>1. PICK i \in DOMAIN vs : x \in vs[i].value
    BY <1>2
  <2> DEFINE c == vs[i].clock
             d == v.clock
             e == m[x].version.clock
  <2>2. x \in vs[i].seen /\ Dominates(c, e)
    BY <2>1 DEF Good, CoversValues
  <2>3. c \in ClocksOver(Coordinator, Nat) /\ d \in ClocksOver(Coordinator, Nat)
    BY <1>3, <1>4 DEF Typed
  <2>4. e \in ClocksOver(Coordinator, Nat)
    <3>1. x \in DOMAIN m
      BY <1>5 DEF Typed
    <3>2. Good(m[x].version, m, max)
      BY <3>1 DEF History
    <3> QED
      BY <3>2 DEF Good, Typed
  <2>5. Dominates(d, c)
    <3>1. \A n \in DOMAIN c : n \in DOMAIN d /\ d[n] >= c[n]
      BY <1>4
    <3>2. \A n : At(d, n) \in Nat /\ At(c, n) \in Nat
      BY <2>3, ClockDomain
    <3> HIDE DEF c, d
    <3>3. \A n : At(d, n) >= At(c, n)
      BY <3>1, <3>2 DEF At
    <3> QED
      BY <3>3 DEF Dominates
  <2> HIDE DEF c, d, e
  <2>6. Dominates(d, e)
    BY <2>2, <2>3, <2>4, <2>5, DominatesTransitive
  <2> QED
    BY <1>2, <2>1, <2>2, <2>6 DEF d, e
<1> QED
  BY <1>5, <1>6, <1>7, <1>8, <1>9 DEF Good, v

-----------------------------------------------------------------------------
\* What a read is given, and what it returns, is what nodes have held.
LEMMA SuccessfulGood ==
    ASSUME preference \in Preferences, NEW m, NEW max, NEW got, DOMAIN got = Server,
           \A s \in Server : Good(got[s], m, max)
    PROVE  /\ DOMAIN Successful(got) \subseteq Nat
           /\ \A i \in DOMAIN Successful(got) : Good(Successful(got)[i], m, max)
<1>1. preference \in Seq(Server)
  BY PreferencesAssumption
<1>2. \A i \in DOMAIN ReadNodes : i \in Nat /\ ReadNodes[i] \in Server
  <2> DEFINE k == IF R <= Len(preference) THEN R ELSE Len(preference)
  <2>1. ReadNodes = SubSeq(preference, 1, k)
    BY DEF ReadNodes, Prefix
  <2>2. k \in 0 .. Len(preference)
    BY <1>1, QuorumAssumption
  <2> HIDE DEF k
  <2>3. SubSeq(preference, 1, k) \in Seq(Server)
    BY <1>1, <2>2
  <2> QED
    BY <2>1, <2>3
<1>3. /\ DOMAIN Successful(got) \subseteq DOMAIN ReadNodes
      /\ \A i \in DOMAIN Successful(got) : Successful(got)[i] = got[ReadNodes[i]]
  BY DEF Successful
<1> QED
  BY <1>2, <1>3

LEMMA ReadResultGood ==
    ASSUME NEW m, NEW lost, NEW max \in Nat, History(m, lost, max),
           NEW vs, DOMAIN vs \subseteq Nat, \A i \in DOMAIN vs : Good(vs[i], m, max)
    PROVE  /\ Good(ReadResult(vs), m, max)
           /\ CheckForConflicts(vs) => Good(ReconcileVersions(vs), m, max)
<1>1. CASE DOMAIN vs = {}
  <2>1. ReadResult(vs) = NoVersion /\ ~CheckForConflicts(vs)
    BY <1>1 DEF ReadResult, CheckForConflicts
  <2> QED
    BY <2>1, GoodNoVersion
<1>2. CASE DOMAIN vs # {}
  <2>1. Good(ReconcileVersions(vs), m, max)
    BY <1>2, GoodReconciled
  <2>2. CASE CheckForConflicts(vs)
    <3>1. ReadResult(vs) = ReconcileVersions(vs)
      BY <1>2, <2>2 DEF ReadResult
    <3> QED
      BY <2>1, <3>1
  <2>3. CASE ~CheckForConflicts(vs)
    <3> DEFINE first == CHOOSE i \in DOMAIN vs : \A j \in DOMAIN vs : i <= j
    <3>1. ReadResult(vs) = vs[first]
      BY <1>2, <2>3 DEF ReadResult
    <3>2. \E i \in DOMAIN vs : \A j \in DOMAIN vs : i <= j
      BY <1>2, Least
    <3>3. first \in DOMAIN vs
      BY <3>2, Zenon
    <3> QED
      BY <2>1, <2>3, <3>1, <3>3
  <2> QED
    BY <2>2, <2>3
<1> QED
  BY <1>1, <1>2

-----------------------------------------------------------------------------
\* A step that makes no version keeps the invariant when it keeps the rest of it.
LEMMA SameHistory ==
    ASSUME IInv, UNCHANGED <<setting, made, pruned, writes>>,
           DOMAIN store' = Server, \A s \in Server : Good(store'[s], made, maxClockSize),
           DOMAIN context' = Coordinator,
           \A c \in Coordinator : Good(context'[c], made, maxClockSize),
           DOMAIN repairs' = 1 .. MaxReads,
           \A i \in 1 .. MaxReads : Good(repairs'[i].version, made, maxClockSize),
           DOMAIN op' = Coordinator,
           \A c \in Coordinator : op'[c].pc = "writing" => Good(op'[c].version, made, maxClockSize),
           \A c \in Coordinator : op'[c].pc = "reading" =>
               DOMAIN op'[c].got = Server
               /\ \A s \in Server : Good(op'[c].got[s], made, maxClockSize)
    PROVE  IInv'
<1>1. /\ made' = made /\ pruned' = pruned /\ writes' = writes
      /\ preference' = preference /\ maxClockSize' = maxClockSize
  BY DEF setting
<1>2. /\ preference' \in Preferences /\ maxClockSize' \in ClockSizes
      /\ History(made', pruned', maxClockSize') /\ writes' = Len(made')
  BY <1>1 DEF IInv
<1> QED
  BY <1>1, <1>2 DEF IInv

\* So does one that changes only what it does not speak about.
LEMMA Unrelated ==
    ASSUME IInv, UNCHANGED <<setting, made, pruned, writes, store, context, repairs, op>>
    PROVE  IInv'
BY SameHistory DEF IInv

\* A server that takes a good version holds one.
LEMMA StoreGood ==
    ASSUME IInv, NEW s, NEW v, Good(v, made, maxClockSize),
           store' = [store EXCEPT ![s] = v] \/ store' = store
    PROVE  DOMAIN store' = Server /\ \A t \in Server : Good(store'[t], made, maxClockSize)
BY DEF IInv

\* The loop of write goes on with the version it has.
LEMMA WriteAdvanceGood ==
    ASSUME IInv, NEW c \in Coordinator, op[c].pc = "writing", NEW stored, NEW failed,
           WriteAdvance(c, stored, failed)
    PROVE  /\ DOMAIN context' = Coordinator
           /\ \A d \in Coordinator : Good(context'[d], made, maxClockSize)
           /\ DOMAIN op' = Coordinator
           /\ \A d \in Coordinator : op'[d].pc = "writing" =>
                  Good(op'[d].version, made, maxClockSize)
           /\ \A d \in Coordinator : op'[d].pc = "reading" => op'[d] = op[d]
<1>1. /\ DOMAIN op = Coordinator /\ DOMAIN context = Coordinator
      /\ Good(op[c].version, made, maxClockSize)
      /\ \A d \in Coordinator : Good(context[d], made, maxClockSize)
      /\ \A d \in Coordinator : op[d].pc = "writing" => Good(op[d].version, made, maxClockSize)
  BY DEF IInv
<1>2. CASE Tail(op[c].todo) # <<>>
  <2> DEFINE next == Sending(op[c].write, op[c].version, Tail(op[c].todo), stored, failed)
  <2>1. op' = [op EXCEPT ![c] = next] /\ context' = context
    BY <1>2 DEF WriteAdvance
  <2>2. next.pc = "writing" /\ next.version = op[c].version
    BY DEF Sending
  <2> HIDE DEF next
  <2>3. \A d \in Coordinator : op'[d] = IF d = c THEN next ELSE op[d]
    BY <1>1, <2>1
  <2>4. DOMAIN op' = Coordinator
    BY <1>1, <2>1
  <2>5. \A d \in Coordinator : op'[d].pc = "writing" => Good(op'[d].version, made, maxClockSize)
    BY <1>1, <2>2, <2>3
  <2>6. \A d \in Coordinator : op'[d].pc = "reading" => op'[d] = op[d]
    BY <2>2, <2>3
  <2> QED
    BY <1>1, <2>1, <2>4, <2>5, <2>6
<1>3. CASE ~(Tail(op[c].todo) # <<>>)
  <2>1. op' = [op EXCEPT ![c] = Idle]
        /\ (context' = context \/ context' = [context EXCEPT ![c] = op[c].version])
    BY <1>3 DEF WriteAdvance
  <2>2. Idle.pc = "idle"
    BY DEF Idle
  <2>3. \A d \in Coordinator : op'[d] = IF d = c THEN Idle ELSE op[d]
    BY <1>1, <2>1
  <2>4. DOMAIN op' = Coordinator
    BY <1>1, <2>1
  <2>5. \A d \in Coordinator : op'[d].pc = "writing" => Good(op'[d].version, made, maxClockSize)
    BY <1>1, <2>2, <2>3
  <2>6. \A d \in Coordinator : op'[d].pc = "reading" => op'[d] = op[d]
    BY <2>2, <2>3
  <2>7. DOMAIN context' = Coordinator
        /\ \A d \in Coordinator : Good(context'[d], made, maxClockSize)
    BY <1>1, <2>1
  <2> QED
    BY <2>4, <2>5, <2>6, <2>7
<1> QED
  BY <1>2, <1>3

-----------------------------------------------------------------------------
LEMMA InitGood == Init => IInv
<1> SUFFICES ASSUME Init PROVE IInv
  OBVIOUS
<1> USE GoodNoVersion DEF Init
<1>1. preference \in Preferences /\ maxClockSize \in ClockSizes
  OBVIOUS
<1>2. History(made, pruned, maxClockSize) /\ writes = Len(made)
  BY DEF History
<1>3. DOMAIN store = Server /\ \A s \in Server : Good(store[s], made, maxClockSize)
  OBVIOUS
<1>4. DOMAIN context = Coordinator /\ \A c \in Coordinator : Good(context[c], made, maxClockSize)
  OBVIOUS
<1>5. /\ DOMAIN repairs = 1 .. MaxReads
      /\ \A i \in 1 .. MaxReads : Good(repairs[i].version, made, maxClockSize)
  OBVIOUS
<1>6. /\ DOMAIN op = Coordinator
      /\ \A c \in Coordinator : op[c].pc # "writing" /\ op[c].pc # "reading"
  BY DEF Idle
<1> QED
  BY <1>1, <1>2, <1>3, <1>4, <1>5, <1>6 DEF IInv

LEMMA WriteBeginGood ==
    ASSUME IInv, NEW c \in Coordinator, NEW ctx \in {NoVersion, context[c]}, WriteBegin(c, ctx)
    PROVE  IInv'
<1>1. /\ History(made, pruned, maxClockSize) /\ writes = Len(made)
      /\ preference \in Preferences /\ maxClockSize \in ClockSizes /\ maxClockSize \in Nat
  BY SizesAssumption DEF IInv
<1>2. Good(ctx, made, maxClockSize)
  BY GoodNoVersion DEF IInv
<1> DEFINE n == writes + 1
           todo == GetWriteNodes(preference, AvailableNodes)
<1>3. PICK clock \in Prune(WriteClock(c, ctx), maxClockSize) :
          LET v == [value |-> {n}, clock |-> clock, seen |-> ctx.seen \cup {n}]
          IN  /\ op' = [op EXCEPT ![c] = Sending(n, v, todo, {}, {})]
              /\ made' = Append(made, [version |-> v, by |-> c])
  BY Zenon DEF WriteBegin
<1> DEFINE r == Record(n, c, ctx, clock)
           v == r.version
<1>4. /\ writes' = writes + 1
      /\ pruned' = IF ShouldPrune(WriteClock(c, ctx), maxClockSize) THEN pruned \cup {n} ELSE pruned
      /\ preference' = preference /\ maxClockSize' = maxClockSize
      /\ store' = store /\ context' = context /\ repairs' = repairs
  BY DEF WriteBegin, setting
<1>5. /\ op' = [op EXCEPT ![c] = Sending(n, v, todo, {}, {})]
      /\ made' = Append(made, r)
  BY <1>3 DEF Record
<1>6. History(made', pruned', maxClockSize) /\ Good(v, made', maxClockSize)
  <2> DEFINE lost2 == pruned'
  <2>1. /\ pruned \subseteq lost2
        /\ ShouldPrune(WriteClock(c, ctx), maxClockSize) => n \in lost2
    BY <1>4
  <2>2. n = Len(made) + 1
    BY <1>1
  <2> HIDE DEF lost2, n, r, v
  <2>3. /\ History(Append(made, r), lost2, maxClockSize)
        /\ Good(r.version, Append(made, r), maxClockSize)
    BY <1>1, <1>2, <2>1, <2>2, NewVersion DEF r
  <2> QED
    BY <1>5, <2>3 DEF lost2, v
<1>7. writes' = Len(made')
  <2>1. made \in Seq(WriteRecord)
    BY <1>1 DEF History
  <2> HIDE DEF r
  <2>2. Len(Append(made, r)) = Len(made) + 1
    BY <2>1
  <2> QED
    BY <1>1, <1>4, <1>5, <2>2
<1>8. \A x : Good(x, made, maxClockSize) => Good(x, made', maxClockSize)
  <2>1. made \in Seq(WriteRecord) /\ made' \in Seq(WriteRecord)
    BY <1>1, <1>6 DEF History
  <2>2. Len(made) \in Nat /\ Len(made') = Len(made) + 1 /\ made'[Len(made) + 1] = r
    BY <1>5, <2>1
  <2>3. r \in WriteRecord
    BY <2>1, <2>2
  <2> HIDE DEF r
  <2> QED
    BY <1>5, <2>1, <2>3, GoodLater
<1> HIDE DEF v, r, n, todo
<1>9. DOMAIN store' = Server /\ \A s \in Server : Good(store'[s], made', maxClockSize)
  BY <1>4, <1>8 DEF IInv
<1>10. DOMAIN context' = Coordinator
       /\ \A d \in Coordinator : Good(context'[d], made', maxClockSize)
  BY <1>4, <1>8 DEF IInv
<1>11. DOMAIN repairs' = 1 .. MaxReads
       /\ \A i \in 1 .. MaxReads : Good(repairs'[i].version, made', maxClockSize)
  BY <1>4, <1>8 DEF IInv
<1>12. /\ Sending(n, v, todo, {}, {}).pc = "writing"
       /\ Sending(n, v, todo, {}, {}).version = v
  BY DEF Sending
<1>13. /\ DOMAIN op' = Coordinator
       /\ \A d \in Coordinator : op'[d] = IF d = c THEN Sending(n, v, todo, {}, {}) ELSE op[d]
  BY <1>5 DEF IInv
<1>14. \A d \in Coordinator : op'[d].pc = "writing" => Good(op'[d].version, made', maxClockSize)
  BY <1>6, <1>8, <1>12, <1>13 DEF IInv
<1>15. \A d \in Coordinator : op'[d].pc = "reading" =>
           DOMAIN op'[d].got = Server
           /\ \A s \in Server : Good(op'[d].got[s], made', maxClockSize)
  BY <1>8, <1>12, <1>13 DEF IInv
<1>16. /\ preference' \in Preferences /\ maxClockSize' \in ClockSizes
       /\ History(made', pruned', maxClockSize')
  BY <1>1, <1>4, <1>6
<1> QED
  BY <1>4, <1>7, <1>9, <1>10, <1>11, <1>13, <1>14, <1>15, <1>16 DEF IInv

\* A step of a write after its beginning
LEMMA WriteStepGood ==
    ASSUME IInv, NEW c \in Coordinator, WriteRetry(c) \/ WriteGivesUp(c) \/ WriteSucceeds(c)
    PROVE  IInv'
<1>1. op[c].pc = "writing" /\ Good(op[c].version, made, maxClockSize)
  BY DEF WriteRetry, WriteGivesUp, WriteSucceeds, IInv
<1>2. /\ store' = [store EXCEPT ![Head(op[c].todo)] = op[c].version] \/ store' = store
      /\ setting' = setting /\ made' = made /\ pruned' = pruned /\ writes' = writes
      /\ repairs' = repairs
  BY DEF WriteRetry, WriteGivesUp, WriteSucceeds, StoreFails, Store, bounds
<1>3. DOMAIN store' = Server /\ \A t \in Server : Good(store'[t], made, maxClockSize)
  BY <1>1, <1>2, StoreGood
<1>4. /\ DOMAIN context' = Coordinator
      /\ \A d \in Coordinator : Good(context'[d], made, maxClockSize)
      /\ DOMAIN op' = Coordinator
      /\ \A d \in Coordinator : op'[d].pc = "writing" =>
             Good(op'[d].version, made, maxClockSize)
      /\ \A d \in Coordinator : op'[d].pc = "reading" => op'[d] = op[d]
  <2>1. CASE WriteRetry(c)
    BY <2>1 DEF WriteRetry, IInv
  <2>2. CASE WriteGivesUp(c)
    <3>1. WriteAdvance(c, op[c].stored, op[c].failed \cup {Head(op[c].todo)})
      BY <2>2 DEF WriteGivesUp
    <3> QED
      BY <1>1, <3>1, WriteAdvanceGood
  <2>3. CASE WriteSucceeds(c)
    <3>1. WriteAdvance(c, op[c].stored \cup {Head(op[c].todo)}, op[c].failed)
      BY <2>3 DEF WriteSucceeds
    <3> QED
      BY <1>1, <3>1, WriteAdvanceGood
  <2> QED
    BY <2>1, <2>2, <2>3
<1>5. \A d \in Coordinator : op'[d].pc = "reading" =>
          DOMAIN op'[d].got = Server /\ \A s \in Server : Good(op'[d].got[s], made, maxClockSize)
  BY <1>4 DEF IInv
<1>6. DOMAIN repairs' = 1 .. MaxReads
      /\ \A i \in 1 .. MaxReads : Good(repairs'[i].version, made, maxClockSize)
  BY <1>2 DEF IInv
<1> QED
  BY <1>2, <1>3, <1>4, <1>5, <1>6, SameHistory

\* A step of a read
LEMMA ReadStepGood ==
    ASSUME IInv, NEW c \in Coordinator, ReadStep(c)
    PROVE  IInv'
<1>1. /\ History(made, pruned, maxClockSize) /\ preference \in Preferences /\ maxClockSize \in Nat
      /\ DOMAIN op = Coordinator /\ DOMAIN context = Coordinator
      /\ \A s \in Server : Good(store[s], made, maxClockSize)
      /\ \A d \in Coordinator : Good(context[d], made, maxClockSize)
      /\ \A d \in Coordinator : op[d].pc = "writing" => Good(op[d].version, made, maxClockSize)
      /\ \A d \in Coordinator : op[d].pc = "reading" =>
             DOMAIN op[d].got = Server /\ \A s \in Server : Good(op[d].got[s], made, maxClockSize)
  BY SizesAssumption DEF IInv
\* A read that is under way goes on with what it has been given.
<1>2. ASSUME NEW read, NEW left, NEW got, op' = [op EXCEPT ![c] = Asking(read, left, got)],
             DOMAIN got = Server, \A s \in Server : Good(got[s], made, maxClockSize),
             UNCHANGED <<setting, made, pruned, writes, store, context, repairs>>
      PROVE  IInv'
  <2>1. Asking(read, left, got).pc = "reading" /\ Asking(read, left, got).got = got
    BY DEF Asking
  <2>2. DOMAIN op' = Coordinator
        /\ \A d \in Coordinator : op'[d] = IF d = c THEN Asking(read, left, got) ELSE op[d]
    BY <1>1, <1>2
  <2>3. \A d \in Coordinator : op'[d].pc = "writing" => Good(op'[d].version, made, maxClockSize)
    BY <1>1, <2>1, <2>2
  <2>4. \A d \in Coordinator : op'[d].pc = "reading" =>
            DOMAIN op'[d].got = Server /\ \A s \in Server : Good(op'[d].got[s], made, maxClockSize)
    BY <1>1, <1>2, <2>1, <2>2
  <2>5. /\ DOMAIN store' = Server /\ \A s \in Server : Good(store'[s], made, maxClockSize)
        /\ DOMAIN context' = Coordinator
        /\ \A d \in Coordinator : Good(context'[d], made, maxClockSize)
        /\ DOMAIN repairs' = 1 .. MaxReads
        /\ \A i \in 1 .. MaxReads : Good(repairs'[i].version, made, maxClockSize)
    BY <1>2 DEF IInv
  <2> QED
    BY <1>2, <2>2, <2>3, <2>4, <2>5, SameHistory
<1>3. CASE ReadBegin(c)
  <2> DEFINE got == [s \in Server |-> NoVersion]
  <2>1. op' = [op EXCEPT ![c] = Asking(reads + 1, Members(ReadNodes), got)]
    BY <1>3 DEF ReadBegin
  <2>2. DOMAIN got = Server /\ \A s \in Server : Good(got[s], made, maxClockSize)
    BY GoodNoVersion
  <2>3. UNCHANGED <<setting, made, pruned, writes, store, context, repairs>>
    BY <1>3 DEF ReadBegin
  <2> HIDE DEF got
  <2> QED
    BY <1>2, <2>1, <2>2, <2>3
<1>4. ASSUME NEW s \in Server, ReadAnswer(c, s) PROVE IInv'
  <2>1. /\ op[c].pc = "reading"
        /\ UNCHANGED <<setting, made, pruned, writes, store, context, repairs>>
    BY <1>4 DEF ReadAnswer
  <2>2. CASE op' = [op EXCEPT ![c] = Asking(@.read, @.left \ {s}, [@.got EXCEPT ![s] = store[s]])]
    <3> DEFINE got == [op[c].got EXCEPT ![s] = store[s]]
    <3>1. op' = [op EXCEPT ![c] = Asking(op[c].read, op[c].left \ {s}, got)]
      BY <2>2
    <3>2. DOMAIN got = Server /\ \A t \in Server : Good(got[t], made, maxClockSize)
      BY <1>1, <2>1
    <3> HIDE DEF got
    <3> QED
      BY <1>2, <2>1, <3>1, <3>2
  <2>3. CASE op' = [op EXCEPT ![c] = Asking(@.read, @.left \ {s}, @.got)]
    <3>1. op' = [op EXCEPT ![c] = Asking(op[c].read, op[c].left \ {s}, op[c].got)]
      BY <2>3
    <3>2. DOMAIN op[c].got = Server /\ \A t \in Server : Good(op[c].got[t], made, maxClockSize)
      BY <1>1, <2>1
    <3> QED
      BY <1>2, <2>1, <3>1, <3>2
  <2> QED
    BY <1>4, <2>2, <2>3 DEF ReadAnswer
<1>5. CASE ReadEnd(c)
  <2> DEFINE vs == Successful(op[c].got)
  <2>1. /\ op[c].pc = "reading" /\ op' = [op EXCEPT ![c] = Idle]
        /\ context' = IF DOMAIN vs = {} THEN context ELSE [context EXCEPT ![c] = ReadResult(vs)]
        /\ repairs' = IF CheckForConflicts(vs)
                      THEN [repairs EXCEPT ![op[c].read] =
                               [version |-> ReconcileVersions(vs), left |-> Members(preference)]]
                      ELSE repairs
        /\ UNCHANGED <<setting, made, pruned, writes, store>>
    BY <1>5 DEF ReadEnd, bounds
  <2>2. DOMAIN vs \subseteq Nat /\ \A i \in DOMAIN vs : Good(vs[i], made, maxClockSize)
    BY <1>1, <2>1, SuccessfulGood
  <2> HIDE DEF vs
  <2>3. /\ Good(ReadResult(vs), made, maxClockSize)
        /\ CheckForConflicts(vs) => Good(ReconcileVersions(vs), made, maxClockSize)
    BY <1>1, <2>2, ReadResultGood
  <2>4. /\ DOMAIN context' = Coordinator
        /\ \A d \in Coordinator : Good(context'[d], made, maxClockSize)
    BY <1>1, <2>1, <2>3
  <2>5. /\ DOMAIN repairs' = 1 .. MaxReads
        /\ \A i \in 1 .. MaxReads : Good(repairs'[i].version, made, maxClockSize)
    <3>1. /\ DOMAIN repairs = 1 .. MaxReads
          /\ \A i \in 1 .. MaxReads : Good(repairs[i].version, made, maxClockSize)
      BY DEF IInv
    <3> DEFINE repair == [version |-> ReconcileVersions(vs), left |-> Members(preference)]
    <3>2. repair.version = ReconcileVersions(vs)
      OBVIOUS
    <3>3. repairs' = IF CheckForConflicts(vs) THEN [repairs EXCEPT ![op[c].read] = repair] ELSE repairs
      BY <2>1
    <3> HIDE DEF repair
    <3> QED
      BY <2>3, <3>1, <3>2, <3>3
  <2>6. /\ DOMAIN op' = Coordinator
        /\ \A d \in Coordinator : op'[d] = IF d = c THEN Idle ELSE op[d]
        /\ Idle.pc = "idle"
    BY <1>1, <2>1 DEF Idle
  <2>7. \A d \in Coordinator : op'[d].pc = "writing" => Good(op'[d].version, made, maxClockSize)
    BY <1>1, <2>6
  <2>8. \A d \in Coordinator : op'[d].pc = "reading" =>
            DOMAIN op'[d].got = Server /\ \A s \in Server : Good(op'[d].got[s], made, maxClockSize)
    BY <1>1, <2>6
  <2>9. DOMAIN store' = Server /\ \A s \in Server : Good(store'[s], made, maxClockSize)
    BY <2>1 DEF IInv
  <2> QED
    BY <2>1, <2>4, <2>5, <2>6, <2>7, <2>8, <2>9, SameHistory
<1> QED
  BY <1>3, <1>4, <1>5 DEF ReadStep

\* A call of a repair
LEMMA RepairWriteGood ==
    ASSUME IInv, NEW i \in 1 .. MaxReads, NEW s \in Server, RepairWrite(i, s)
    PROVE  IInv'
<1>1. /\ repairs' = [repairs EXCEPT ![i].left = @ \ {s}]
      /\ store' = [store EXCEPT ![s] = repairs[i].version] \/ store' = store
      /\ UNCHANGED <<setting, op, context, made, pruned, writes>>
  BY DEF RepairWrite, StoreFails, Store
<1>2. Good(repairs[i].version, made, maxClockSize)
  BY DEF IInv
<1>3. DOMAIN store' = Server /\ \A t \in Server : Good(store'[t], made, maxClockSize)
  BY <1>1, <1>2, StoreGood
<1>4. /\ DOMAIN repairs' = 1 .. MaxReads
      /\ \A j \in 1 .. MaxReads : Good(repairs'[j].version, made, maxClockSize)
  <2>1. /\ DOMAIN repairs' = 1 .. MaxReads
        /\ \A j \in 1 .. MaxReads : repairs'[j].version = repairs[j].version
    BY <1>1 DEF IInv
  <2> QED
    BY <2>1 DEF IInv
<1>5. /\ DOMAIN context' = Coordinator
      /\ \A d \in Coordinator : Good(context'[d], made, maxClockSize)
      /\ DOMAIN op' = Coordinator
      /\ \A d \in Coordinator : op'[d].pc = "writing" => Good(op'[d].version, made, maxClockSize)
      /\ \A d \in Coordinator : op'[d].pc = "reading" =>
             DOMAIN op'[d].got = Server
             /\ \A t \in Server : Good(op'[d].got[t], made, maxClockSize)
  BY <1>1 DEF IInv
<1> QED
  BY <1>1, <1>3, <1>4, <1>5, SameHistory

-----------------------------------------------------------------------------
\* Whatever nodes, clients, reads and repairs hold has a clock that counts only
\* what its version comes after, and has lost only counts that larger ones took
\* the place of.
THEOREM VersionsStayGood == Spec => []IInv
<1>1. IInv /\ [Next]_vars => IInv'
  <2> SUFFICES ASSUME IInv, [Next]_vars PROVE IInv'
    OBVIOUS
  <2>1. ASSUME NEW c \in Coordinator, WriteStep(c) PROVE IInv'
    <3>1. ASSUME NEW ctx \in {NoVersion, context[c]}, WriteBegin(c, ctx) PROVE IInv'
      BY <3>1, WriteBeginGood
    <3>2. CASE WriteRetry(c) \/ WriteGivesUp(c) \/ WriteSucceeds(c)
      BY <3>2, WriteStepGood
    <3> QED
      BY <2>1, <3>1, <3>2 DEF WriteStep
  <2>2. ASSUME NEW c \in Coordinator, ReadStep(c) PROVE IInv'
    BY <2>2, ReadStepGood
  <2>3. ASSUME NEW i \in 1 .. MaxReads, NEW s \in Server, RepairWrite(i, s) PROVE IInv'
    BY <2>3, RepairWriteGood
  <2>4. CASE UNCHANGED vars
    BY <2>4, Unrelated DEF vars, bounds, setting
  <2> QED
    BY <2>1, <2>2, <2>3, <2>4 DEF Next
<1> QED
  BY InitGood, <1>1, PTL DEF Spec

\* A stored clock covers only writes its version comes after, through any chain of
\* contexts, reads and repairs, but for writes that a pruned clock or a counter
\* used twice speaks of.
THEOREM ClocksAreTruthful == Spec => []ClocksOnlyClaimSeen
<1>1. IInv => ClocksOnlyClaimSeen
  BY ClaimsOnlySeen DEF IInv, ClocksOnlyClaimSeen
<1> QED
  BY <1>1, VersionsStayGood, PTL

\* A read that is given two versions of which neither knows the other's values
\* returns the values of both.
THEOREM ReadsReturnConflicts == Spec => []ConflictsAreReturned
<1>1. IInv => ConflictsAreReturned
  <2> SUFFICES ASSUME IInv, NEW c \in Coordinator, op[c].pc = "reading",
                      NEW i \in DOMAIN Successful(op[c].got), NEW j \in DOMAIN Successful(op[c].got),
                      NEW w \in Successful(op[c].got)[i].value,
                      NEW x \in Successful(op[c].got)[j].value,
                      w \notin Successful(op[c].got)[j].seen,
                      x \notin Successful(op[c].got)[i].seen,
                      ~Ambiguous(w), ~Ambiguous(x)
               PROVE  {w, x} \subseteq ReadResult(Successful(op[c].got)).value
    BY DEF ConflictsAreReturned
  <2> DEFINE vs == Successful(op[c].got)
  <2>1. /\ History(made, pruned, maxClockSize) /\ preference \in Preferences
        /\ DOMAIN op[c].got = Server
        /\ \A s \in Server : Good(op[c].got[s], made, maxClockSize)
    BY DEF IInv
  <2>2. DOMAIN vs \subseteq Nat /\ \A k \in DOMAIN vs : Good(vs[k], made, maxClockSize)
    BY <2>1, SuccessfulGood
  <2> HIDE DEF vs
  <2>3. w \notin vs[j].seen /\ x \notin vs[i].seen /\ i \in DOMAIN vs /\ j \in DOMAIN vs
        /\ w \in vs[i].value /\ x \in vs[j].value
    BY DEF vs
  <2>4. w \in DOMAIN made /\ x \in DOMAIN made
    BY <2>2, <2>3 DEF Good, Typed
  \* Neither clock covers the other: it would cover a write its version has not seen.
  <2>5. ASSUME NEW k \in DOMAIN vs, NEW l \in DOMAIN vs, NEW y \in vs[l].value,
               y \notin vs[k].seen, ~Ambiguous(y)
        PROVE  ~Dominates(vs[k].clock, vs[l].clock)
    <3> SUFFICES ASSUME Dominates(vs[k].clock, vs[l].clock) PROVE FALSE
      OBVIOUS
    <3>1. y \in DOMAIN made /\ Dominates(vs[l].clock, made[y].version.clock)
          /\ Good(made[y].version, made, maxClockSize)
      BY <2>1, <2>2 DEF Good, Typed, CoversValues, History
    <3>2. /\ vs[k].clock \in ClocksOver(Coordinator, Nat)
          /\ vs[l].clock \in ClocksOver(Coordinator, Nat)
          /\ made[y].version.clock \in ClocksOver(Coordinator, Nat)
      BY <2>2, <3>1 DEF Good, Typed
    <3>3. Dominates(vs[k].clock, made[y].version.clock)
      BY <3>1, <3>2, DominatesTransitive
    <3> QED
      BY <2>1, <2>2, <2>5, <3>1, <3>3, ClaimsOnlySeen
  <2>6. ~Dominates(vs[i].clock, vs[j].clock) /\ ~Dominates(vs[j].clock, vs[i].clock)
    BY <2>3, <2>5
  <2>7. IsConcurrentWith(vs[i].clock, vs[j].clock) /\ IsConcurrentWith(vs[j].clock, vs[i].clock)
    <3>1. vs[i].clock \in NatClock(Coordinator) /\ vs[j].clock \in NatClock(Coordinator)
      BY <2>2, <2>3 DEF Good, Typed, NatClock
    <3> QED
      BY <2>6, <3>1, CompareByDomination
  <2>8. CheckForConflicts(vs)
    <3>1. i # j
      BY <2>2, <2>3 DEF Good, CoversValues
    <3>2. i < j \/ j < i
      BY <2>2, <2>3, <3>1
    <3> QED
      BY <2>3, <2>7, <3>2 DEF CheckForConflicts
  <2>9. ReadResult(vs) = ReconcileVersions(vs)
    BY <2>3, <2>8 DEF ReadResult
  <2>10. {w, x} \subseteq ReconcileVersions(vs).value
    BY <2>3 DEF ReconcileVersions
  <2> QED
    BY <2>9, <2>10 DEF vs
<1> QED
  BY <1>1, VersionsStayGood, PTL
-----------------------------------------------------------------------------
\* What is true of the nodes of a write, of what they hold, and of who reads it.

AnyVersion == [value : SUBSET Nat, clock : ClocksOver(Coordinator, Nat), seen : SUBSET Nat]

Sent == [pc : {"writing"}, write : Nat, version : AnyVersion,
         todo : Seq(Server), stored : SUBSET Server, failed : SUBSET Server]

Asked == [pc : {"reading"}, read : 1 .. MaxReads, left : SUBSET Server, got : [Server -> AnyVersion]]

Records ==
    /\ store \in [Server -> AnyVersion]
    /\ op \in [Coordinator -> {Idle} \cup Sent \cup Asked]
    /\ context \in [Coordinator -> AnyVersion]
    /\ repairs \in [1 .. MaxReads -> [version : AnyVersion, left : SUBSET Server]]
    /\ hints \subseteq Server
    /\ writes \in 0 .. MaxWrites /\ reads \in 0 .. MaxReads /\ failures \in 0 .. MaxFailures
    /\ pruned \subseteq DOMAIN made /\ acked \subseteq DOMAIN made /\ intact \subseteq DOMAIN made

WriteNodes == GetWriteNodes(preference, AvailableNodes)

\* The write o goes to its nodes, each once, and those that took it hold it, or
\* something was stored that was made without it.
UnderWay(o) ==
    /\ o.todo # <<>> /\ Distinct(o.todo)
    /\ Members(o.todo) \cap (o.stored \cup o.failed) = {}
    /\ o.stored \cup Members(o.todo) \subseteq Members(WriteNodes)
    /\ o.write \in DOMAIN made /\ o.write \in o.version.seen
    /\ o.write \in intact => \A s \in o.stored : o.write \in store[s].seen

SendInv ==
    /\ Records
    /\ \A c \in Coordinator, o \in Sent : op[c] = o => UnderWay(o)
    /\ AcknowledgedIsReadable

LEMMA MembersCount ==
    ASSUME NEW T, NEW s \in Seq(T), Distinct(s)
    PROVE  /\ IsFiniteSet(Members(s)) /\ Cardinality(Members(s)) = Len(s) /\ Len(s) \in Nat
           /\ Members(s) \subseteq T
<1>1. Members(s) = Elements(s)
  BY DEF Members, Elements
<1> QED
  BY <1>1, DistinctCount

LEMMA PrefixIs ==
    ASSUME NEW T, NEW s \in Seq(T), NEW n \in Nat
    PROVE  /\ Prefix(s, n) \in Seq(T)
           /\ Len(s) \in Nat /\ Len(Prefix(s, n)) = IF n <= Len(s) THEN n ELSE Len(s)
           /\ DOMAIN Prefix(s, n) = 1 .. Len(Prefix(s, n)) /\ DOMAIN s = 1 .. Len(s)
           /\ \A i \in DOMAIN Prefix(s, n) : i \in DOMAIN s /\ Prefix(s, n)[i] = s[i]
           /\ Distinct(s) => Distinct(Prefix(s, n))
<1> DEFINE k == IF n <= Len(s) THEN n ELSE Len(s)
           t == SubSeq(s, 1, k)
<1>1. Prefix(s, n) = t
  BY DEF Prefix
<1>2. k \in 0 .. Len(s) /\ Len(s) \in Nat /\ DOMAIN s = 1 .. Len(s)
  OBVIOUS
<1>3. /\ t \in Seq(T) /\ Len(t) = k /\ DOMAIN t = 1 .. k
      /\ \A i \in 1 .. k : t[i] = s[i]
  <2> HIDE DEF k
  <2> QED
    BY <1>2
<1>4. \A i \in DOMAIN t : i \in DOMAIN s /\ t[i] = s[i]
  <2> HIDE DEF t, k
  <2> QED
    BY <1>2, <1>3
<1>5. Distinct(s) => Distinct(t)
  <2> HIDE DEF t, k
  <2> QED
    BY <1>4 DEF Distinct
<1> HIDE DEF t
<1> QED
  BY <1>1, <1>2, <1>3, <1>4, <1>5

\* Every node of a read is one of a write, and a write quorum leaves out fewer
\* nodes than a read asks.
LEMMA WriteNodesAre ==
    ASSUME preference \in Preferences
    PROVE  /\ WriteNodes \in Seq(Server) /\ Distinct(WriteNodes)
           /\ ReadNodes \in Seq(Server) /\ Distinct(ReadNodes)
           /\ Members(ReadNodes) \subseteq Members(WriteNodes)
           /\ W + R > N => Len(WriteNodes) < W + Len(ReadNodes)
<1> DEFINE p == preference
           m == Len(p)
           read == Prefix(p, R)
<1>1. p \in Seq(Server) /\ p # <<>> /\ Distinct(p) /\ m \in Nat /\ m # 0 /\ DOMAIN p = 1 .. m
  BY PreferencesAssumption DEF Distinct
<1>2. N \in Nat /\ W \in 1 .. N /\ R \in 1 .. N
  BY QuorumAssumption
<1>3. Reachable(p, Server) = p
  <2>1. {i \in DOMAIN p : p[i] \in Server} = DOMAIN p
    BY <1>1
  <2> HIDE DEF p
  <2> QED
    BY <1>1, <2>1, SublistOfAll DEF Reachable
<1>4. ReadNodes = read
  BY DEF ReadNodes
<1>5. /\ read \in Seq(Server) /\ Distinct(read)
      /\ Len(read) = IF R <= m THEN R ELSE m
      /\ DOMAIN read = 1 .. Len(read)
      /\ \A i \in DOMAIN read : i \in DOMAIN p /\ read[i] = p[i]
  <2> HIDE DEF p
  <2>1. R \in Nat
    BY <1>2
  <2> QED
    BY <1>1, <2>1, PrefixIs
<1> HIDE DEF read
<1>6. CASE QuorumType = "SLOPPY" /\ W - m > 0
  <2> DEFINE I == {i \in DOMAIN AllServers : AllServers[i] \in Server \ Members(p)}
             sub == Sublist(AllServers, I)
             more == Prefix(sub, W - m)
             all == p \o more
             nodes == Prefix(all, N)
  <2>1. WriteNodes = nodes
    BY <1>3, <1>6 DEF WriteNodes, GetWriteNodes, AvailableNodes, Substitutes
  <2>2. /\ sub \in Seq(Server) /\ Distinct(sub)
        /\ \A k \in DOMAIN sub : sub[k] \notin Members(p)
    <3>1. AllServers \in Seq(Server) /\ I \in SUBSET DOMAIN AllServers
          /\ \A i, j \in I : AllServers[i] = AllServers[j] => i = j
      BY ServersAssumption
    <3>2. \A i \in I : AllServers[i] \notin Members(p)
      OBVIOUS
    <3> HIDE DEF I
    <3>3. /\ sub \in Seq(Server)
          /\ \A k \in DOMAIN sub : \E i \in I : sub[k] = AllServers[i]
          /\ \A k, l \in DOMAIN sub : sub[k] = sub[l] => k = l
      BY <3>1, SublistKeeps
    <3> QED
      BY <3>2, <3>3 DEF Distinct
  <2>3. /\ more \in Seq(Server) /\ Distinct(more) /\ Len(more) \in Nat /\ Len(more) <= W - m
        /\ DOMAIN more = 1 .. Len(more)
        /\ \A k \in DOMAIN more : more[k] \notin Members(p)
    <3> HIDE DEF sub
    <3>1. W - m \in Nat
      BY <1>1, <1>2, <1>6
    <3> DEFINE d == W - m
    <3>2. d \in Nat
      BY <3>1
    <3> HIDE DEF d
    <3>3. /\ Prefix(sub, d) \in Seq(Server) /\ Len(sub) \in Nat
          /\ Len(Prefix(sub, d)) = IF d <= Len(sub) THEN d ELSE Len(sub)
          /\ DOMAIN Prefix(sub, d) = 1 .. Len(Prefix(sub, d))
          /\ \A i \in DOMAIN Prefix(sub, d) : i \in DOMAIN sub /\ Prefix(sub, d)[i] = sub[i]
          /\ Distinct(Prefix(sub, d))
      BY <2>2, <3>2, PrefixIs
    <3>4. Len(Prefix(sub, d)) \in Nat /\ Len(Prefix(sub, d)) <= d
      BY <3>2, <3>3
    <3>5. \A k \in DOMAIN Prefix(sub, d) : Prefix(sub, d)[k] \notin Members(p)
      BY <2>2, <3>3
    <3> QED
      BY <3>3, <3>4, <3>5 DEF d
  <2> HIDE DEF more, p
  <2>4. /\ all \in Seq(Server) /\ Len(all) = m + Len(more) /\ DOMAIN all = 1 .. m + Len(more)
        /\ \A i \in 1 .. m + Len(more) : all[i] = IF i <= m THEN p[i] ELSE more[i - m]
    BY <1>1, <2>3
  <2> HIDE DEF all
  <2>5. Distinct(all)
    <3> SUFFICES ASSUME NEW i \in DOMAIN all, NEW j \in DOMAIN all, all[i] = all[j] PROVE i = j
      BY DEF Distinct
    <3>1. \A k \in DOMAIN all : /\ k <= m => k \in DOMAIN p /\ all[k] = p[k] /\ all[k] \in Members(p)
                                /\ k > m => /\ k - m \in DOMAIN more /\ all[k] = more[k - m]
                                            /\ all[k] \notin Members(p)
      <4> SUFFICES ASSUME NEW k \in DOMAIN all
                   PROVE  /\ k <= m => k \in DOMAIN p /\ all[k] = p[k] /\ all[k] \in Members(p)
                          /\ k > m => /\ k - m \in DOMAIN more /\ all[k] = more[k - m]
                                      /\ all[k] \notin Members(p)
        OBVIOUS
      <4>1. CASE k <= m
        <5>1. k \in DOMAIN p /\ all[k] = p[k]
          BY <1>1, <2>3, <2>4, <4>1
        <5> QED
          BY <1>1, <2>4, <4>1, <5>1 DEF Members
      <4>2. CASE ~(k <= m)
        <5>1. k - m \in DOMAIN more /\ all[k] = more[k - m]
          BY <1>1, <2>3, <2>4, <4>2
        <5> QED
          BY <2>3, <4>2, <5>1
      <4> QED
        BY <4>1, <4>2
    <3>2. i \in Nat /\ j \in Nat
      BY <1>1, <2>3, <2>4
    <3>3. CASE i <= m /\ j <= m
      BY <1>1, <3>1, <3>3 DEF Distinct
    <3>4. CASE i > m /\ j > m
      <4>1. i - m = j - m
        BY <2>3, <3>1, <3>4 DEF Distinct
      <4> QED
        BY <1>1, <3>2, <4>1
    <3>5. CASE (i <= m /\ j > m) \/ (i > m /\ j <= m)
      BY <3>1, <3>5
    <3> QED
      BY <1>1, <3>2, <3>3, <3>4, <3>5
  <2>6. /\ nodes \in Seq(Server) /\ Distinct(nodes)
        /\ Len(nodes) = IF N <= Len(all) THEN N ELSE Len(all)
        /\ DOMAIN nodes = 1 .. Len(nodes)
        /\ \A i \in DOMAIN nodes : nodes[i] = all[i]
    BY <1>2, <2>4, <2>5, PrefixIs
  <2> HIDE DEF nodes
  <2>7. Members(read) \subseteq Members(nodes)
    <3> SUFFICES ASSUME NEW i \in DOMAIN read PROVE read[i] \in Members(nodes)
      BY DEF Members
    <3>1. i \in 1 .. m /\ i <= R /\ read[i] = p[i]
      BY <1>1, <1>2, <1>5
    <3>2. i \in DOMAIN nodes /\ all[i] = p[i]
      BY <1>1, <1>2, <2>3, <2>4, <2>6, <3>1
    <3> QED
      BY <2>6, <3>1, <3>2 DEF Members
  <2>8. Len(nodes) < W + Len(read)
    BY <1>1, <1>2, <1>5, <2>3, <2>4, <2>6
  <2> QED
    BY <1>4, <1>5, <2>1, <2>6, <2>7, <2>8
<1>7. CASE ~(QuorumType = "SLOPPY" /\ W - m > 0)
  <2> DEFINE nodes == Prefix(p, N)
  <2>1. WriteNodes = nodes
    BY <1>3, <1>7 DEF WriteNodes, GetWriteNodes, AvailableNodes
  <2> HIDE DEF p
  <2>2. /\ nodes \in Seq(Server) /\ Distinct(nodes)
        /\ Len(nodes) = IF N <= m THEN N ELSE m
        /\ DOMAIN nodes = 1 .. Len(nodes)
        /\ \A i \in DOMAIN nodes : nodes[i] = p[i]
    BY <1>1, <1>2, PrefixIs
  <2> HIDE DEF nodes
  <2>3. Members(read) \subseteq Members(nodes)
    <3> SUFFICES ASSUME NEW i \in DOMAIN read PROVE read[i] \in Members(nodes)
      BY DEF Members
    <3>1. i \in 1 .. m /\ i <= R /\ read[i] = p[i]
      BY <1>1, <1>2, <1>5
    <3>2. i \in DOMAIN nodes
      BY <1>1, <1>2, <2>2, <3>1
    <3> QED
      BY <2>2, <3>1, <3>2 DEF Members
  <2>4. W + R > N => Len(nodes) < W + Len(read)
    BY <1>1, <1>2, <1>5, <2>2
  <2> QED
    BY <1>4, <1>5, <2>1, <2>2, <2>3, <2>4
<1> QED
  BY <1>6, <1>7

\* A write quorum and the nodes of a read have a node in common, with a sloppy
\* quorum too.
THEOREM QuorumsMeet ==
    ASSUME preference \in Preferences, W + R > N,
           NEW S \in SUBSET Members(WriteNodes), Cardinality(S) >= W
    PROVE  \E s \in S : s \in Members(ReadNodes)
<1> SUFFICES ASSUME S \cap Members(ReadNodes) = {} PROVE FALSE
  OBVIOUS
<1> DEFINE all == Members(WriteNodes)
           read == Members(ReadNodes)
<1>1. /\ IsFiniteSet(all) /\ Cardinality(all) = Len(WriteNodes) /\ Len(WriteNodes) \in Nat
      /\ IsFiniteSet(read) /\ Cardinality(read) = Len(ReadNodes) /\ Len(ReadNodes) \in Nat
  BY WriteNodesAre, MembersCount
<1>2. read \subseteq all /\ Cardinality(all) < W + Cardinality(read)
  BY <1>1, WriteNodesAre
<1> HIDE DEF read, all
<1>3. S \subseteq all /\ S \cap read = {}
  BY DEF read, all
<1>4. IsFiniteSet(S) /\ Cardinality(S) \in Nat /\ Cardinality(read) \in Nat /\ Cardinality(all) \in Nat
  BY <1>1, <1>3, FS_Subset, FS_CardinalityType
<1>5. Cardinality(S \cup read) = Cardinality(S) + Cardinality(read)
  <2>1. Cardinality(S \cup read) = Cardinality(S) + Cardinality(read) - Cardinality({})
    BY <1>1, <1>3, <1>4, FS_Union
  <2> QED
    BY <1>4, <2>1, FS_EmptySet
<1>6. Cardinality(S \cup read) <= Cardinality(all)
  <2>1. S \cup read \in SUBSET all
    BY <1>2, <1>3
  <2> QED
    BY <1>1, <2>1, FS_Subset
<1>7. W \in Nat
  BY QuorumAssumption
<1> QED
  BY <1>2, <1>4, <1>5, <1>6, <1>7

LEMMA OpKinds ==
    ASSUME Records, NEW c \in Coordinator
    PROVE  /\ op[c].pc = "writing" => op[c] \in Sent
           /\ op[c].pc = "reading" => op[c] \in Asked
<1>1. op[c] \in {Idle} \cup Sent \cup Asked
  BY DEF Records
<1>2. Idle.pc = "idle" /\ (\A o \in Sent : o.pc = "writing") /\ (\A o \in Asked : o.pc = "reading")
  BY DEF Idle, Sent, Asked
<1> QED
  BY <1>1, <1>2

\* What a step does to the nodes: no write is lost from a node and still intact.
Keeps ==
    /\ store' \in [Server -> AnyVersion]
    /\ intact' \subseteq intact
    /\ \A w \in intact', s \in Server : w \in store[s].seen => w \in store'[s].seen

LEMMA StoreKeeps ==
    ASSUME Records, NEW s \in Server, NEW v \in AnyVersion,
           Store(s, v) \/ UNCHANGED <<store, intact>>
    PROVE  Keeps /\ (Store(s, v) => \A w \in intact' : w \in store'[s].seen)
<1>1. store \in [Server -> AnyVersion]
  BY DEF Records
<1>2. CASE Store(s, v)
  <2>1. store' = [store EXCEPT ![s] = v] /\ intact' = intact \cap v.seen
    BY <1>2 DEF Store
  <2>2. \A t \in Server : store'[t] = IF t = s THEN v ELSE store[t]
    BY <1>1, <2>1
  <2>3. store' \in [Server -> AnyVersion]
    BY <1>1, <2>1
  <2> QED
    BY <2>1, <2>2, <2>3 DEF Keeps
<1>3. CASE UNCHANGED <<store, intact>> /\ ~Store(s, v)
  BY <1>1, <1>3 DEF Keeps
<1> QED
  BY <1>2, <1>3

\* Acknowledged writes stay readable where nothing is acknowledged.
LEMMA StillReadable ==
    ASSUME SendInv, Keeps, preference \in Preferences, preference' = preference, acked' = acked
    PROVE  AcknowledgedIsReadable'
<1>1. ReadNodes' = ReadNodes
  BY DEF ReadNodes
<1>2. Members(ReadNodes) \subseteq Server
  BY WriteNodesAre, MembersCount
<1>3. ASSUME W + R > N, NEW w \in acked, w \in intact'
      PROVE  \E s \in Members(ReadNodes) : w \in store'[s].seen
  <2>1. PICK s \in Members(ReadNodes) : w \in store[s].seen
    BY <1>3 DEF SendInv, AcknowledgedIsReadable, Keeps
  <2> QED
    BY <1>2, <1>3, <2>1 DEF Keeps
<1>4. Members(ReadNodes)' = Members(ReadNodes)
  BY <1>1 DEF Members
<1> QED
  BY <1>3, <1>4 DEF AcknowledgedIsReadable

\* A write that is under way stays as it is when another task makes a step.
LEMMA StillUnderWay ==
    ASSUME Keeps, preference' = preference, made' = made,
           NEW o \in Sent, UnderWay(o), preference \in Preferences
    PROVE  UnderWay(o)'
<1>1. WriteNodes' = WriteNodes
  BY DEF WriteNodes, AvailableNodes
<1>2. o.stored \subseteq Server
  BY DEF Sent
<1>3. /\ o.todo # <<>> /\ Distinct(o.todo)
      /\ Members(o.todo) \cap (o.stored \cup o.failed) = {}
      /\ o.stored \cup Members(o.todo) \subseteq Members(WriteNodes)
      /\ o.write \in DOMAIN made /\ o.write \in o.version.seen
  BY DEF UnderWay
<1>4. o.write \in intact' => \A s \in o.stored : o.write \in store'[s].seen
  BY <1>2 DEF UnderWay, Keeps
<1>5. Members(WriteNodes)' = Members(WriteNodes) /\ Members(o.todo)' = Members(o.todo)
      /\ (Distinct(o.todo)' <=> Distinct(o.todo))
  BY <1>1 DEF Members, Distinct
<1> QED
  BY <1>3, <1>4, <1>5 DEF UnderWay

\* A step that begins no write and moves none on.
LEMMA NoWriteMoves ==
    ASSUME SendInv, Records', Keeps, preference \in Preferences,
           UNCHANGED <<preference, made, acked>>,
           \A c \in Coordinator : op'[c].pc = "writing" => op'[c] = op[c]
    PROVE  SendInv'
<1>1. ASSUME NEW c \in Coordinator, NEW o \in Sent, op'[c] = o PROVE UnderWay(o)'
  <2>1. op[c] = o
    BY <1>1 DEF Sent
  <2>2. UnderWay(o)
    BY <2>1 DEF SendInv
  <2> QED
    BY <2>2, StillUnderWay
<1>2. AcknowledgedIsReadable'
  BY StillReadable
<1> QED
  BY <1>1, <1>2 DEF SendInv

LEMMA TailIs ==
    ASSUME NEW T, NEW s \in Seq(T), s # <<>>
    PROVE  /\ Head(s) \in T /\ Head(s) \in Members(s) /\ Tail(s) \in Seq(T)
           /\ Members(Tail(s)) \subseteq Members(s)
           /\ Distinct(s) => Distinct(Tail(s)) /\ Head(s) \notin Members(Tail(s))
<1> DEFINE n == Len(s)
           t == Tail(s)
<1>1. n \in Nat /\ n # 0 /\ DOMAIN s = 1 .. n
  OBVIOUS
<1>2. /\ Head(s) = s[1] /\ t \in Seq(T) /\ Len(t) = n - 1 /\ DOMAIN t = 1 .. n - 1
      /\ \A i \in 1 .. n - 1 : t[i] = s[i + 1]
  OBVIOUS
<1> HIDE DEF t, n
<1>3. 1 \in DOMAIN s /\ s[1] \in T
  <2>1. 1 \in DOMAIN s
    BY <1>1
  <2> QED
    BY <2>1
<1>4. \A i \in DOMAIN t : i + 1 \in DOMAIN s /\ t[i] = s[i + 1] /\ i + 1 # 1 /\ i \in Nat
  BY <1>1, <1>2
<1>5. Head(s) \in Members(s) /\ Members(t) \subseteq Members(s)
  BY <1>2, <1>3, <1>4 DEF Members
<1>6. ASSUME Distinct(s) PROVE Distinct(t) /\ Head(s) \notin Members(t)
  <2>1. \A i, j \in DOMAIN t : t[i] = t[j] => i = j
    <3> SUFFICES ASSUME NEW i \in DOMAIN t, NEW j \in DOMAIN t, t[i] = t[j] PROVE i = j
      OBVIOUS
    <3>1. i + 1 = j + 1 /\ i \in Nat /\ j \in Nat
      BY <1>4, <1>6 DEF Distinct
    <3> QED
      BY <3>1
  <2>2. \A i \in DOMAIN t : t[i] # s[1]
    BY <1>3, <1>4, <1>6 DEF Distinct
  <2> QED
    BY <1>2, <2>1, <2>2 DEF Distinct, Members
<1> QED
  BY <1>2, <1>3, <1>5, <1>6 DEF t

\* The loop of write goes on, or ends and may report success.
LEMMA AdvanceSends ==
    ASSUME SendInv, Keeps, preference \in Preferences, NEW c \in Coordinator, NEW o \in Sent, op[c] = o,
           NEW stored \in SUBSET Server, NEW failed \in SUBSET Server,
           stored \subseteq o.stored \cup {Head(o.todo)}, failed \subseteq o.failed \cup {Head(o.todo)},
           o.write \in intact' => \A s \in stored : o.write \in store'[s].seen,
           failures' \in 0 .. MaxFailures,
           UNCHANGED <<setting, repairs, writes, reads, made, pruned>>,
           WriteAdvance(c, stored, failed)
    PROVE  SendInv'
<1>1. /\ UnderWay(o) /\ o.todo \in Seq(Server) /\ o.version \in AnyVersion /\ o.write \in Nat
      /\ o.todo # <<>> /\ Distinct(o.todo) /\ o.write \in DOMAIN made
  BY DEF SendInv, Sent, UnderWay
<1>2. /\ Head(o.todo) \in Server /\ Head(o.todo) \in Members(o.todo)
      /\ Tail(o.todo) \in Seq(Server) /\ Members(Tail(o.todo)) \subseteq Members(o.todo)
      /\ Distinct(Tail(o.todo)) /\ Head(o.todo) \notin Members(Tail(o.todo))
  BY <1>1, TailIs
<1>3. stored \subseteq Members(WriteNodes) /\ Members(Tail(o.todo)) \subseteq Members(WriteNodes)
  BY <1>1, <1>2 DEF UnderWay
<1>4. Members(Tail(o.todo)) \cap (stored \cup failed) = {}
  BY <1>1, <1>2 DEF UnderWay
<1>5. /\ preference' = preference /\ made' = made /\ repairs' = repairs /\ writes' = writes
      /\ reads' = reads /\ pruned' = pruned
      /\ op \in [Coordinator -> {Idle} \cup Sent \cup Asked] /\ context \in [Coordinator -> AnyVersion]
      /\ hints \subseteq Server
  BY DEF setting, SendInv, Records
<1>6. /\ WriteNodes' = WriteNodes /\ Members(WriteNodes)' = Members(WriteNodes)
      /\ Members(ReadNodes)' = Members(ReadNodes)
  BY <1>5 DEF WriteNodes, AvailableNodes, ReadNodes, Members
<1>7. ASSUME NEW d \in Coordinator, d # c, NEW x \in Sent, op[d] = x PROVE UnderWay(x)'
  <2>1. UnderWay(x)
    BY <1>7 DEF SendInv
  <2> QED
    BY <1>5, <2>1, StillUnderWay
<1>8. CASE Tail(o.todo) # <<>>
  <2> DEFINE next == Sending(o.write, o.version, Tail(o.todo), stored, failed)
  <2>1. op' = [op EXCEPT ![c] = next] /\ context' = context /\ hints' = hints /\ acked' = acked
    BY <1>8 DEF WriteAdvance
  <2>2. /\ next \in Sent /\ next.write = o.write /\ next.version = o.version /\ next.todo = Tail(o.todo)
        /\ next.stored = stored /\ next.failed = failed
    BY <1>1, <1>2 DEF Sending, Sent
  <2>3. PICK x : x = next
    OBVIOUS
  <2> HIDE DEF next
  <2>4. UnderWay(x)'
    <3>1. /\ x.todo # <<>> /\ Distinct(x.todo)
          /\ Members(x.todo) \cap (x.stored \cup x.failed) = {}
          /\ x.stored \cup Members(x.todo) \subseteq Members(WriteNodes)
          /\ x.write \in DOMAIN made' /\ x.write \in x.version.seen
          /\ x.write \in intact' => \A s \in x.stored : x.write \in store'[s].seen
      BY <1>1, <1>2, <1>3, <1>4, <1>5, <1>8, <2>2, <2>3 DEF UnderWay
    <3>2. Members(x.todo)' = Members(x.todo) /\ (Distinct(x.todo)' <=> Distinct(x.todo))
      BY DEF Members, Distinct
    <3> QED
      BY <1>6, <3>1, <3>2 DEF UnderWay
  <2>5. \A d \in Coordinator : op'[d] = IF d = c THEN x ELSE op[d]
    BY <1>5, <2>1, <2>3
  <2>6. \A d \in Coordinator, y \in Sent : op'[d] = y => UnderWay(y)'
    BY <1>7, <2>4, <2>5
  <2>7. Records'
    <3>1. op' \in [Coordinator -> {Idle} \cup Sent \cup Asked]
      BY <1>5, <2>1, <2>2
    <3> QED
      BY <1>5, <2>1, <3>1 DEF SendInv, Records, Keeps
  <2>8. AcknowledgedIsReadable'
    BY <1>5, <2>1, StillReadable
  <2> QED
    BY <2>6, <2>7, <2>8 DEF SendInv
<1>9. CASE Tail(o.todo) = <<>>
  <2> DEFINE met == Cardinality(stored) >= W
  <2>1. /\ op' = [op EXCEPT ![c] = Idle] /\ hints' = hints \cup failed
        /\ IF met THEN context' = [context EXCEPT ![c] = o.version] /\ acked' = acked \cup {o.write}
           ELSE context' = context /\ acked' = acked
    BY <1>9 DEF WriteAdvance
  <2>2. \A d \in Coordinator : op'[d] = IF d = c THEN Idle ELSE op[d]
    BY <1>5, <2>1
  <2>3. Idle \notin Sent
    BY DEF Idle, Sent
  <2>4. \A d \in Coordinator, y \in Sent : op'[d] = y => UnderWay(y)'
    BY <1>7, <2>2, <2>3
  <2>5. Records'
    <3>1. op' \in [Coordinator -> {Idle} \cup Sent \cup Asked]
      BY <1>5, <2>1
    <3>2. context' \in [Coordinator -> AnyVersion] /\ acked' \subseteq DOMAIN made'
      BY <1>1, <1>5, <2>1 DEF SendInv, Records
    <3>3. hints' \subseteq Server
      BY <1>5, <2>1
    <3> QED
      BY <1>5, <3>1, <3>2, <3>3 DEF SendInv, Records, Keeps
  <2>6. ASSUME W + R > N, NEW w \in acked', w \in intact'
        PROVE  \E s \in Members(ReadNodes) : w \in store'[s].seen
    <3>1. CASE w \in acked
      <4>1. PICK s \in Members(ReadNodes) : w \in store[s].seen
        BY <2>6, <3>1 DEF SendInv, AcknowledgedIsReadable, Keeps
      <4>2. s \in Server
        BY WriteNodesAre, MembersCount
      <4> QED
        BY <2>6, <4>1, <4>2 DEF Keeps
    <3>2. CASE w \notin acked
      <4>1. met /\ w = o.write
        BY <2>1, <3>2
      <4>2. PICK s \in stored : s \in Members(ReadNodes)
        BY <1>3, <2>6, <4>1, QuorumsMeet
      <4> QED
        BY <2>6, <4>1, <4>2
    <3> QED
      BY <3>1, <3>2
  <2>7. AcknowledgedIsReadable'
    BY <1>6, <2>6 DEF AcknowledgedIsReadable
  <2> QED
    BY <2>4, <2>5, <2>7 DEF SendInv
<1> QED
  BY <1>8, <1>9

LEMMA WriteStepSends ==
    ASSUME IInv, SendInv, NEW c \in Coordinator, WriteRetry(c) \/ WriteGivesUp(c) \/ WriteSucceeds(c)
    PROVE  SendInv'
<1>1. op[c].pc = "writing" /\ Records /\ preference \in Preferences
  BY DEF WriteRetry, WriteGivesUp, WriteSucceeds, SendInv, IInv
<1>2. PICK o \in Sent : op[c] = o
  BY <1>1, OpKinds
<1> DEFINE h == Head(o.todo)
<1>3. /\ UnderWay(o) /\ o.version \in AnyVersion /\ o.write \in o.version.seen
      /\ o.stored \in SUBSET Server /\ o.failed \in SUBSET Server /\ o.todo \in Seq(Server)
  BY <1>2 DEF SendInv, UnderWay, Sent
<1>4. h \in Server
  BY <1>3, TailIs DEF UnderWay
<1>5. failures \in 0 .. MaxFailures /\ MaxFailures \in Nat
  BY BoundAssumption DEF SendInv, Records
<1> HIDE DEF h
<1>6. CASE WriteRetry(c)
  <2>1. /\ StoreFails(h, o.version)
        /\ UNCHANGED <<setting, op, context, repairs, hints, writes, reads, made, pruned, acked>>
    BY <1>2, <1>6 DEF WriteRetry, h
  <2>2. /\ Store(h, o.version) \/ UNCHANGED <<store, intact>>
        /\ failures < MaxFailures /\ failures' = failures + 1
    BY <2>1 DEF StoreFails
  <2>3. Keeps
    BY <1>1, <1>3, <1>4, <2>2, StoreKeeps
  <2>4. failures' \in 0 .. MaxFailures
    BY <1>5, <2>2
  <2>5. Records'
    BY <1>1, <2>1, <2>3, <2>4 DEF Records, Keeps
  <2> QED
    BY <1>1, <2>1, <2>3, <2>5, NoWriteMoves DEF setting
<1>7. CASE WriteGivesUp(c)
  <2>1. /\ StoreFails(h, o.version) /\ WriteAdvance(c, o.stored, o.failed \cup {h})
        /\ UNCHANGED <<setting, repairs, writes, reads, made, pruned>>
    BY <1>2, <1>7 DEF WriteGivesUp, h
  <2>2. /\ Store(h, o.version) \/ UNCHANGED <<store, intact>>
        /\ failures < MaxFailures /\ failures' = failures + 1
    BY <2>1 DEF StoreFails
  <2>3. Keeps
    BY <1>1, <1>3, <1>4, <2>2, StoreKeeps
  <2>4. failures' \in 0 .. MaxFailures
    BY <1>5, <2>2
  <2>5. o.write \in intact' => \A s \in o.stored : o.write \in store'[s].seen
    BY <1>3, <2>3 DEF UnderWay, Keeps
  <2> DEFINE failed == o.failed \cup {h}
  <2>6. failed \in SUBSET Server /\ failed \subseteq o.failed \cup {Head(o.todo)}
    BY <1>3, <1>4 DEF h
  <2>7. WriteAdvance(c, o.stored, failed)
    BY <2>1
  <2> HIDE DEF failed
  <2> QED
    BY <1>1, <1>2, <1>3, <2>1, <2>3, <2>4, <2>5, <2>6, <2>7, AdvanceSends
<1>8. CASE WriteSucceeds(c)
  <2>1. /\ Store(h, o.version) /\ WriteAdvance(c, o.stored \cup {h}, o.failed)
        /\ UNCHANGED <<setting, repairs, writes, reads, made, pruned>>
        /\ failures' = failures
    BY <1>2, <1>8 DEF WriteSucceeds, h, bounds
  <2>2. Keeps /\ \A w \in intact' : w \in store'[h].seen
    BY <1>1, <1>3, <1>4, <2>1, StoreKeeps
  <2> DEFINE stored == o.stored \cup {h}
  <2>3. o.write \in intact' => \A s \in stored : o.write \in store'[s].seen
    BY <1>3, <2>2 DEF UnderWay, Keeps
  <2>4. stored \in SUBSET Server /\ stored \subseteq o.stored \cup {Head(o.todo)}
    BY <1>3, <1>4 DEF h
  <2>5. WriteAdvance(c, stored, o.failed)
    BY <2>1
  <2>6. failures' \in 0 .. MaxFailures
    BY <1>5, <2>1
  <2> HIDE DEF stored
  <2> QED
    BY <1>1, <1>2, <1>3, <2>1, <2>2, <2>3, <2>4, <2>5, <2>6, AdvanceSends
<1> QED
  BY <1>6, <1>7, <1>8

LEMMA NoVersionIs == NoVersion \in AnyVersion
<1>1. NoVersion.clock \in ClocksOver(Coordinator, Nat)
  BY GoodNoVersion DEF Good, Typed
<1> DEFINE c == NoVersion.clock
<1>2. NoVersion = [value |-> {}, clock |-> c, seen |-> {}]
  BY DEF NoVersion
<1> HIDE DEF c
<1>3. [value |-> {}, clock |-> c, seen |-> {}] \in AnyVersion
  BY <1>1 DEF AnyVersion, c
<1> QED
  BY <1>2, <1>3

LEMMA InitSends == Init => SendInv
<1> SUFFICES ASSUME Init PROVE SendInv
  OBVIOUS
<1> USE DEF Init
<1>1. Records
  BY NoVersionIs, BoundAssumption DEF Records
<1>2. \A o \in Sent : o # Idle
  BY DEF Sent, Idle
<1>3. AcknowledgedIsReadable
  BY DEF AcknowledgedIsReadable
<1> QED
  BY <1>1, <1>2, <1>3 DEF SendInv

LEMMA WriteBeginSends ==
    ASSUME IInv, IInv', SendInv, NEW c \in Coordinator, NEW ctx, WriteBegin(c, ctx)
    PROVE  SendInv'
<1> DEFINE n == writes + 1
<1>1. PICK clock :
          LET v == [value |-> {n}, clock |-> clock, seen |-> ctx.seen \cup {n}]
          IN  /\ op' = [op EXCEPT ![c] = Sending(n, v, WriteNodes, {}, {})]
              /\ made' = Append(made, [version |-> v, by |-> c])
  BY Zenon DEF WriteBegin, WriteNodes
<1> DEFINE v == [value |-> {n}, clock |-> clock, seen |-> ctx.seen \cup {n}]
           r == [version |-> v, by |-> c]
           next == Sending(n, v, WriteNodes, {}, {})
<1>2. op' = [op EXCEPT ![c] = next] /\ made' = Append(made, r)
  BY <1>1
<1>3. /\ Len(WriteNodes) >= W /\ writes < MaxWrites /\ writes' = n
      /\ pruned' \subseteq pruned \cup {n} /\ intact' = intact \cup {n}
      /\ preference' = preference /\ store' = store /\ context' = context /\ repairs' = repairs
      /\ hints' = hints /\ reads' = reads /\ failures' = failures /\ acked' = acked
  BY DEF WriteBegin, setting, WriteNodes
<1>4. /\ made \in Seq(WriteRecord) /\ made' \in Seq(WriteRecord) /\ writes = Len(made)
      /\ preference \in Preferences
  BY DEF IInv, History
<1>5. /\ Records /\ writes \in 0 .. MaxWrites /\ MaxWrites \in Nat
      /\ op \in [Coordinator -> {Idle} \cup Sent \cup Asked]
  BY BoundAssumption DEF SendInv, Records
<1>6. /\ Len(made) \in Nat /\ n = Len(made) + 1 /\ DOMAIN made' = DOMAIN made \cup {n}
      /\ n \notin DOMAIN made /\ n \in DOMAIN made' /\ made'[n] = r
  <2> HIDE DEF r
  <2> QED
    BY <1>2, <1>4
<1>7. v \in AnyVersion
  <2>1. r \in WriteRecord
    BY <1>4, <1>6, SMTT(40)
  <2>2. r.version = v
    OBVIOUS
  <2> HIDE DEF r, v
  <2> QED
    BY <2>1, <2>2 DEF WriteRecord, AnyVersion
<1>8. /\ WriteNodes \in Seq(Server) /\ Distinct(WriteNodes) /\ WriteNodes # <<>>
      /\ WriteNodes' = WriteNodes
      /\ Members(WriteNodes)' = Members(WriteNodes)
      /\ Members(ReadNodes)' = Members(ReadNodes)
  <2>1. WriteNodes \in Seq(Server) /\ Distinct(WriteNodes)
    BY <1>4, WriteNodesAre
  <2>2. Len(<<>>) = 0 /\ ~(0 >= W)
    BY QuorumAssumption
  <2>3. WriteNodes # <<>>
    BY <1>3, <2>2
  <2>4. WriteNodes' = WriteNodes /\ ReadNodes' = ReadNodes
    BY <1>3 DEF WriteNodes, AvailableNodes, ReadNodes
  <2> QED
    BY <2>1, <2>3, <2>4 DEF Members
<1>9. /\ next \in Sent /\ next.write = n /\ next.todo = WriteNodes /\ next.stored = {}
      /\ next.failed = {} /\ n \in next.version.seen
  <2>1. n \in Nat
    BY <1>4
  <2>2. n \in v.seen
    OBVIOUS
  <2> HIDE DEF v, n
  <2> QED
    BY <1>7, <1>8, <2>1, <2>2 DEF Sending, Sent
<1> HIDE DEF next, v, r
<1>10. Records'
  <2>1. op' \in [Coordinator -> {Idle} \cup Sent \cup Asked]
    BY <1>2, <1>5, <1>9
  <2>2. writes' \in 0 .. MaxWrites
    BY <1>3, <1>5
  <2>3. pruned' \subseteq DOMAIN made' /\ acked' \subseteq DOMAIN made' /\ intact' \subseteq DOMAIN made'
    BY <1>3, <1>5, <1>6 DEF Records
  <2> QED
    BY <1>3, <1>5, <2>1, <2>2, <2>3 DEF Records
<1>11. ASSUME NEW d \in Coordinator, NEW x \in Sent, op'[d] = x PROVE UnderWay(x)'
  <2>1. Members(x.todo)' = Members(x.todo) /\ (Distinct(x.todo)' <=> Distinct(x.todo))
    BY DEF Members, Distinct
  <2>2. CASE d = c
    <3>1. x = next
      BY <1>2, <1>5, <1>11, <2>2
    <3>2. /\ x.todo # <<>> /\ Distinct(x.todo) /\ x.stored = {} /\ x.failed = {}
          /\ Members(x.todo) = Members(WriteNodes)
          /\ x.write \in DOMAIN made' /\ x.write \in x.version.seen
      BY <1>6, <1>8, <1>9, <3>1
    <3> QED
      BY <1>8, <2>1, <3>2 DEF UnderWay
  <2>3. CASE d # c
    <3>1. op[d] = x
      BY <1>2, <1>5, <1>11, <2>3
    <3>2. UnderWay(x)
      BY <3>1 DEF SendInv
    <3>3. x.write \in DOMAIN made /\ (x.write \in intact' => x.write \in intact)
      BY <1>3, <1>6, <3>2 DEF UnderWay
    <3> QED
      BY <1>3, <1>6, <1>8, <2>1, <3>2, <3>3 DEF UnderWay
  <2> QED
    BY <2>2, <2>3
<1>12. AcknowledgedIsReadable'
  <2>1. \A w \in acked' : w \in intact' => w \in acked /\ w \in intact
    BY <1>3, <1>5, <1>6 DEF Records
  <2> QED
    BY <1>3, <1>8, <2>1 DEF SendInv, AcknowledgedIsReadable
<1> QED
  BY <1>10, <1>11, <1>12 DEF SendInv

LEMMA ReadResultIs ==
    ASSUME History(made, pruned, maxClockSize), maxClockSize \in Nat, NEW vs, DOMAIN vs \subseteq Nat,
           \A i \in DOMAIN vs : Good(vs[i], made, maxClockSize) /\ vs[i] \in AnyVersion
    PROVE  /\ ReadResult(vs) \in AnyVersion
           /\ CheckForConflicts(vs) => ReconcileVersions(vs) \in AnyVersion
<1>1. /\ Good(ReadResult(vs), made, maxClockSize)
      /\ CheckForConflicts(vs) => Good(ReconcileVersions(vs), made, maxClockSize)
  BY ReadResultGood
<1>2. DOMAIN made \subseteq Nat
  BY DEF History
<1>3. ASSUME NEW v, Good(v, made, maxClockSize),
             v = [value |-> v.value, clock |-> v.clock, seen |-> v.seen]
      PROVE  v \in AnyVersion
  <2>1. v.value \subseteq Nat /\ v.seen \subseteq Nat /\ v.clock \in ClocksOver(Coordinator, Nat)
    BY <1>2, <1>3 DEF Good, Typed
  <2>2. v.value \in SUBSET Nat /\ v.seen \in SUBSET Nat
    BY <2>1
  <2> QED
    BY <1>3, <2>1, <2>2, Zenon DEF AnyVersion
<1>4. CASE DOMAIN vs = {}
  BY <1>4, NoVersionIs DEF ReadResult, CheckForConflicts
<1>5. CASE DOMAIN vs # {} /\ CheckForConflicts(vs)
  <2> DEFINE v == ReconcileVersions(vs)
  <2>1. ReadResult(vs) = v
    BY <1>5 DEF ReadResult
  <2>2. v = [value |-> v.value, clock |-> v.clock, seen |-> v.seen]
    BY DEF ReconcileVersions
  <2> HIDE DEF v
  <2> QED
    BY <1>1, <1>3, <1>5, <2>1, <2>2 DEF v
<1>6. CASE DOMAIN vs # {} /\ ~CheckForConflicts(vs)
  <2> DEFINE first == CHOOSE i \in DOMAIN vs : \A j \in DOMAIN vs : i <= j
  <2>1. ReadResult(vs) = vs[first]
    BY <1>6 DEF ReadResult
  <2>2. \E i \in DOMAIN vs : \A j \in DOMAIN vs : i <= j
    BY <1>6, Least
  <2>3. first \in DOMAIN vs
    BY <2>2, Zenon
  <2> QED
    BY <1>6, <2>1, <2>3
<1> QED
  BY <1>4, <1>5, <1>6

LEMMA ReadStepSends ==
    ASSUME IInv, SendInv, NEW c \in Coordinator, ReadStep(c)
    PROVE  SendInv'
<1>1. /\ History(made, pruned, maxClockSize) /\ preference \in Preferences /\ maxClockSize \in Nat
      /\ Records /\ op \in [Coordinator -> {Idle} \cup Sent \cup Asked]
      /\ store \in [Server -> AnyVersion] /\ context \in [Coordinator -> AnyVersion]
      /\ repairs \in [1 .. MaxReads -> [version : AnyVersion, left : SUBSET Server]]
      /\ reads \in 0 .. MaxReads /\ failures \in 0 .. MaxFailures
      /\ MaxReads \in Nat /\ MaxFailures \in Nat
  BY SizesAssumption, BoundAssumption DEF IInv, SendInv, Records
\* A step of a read leaves the nodes and the writes alone.
<1>2. ASSUME NEW next \in {Idle} \cup Asked, op' = [op EXCEPT ![c] = next],
             UNCHANGED <<setting, store, hints, writes, made, pruned, acked, intact>>,
             context' \in [Coordinator -> AnyVersion],
             repairs' \in [1 .. MaxReads -> [version : AnyVersion, left : SUBSET Server]],
             reads' \in 0 .. MaxReads, failures' \in 0 .. MaxFailures
      PROVE  SendInv'
  <2>1. op' \in [Coordinator -> {Idle} \cup Sent \cup Asked]
    BY <1>1, <1>2
  <2>2. next.pc # "writing"
    BY DEF Idle, Asked
  <2>3. \A d \in Coordinator : op'[d].pc = "writing" => op'[d] = op[d]
    BY <1>1, <1>2, <2>2
  <2>4. Records'
    BY <1>1, <1>2, <2>1 DEF Records
  <2>5. Keeps
    BY <1>1, <1>2 DEF Keeps
  <2> QED
    BY <1>1, <1>2, <2>3, <2>4, <2>5, NoWriteMoves DEF setting
<1>3. CASE ReadBegin(c)
  <2> DEFINE got == [s \in Server |-> NoVersion]
             next == Asking(reads + 1, Members(ReadNodes), got)
  <2>1. /\ op' = [op EXCEPT ![c] = next] /\ reads < MaxReads /\ reads' = reads + 1
        /\ UNCHANGED <<setting, store, context, repairs, hints, writes, failures, made, pruned, acked, intact>>
    BY <1>3 DEF ReadBegin
  <2>2. got \in [Server -> AnyVersion]
    BY NoVersionIs
  <2>3. Members(ReadNodes) \in SUBSET Server
    BY <1>1, WriteNodesAre, MembersCount
  <2>4. reads + 1 \in 1 .. MaxReads /\ reads' \in 0 .. MaxReads
    BY <1>1, <2>1
  <2>5. next \in Asked
    <3> HIDE DEF got
    <3> QED
      BY <2>2, <2>3, <2>4 DEF Asking, Asked
  <2> HIDE DEF next
  <2> QED
    BY <1>1, <1>2, <2>1, <2>4, <2>5
<1>4. ASSUME NEW s \in Server, ReadAnswer(c, s) PROVE SendInv'
  <2>1. /\ op[c].pc = "reading"
        /\ UNCHANGED <<setting, store, context, repairs, hints, writes, reads, made, pruned, acked, intact>>
    BY <1>4 DEF ReadAnswer
  <2>2. PICK o \in Asked : op[c] = o
    BY <1>1, <2>1, OpKinds
  <2>3. /\ o.read \in 1 .. MaxReads /\ o.left \in SUBSET Server /\ o.got \in [Server -> AnyVersion]
        /\ o.left \ {s} \in SUBSET Server
    BY DEF Asked
  <2>4. failures' \in 0 .. MaxFailures
    BY <1>1, <1>4 DEF ReadAnswer
  <2>5. PICK got \in [Server -> AnyVersion] : op' = [op EXCEPT ![c] = Asking(o.read, o.left \ {s}, got)]
    <3>1. CASE op' = [op EXCEPT ![c] = Asking(@.read, @.left \ {s}, [@.got EXCEPT ![s] = store[s]])]
      <4>1. [o.got EXCEPT ![s] = store[s]] \in [Server -> AnyVersion]
        BY <1>1, <2>3
      <4> QED
        BY <2>2, <3>1, <4>1
    <3>2. CASE op' = [op EXCEPT ![c] = Asking(@.read, @.left \ {s}, @.got)]
      BY <2>2, <2>3, <3>2
    <3> QED
      BY <1>4, <3>1, <3>2 DEF ReadAnswer
  <2> DEFINE next == Asking(o.read, o.left \ {s}, got)
  <2>6. next \in Asked
    BY <2>3 DEF Asking, Asked
  <2>7. op' = [op EXCEPT ![c] = next]
    BY <2>5
  <2> HIDE DEF next
  <2> QED
    BY <1>1, <1>2, <2>1, <2>4, <2>6, <2>7
<1>5. CASE ReadEnd(c)
  <2> DEFINE vs == Successful(op[c].got)
  <2>1. /\ op[c].pc = "reading" /\ op' = [op EXCEPT ![c] = Idle]
        /\ context' = IF DOMAIN vs = {} THEN context ELSE [context EXCEPT ![c] = ReadResult(vs)]
        /\ repairs' = IF CheckForConflicts(vs)
                      THEN [repairs EXCEPT ![op[c].read] =
                               [version |-> ReconcileVersions(vs), left |-> Members(preference)]]
                      ELSE repairs
        /\ UNCHANGED <<setting, store, hints, writes, reads, failures, made, pruned, acked, intact>>
    BY <1>5 DEF ReadEnd, bounds
  <2>2. op[c].got \in [Server -> AnyVersion] /\ op[c].read \in 1 .. MaxReads
    BY <1>1, <2>1, OpKinds DEF Asked
  <2>3. DOMAIN vs \subseteq Nat /\ \A i \in DOMAIN vs : Good(vs[i], made, maxClockSize) /\ vs[i] \in AnyVersion
    <3>1. DOMAIN op[c].got = Server /\ \A s \in Server : Good(op[c].got[s], made, maxClockSize)
      BY <2>1 DEF IInv
    <3>2. DOMAIN vs \subseteq Nat /\ \A i \in DOMAIN vs : Good(vs[i], made, maxClockSize)
      BY <1>1, <3>1, SuccessfulGood
    <3>3. \A i \in DOMAIN vs : i \in DOMAIN ReadNodes /\ vs[i] = op[c].got[ReadNodes[i]]
      BY DEF Successful
    <3>4. \A i \in DOMAIN ReadNodes : ReadNodes[i] \in Server
      BY <1>1, WriteNodesAre
    <3> QED
      BY <2>2, <3>2, <3>3, <3>4
  <2> HIDE DEF vs
  <2>4. /\ ReadResult(vs) \in AnyVersion
        /\ CheckForConflicts(vs) => ReconcileVersions(vs) \in AnyVersion
    BY <1>1, <2>3, ReadResultIs
  <2>5. context' \in [Coordinator -> AnyVersion]
    BY <1>1, <2>1, <2>4
  <2>6. repairs' \in [1 .. MaxReads -> [version : AnyVersion, left : SUBSET Server]]
    <3> DEFINE repair == [version |-> ReconcileVersions(vs), left |-> Members(preference)]
    <3>1. Members(preference) \in SUBSET Server
      BY <1>1, PreferencesAssumption DEF Members
    <3>2. CASE CheckForConflicts(vs)
      <4>1. repair \in [version : AnyVersion, left : SUBSET Server]
        BY <2>4, <3>1, <3>2
      <4>2. repairs' = [repairs EXCEPT ![op[c].read] = repair]
        BY <2>1, <3>2
      <4> HIDE DEF repair
      <4> QED
        BY <1>1, <4>1, <4>2
    <3>3. CASE ~CheckForConflicts(vs)
      BY <1>1, <2>1, <3>3
    <3> QED
      BY <3>2, <3>3
  <2>7. Idle \in {Idle} \cup Asked
    OBVIOUS
  <2> QED
    BY <1>1, <1>2, <2>1, <2>5, <2>6, <2>7
<1> QED
  BY <1>3, <1>4, <1>5 DEF ReadStep

LEMMA RepairWriteSends ==
    ASSUME IInv, SendInv, NEW i \in 1 .. MaxReads, NEW s \in Server, RepairWrite(i, s)
    PROVE  SendInv'
<1>1. /\ preference \in Preferences /\ Records
      /\ repairs \in [1 .. MaxReads -> [version : AnyVersion, left : SUBSET Server]]
      /\ failures \in 0 .. MaxFailures /\ MaxFailures \in Nat
  BY BoundAssumption DEF IInv, SendInv, Records
<1>2. /\ repairs' = [repairs EXCEPT ![i].left = @ \ {s}]
      /\ Store(s, repairs[i].version) \/ UNCHANGED <<store, intact>>
      /\ failures' \in 0 .. MaxFailures
      /\ UNCHANGED <<setting, op, context, hints, writes, reads, made, pruned, acked>>
  BY <1>1 DEF RepairWrite, StoreFails
<1>3. Keeps
  BY <1>1, <1>2, StoreKeeps
<1>4. repairs' \in [1 .. MaxReads -> [version : AnyVersion, left : SUBSET Server]]
  BY <1>1, <1>2
<1>5. Records'
  BY <1>1, <1>2, <1>3, <1>4 DEF Records, Keeps
<1> QED
  BY <1>1, <1>2, <1>3, <1>5, NoWriteMoves DEF setting

LEMMA SendNext == IInv /\ SendInv /\ IInv' /\ [Next]_vars => SendInv'
<1> SUFFICES ASSUME IInv, SendInv, IInv', [Next]_vars PROVE SendInv'
  OBVIOUS
<1>1. ASSUME NEW c \in Coordinator, WriteStep(c) PROVE SendInv'
  <2>1. ASSUME NEW ctx \in {NoVersion, context[c]}, WriteBegin(c, ctx) PROVE SendInv'
    BY <2>1, WriteBeginSends
  <2>2. CASE WriteRetry(c) \/ WriteGivesUp(c) \/ WriteSucceeds(c)
    BY <2>2, WriteStepSends
  <2> QED
    BY <1>1, <2>1, <2>2 DEF WriteStep
<1>2. ASSUME NEW c \in Coordinator, ReadStep(c) PROVE SendInv'
  BY <1>2, ReadStepSends
<1>3. ASSUME NEW i \in 1 .. MaxReads, NEW s \in Server, RepairWrite(i, s) PROVE SendInv'
  BY <1>3, RepairWriteSends
<1>4. CASE UNCHANGED vars
  <2>1. Records'
    BY <1>4 DEF vars, bounds, setting, SendInv, Records
  <2>2. Keeps
    BY <1>4 DEF vars, SendInv, Records, Keeps
  <2>3. preference \in Preferences
    BY DEF IInv
  <2> QED
    BY <1>4, <2>1, <2>2, <2>3, NoWriteMoves DEF vars, setting
<1> QED
  BY <1>1, <1>2, <1>3, <1>4 DEF Next

\* Every write's nodes are distinct and gone through once, and no clock counts past
\* the number of writes.
THEOREM TypeCorrect == Spec => []TypeOK
<1>1. IInv /\ SendInv => TypeOK
  <2> SUFFICES ASSUME IInv, SendInv PROVE TypeOK
    OBVIOUS
  <2>1. /\ Records /\ writes \in Nat /\ writes <= MaxWrites /\ MaxWrites \in Nat
        /\ made \in Seq(WriteRecord) /\ Len(made) = writes
    BY BoundAssumption DEF SendInv, Records, IInv, History
  <2>2. DOMAIN made \subseteq Write
    BY <2>1 DEF Write
  <2>3. ASSUME NEW v \in AnyVersion, Good(v, made, maxClockSize) PROVE v \in Version
    <3>1. /\ v.value \subseteq DOMAIN made /\ v.seen \subseteq DOMAIN made
          /\ v.clock \in ClocksOver(Coordinator, Nat)
          /\ \A n \in DOMAIN v.clock : v.clock[n] \in 1 .. Len(made)
      BY <2>3 DEF Good, Typed
    <3>2. PICK S \in SUBSET Coordinator : v.clock \in [S -> Nat]
      BY <3>1 DEF ClocksOver
    <3>3. v.clock \in [S -> 0 .. MaxWrites]
      <4>1. \A n \in S : v.clock[n] \in 0 .. MaxWrites
        BY <2>1, <3>1, <3>2
      <4> QED
        BY <3>2, <4>1
    <3>4. v.clock \in ClocksOver(Coordinator, 0 .. MaxWrites)
      BY <3>3 DEF ClocksOver
    <3> QED
      BY <2>2, <3>1, <3>4 DEF AnyVersion, Version
  <2>4. store \in [Server -> Version]
    BY <2>1, <2>3 DEF IInv, Records
  <2>5. context \in [Coordinator -> Version]
    BY <2>1, <2>3 DEF IInv, Records
  <2>6. repairs \in [1 .. MaxReads -> [version : Version, left : SUBSET Server]]
    <3>1. \A i \in 1 .. MaxReads : repairs[i] \in [version : Version, left : SUBSET Server]
      BY <2>1, <2>3 DEF IInv, Records
    <3> QED
      BY <2>1, <3>1 DEF Records
  <2>7. op \in [Coordinator -> {Idle} \cup Writing \cup Reading]
    <3>1. ASSUME NEW c \in Coordinator PROVE op[c] \in {Idle} \cup Writing \cup Reading
      <4>1. op[c] \in {Idle} \cup Sent \cup Asked
        BY <2>1 DEF Records
      <4>2. CASE op[c] \in Sent
        <5> DEFINE o == op[c]
        <5>1. o.pc = "writing" /\ o.version \in AnyVersion /\ UnderWay(o)
          BY <4>2 DEF Sent, SendInv
        <5>2. o.version \in Version /\ o.write \in Write
          BY <2>2, <2>3, <5>1 DEF IInv, UnderWay
        <5> QED
          BY <4>2, <5>2 DEF Sent, Writing
      <4>3. CASE op[c] \in Asked
        <5> DEFINE o == op[c]
        <5>1. o.pc = "reading" /\ o.got \in [Server -> AnyVersion]
          BY <4>3 DEF Asked
        <5>2. o.got \in [Server -> Version]
          BY <2>3, <5>1 DEF IInv
        <5> QED
          BY <4>3, <5>2 DEF Asked, Reading
      <4> QED
        BY <4>1, <4>2, <4>3
    <3> QED
      BY <2>1, <3>1 DEF Records
  <2>8. \A c \in Coordinator : op[c].pc = "writing" =>
            Members(op[c].todo) \cap (op[c].stored \cup op[c].failed) = {}
    BY <2>1, OpKinds DEF SendInv, UnderWay
  <2>9. made \in Seq([version : Version, by : Coordinator])
    <3>1. \A w \in DOMAIN made : made[w] \in [version : Version, by : Coordinator]
      <4> SUFFICES ASSUME NEW w \in DOMAIN made PROVE made[w] \in [version : Version, by : Coordinator]
        OBVIOUS
      <4>1. made[w] \in WriteRecord
        BY <2>1
      <4>2. made[w].version \in AnyVersion /\ Good(made[w].version, made, maxClockSize)
        BY <4>1 DEF WriteRecord, AnyVersion, IInv, History
      <4>3. made[w].version \in Version
        BY <2>3, <4>2
      <4> QED
        BY <4>1, <4>3 DEF WriteRecord
    <3> DEFINE T == [version : Version, by : Coordinator]
    <3>2. made \in Seq(WriteRecord) /\ \A w \in DOMAIN made : made[w] \in T
      BY <2>1, <3>1
    <3> HIDE DEF T
    <3>3. made \in Seq(T)
      BY <3>2
    <3> QED
      BY <3>3 DEF T
  <2>10. pruned \subseteq Write /\ acked \subseteq Write /\ intact \subseteq Write
    BY <2>1, <2>2 DEF Records
  <2> QED
    BY <2>1, <2>4, <2>5, <2>6, <2>7, <2>8, <2>9, <2>10 DEF TypeOK, Records, IInv
<1>2. Init => SendInv
  BY InitSends
<1>3. IInv /\ SendInv /\ IInv' /\ [Next]_vars => SendInv'
  BY SendNext
<1> QED
  BY <1>1, <1>2, <1>3, VersionsStayGood, PTL DEF Spec

\* A write that was reported as successful is held by one of the nodes a read asks,
\* with a sloppy quorum too, unless a version made without it was stored since.
THEOREM WritesAreReadable == Spec => []AcknowledgedIsReadable
<1>1. SendInv => AcknowledgedIsReadable
  BY DEF SendInv
<1>2. Init => SendInv
  BY InitSends
<1>3. IInv /\ SendInv /\ IInv' /\ [Next]_vars => SendInv'
  BY SendNext
<1> QED
  BY <1>1, <1>2, <1>3, VersionsStayGood, PTL DEF Spec
=============================================================================

---------------------------- MODULE VectorClock ----------------------------
(***************************************************************************)
(* clotho/vector_clock.py: the immutable clock every version carries.      *)
(*                                                                         *)
(* A clock is the dictionary of the class, a function from the node ids it *)
(* mentions to naturals.  An id that is not mentioned counts as 0          *)
(* everywhere (dict.get(node_id, 0)), so two different dictionaries can    *)
(* stand for the same point of the partial order.                          *)
(***************************************************************************)
EXTENDS Naturals

\* The clocks whose ids are in N and whose counters are in C.
ClocksOver(N, C) == UNION {[D -> C] : D \in SUBSET N}

\* VectorClock.get_timestamp
At(c, n) == IF n \in DOMAIN c THEN c[n] ELSE 0

\* VectorClock(): the empty dictionary, which is false in Python's "if clock".
NoClock == [n \in {} |-> 0]

\* VectorClock.new
New(n) == [x \in {n} |-> 0]

\* VectorClock.increment
Increment(c, n) ==
    [x \in DOMAIN c \cup {n} |-> IF x = n THEN At(c, n) + 1 ELSE c[x]]

\* VectorClock.merge
Merge(c, d) ==
    [x \in DOMAIN c \cup DOMAIN d |->
        IF At(c, x) >= At(d, x) THEN At(c, x) ELSE At(d, x)]

\* Mistake: the loop runs over our own ids instead of the union.
DominatesOnOwnIds(c, d) == \A n \in DOMAIN c : c[n] >= At(d, n)

\* The two flags of VectorClock.compare: every component of d is covered by c.
Dominates(c, d) == \A n \in DOMAIN c \cup DOMAIN d : At(c, n) >= At(d, n)

CausalityRelation ==
    {"EQUAL", "HAPPENS_BEFORE", "HAPPENS_AFTER", "CONCURRENT"}

\* VectorClock.compare.  Its test of the two dictionaries for equality comes
\* after self_dominates holds and other_dominates fails, where it cannot succeed.
Compare(c, d) ==
    IF Dominates(c, d)
    THEN IF Dominates(d, c) \/ c = d THEN "EQUAL" ELSE "HAPPENS_AFTER"
    ELSE IF Dominates(d, c) THEN "HAPPENS_BEFORE" ELSE "CONCURRENT"

HappensBefore(c, d) == Compare(c, d) = "HAPPENS_BEFORE"

HappensAfter(c, d) == Compare(c, d) = "HAPPENS_AFTER"

\* Mistake: only one direction is asked.
IsNotBefore(c, d) == ~HappensBefore(c, d)

IsConcurrentWith(c, d) == Compare(c, d) = "CONCURRENT"

IsEqual(c, d) == Compare(c, d) = "EQUAL"
=============================================================================

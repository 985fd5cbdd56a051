---------------------------- MODULE ClockPruner ----------------------------
(***************************************************************************)
(* clotho/resilience.py, class VectorClockPruner: clocks of more than      *)
(* MAX_CLOCK_SIZE entries lose those with the lowest counters.  Which of   *)
(* several equal counters goes depends on the order of the dictionary, so  *)
(* an operator gives all the clocks that may be left.                      *)
(***************************************************************************)
EXTENDS VectorClock, FiniteSets

\* should_prune: max is MAX_CLOCK_SIZE
ShouldPrune(c, max) == Cardinality(DOMAIN c) > max

\* The sets of ids sorted_items[:MAX_CLOCK_SIZE] may consist of
Newest(c, max) ==
    {D \in SUBSET DOMAIN c :
        /\ Cardinality(D) = max
        /\ \A n \in D, m \in DOMAIN c \ D : c[n] >= c[m]}

\* prune
Prune(c, max) ==
    IF ShouldPrune(c, max) THEN {[n \in D |-> c[n]] : D \in Newest(c, max)} ELSE {c}
=============================================================================

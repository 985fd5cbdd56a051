---------------------- MODULE ResilientOperationProofs ----------------------
(***************************************************************************)
(* The half-open bookkeeping of CircuitBreaker under any number of         *)
(* concurrent callers, thresholds and retries.                             *)
(*                                                                         *)
(* half_open_calls only grows within a half-open period, so it is at least *)
(* the number of probes still running; and unless a probe was cancelled    *)
(* every probe that is no longer running has left a success in             *)
(* success_count (a failure would have ended the period).  Since           *)
(* success_count stays below the limit, a breaker that has admitted its    *)
(* limit has a probe running.                                              *)
(***************************************************************************)
EXTENDS ResilientOperation, FiniteSetTheorems, TLAPS

USE ThresholdAssumption, HalfOpenAssumption, CallerAssumption,
    RetriesAssumption

\* In a half-open period the admitted calls are the running probes and the
\* successes, stale ones included.
Accounted ==
    breaker.state = "HALF_OPEN" =>
        /\ Cardinality(probes) <= breaker.half_open_calls
        /\ lost = {} =>
               breaker.half_open_calls <= breaker.success_count + Cardinality(probes)

ProbesRun ==
    /\ \A c \in probes : pc[c] = "running"
    /\ breaker.state # "HALF_OPEN" => probes = {}

IInv ==
    /\ TypeOK
    /\ Accounted
    /\ ProbesRun
    /\ recovered <= breaker.success_count \/ breaker.state # "HALF_OPEN"
    /\ ClosedBelowThreshold

LEMMA InitIInv == Init => IInv
<1> SUFFICES ASSUME Init PROVE IInv
    OBVIOUS
<1>1. TypeOK
    BY DEF Init, TypeOK, BreakerType, NewBreaker
<1> QED
    BY <1>1 DEF Init, IInv, Accounted, ProbesRun, ClosedBelowThreshold, NewBreaker

\* Adding and removing one caller changes the number of probes by one.
LEMMA ProbeCount ==
    ASSUME NEW S \in SUBSET Caller, NEW c \in Caller
    PROVE  /\ Cardinality(S) \in Nat
           /\ Cardinality({c}) = 1
           /\ S = {} <=> Cardinality(S) = 0
           /\ c \notin S => Cardinality(S \cup {c}) = Cardinality(S) + 1
           /\ c \in S => Cardinality(S \ {c}) = Cardinality(S) - 1
           /\ c \notin S => S \ {c} = S
<1>1. IsFiniteSet(S)
    BY FS_Subset
<1>2. Cardinality(S) \in Nat /\ (S = {} <=> Cardinality(S) = 0)
    BY <1>1, FS_CardinalityType, FS_EmptySet
<1>3. Cardinality({c}) = 1
    BY FS_Singleton
<1>4. c \notin S => Cardinality(S \cup {c}) = Cardinality(S) + 1
    BY <1>1, FS_AddElement
<1>5. c \in S => Cardinality(S \ {c}) = Cardinality(S) - 1
    BY <1>1, FS_RemoveElement
<1> QED
    BY <1>2, <1>3, <1>4, <1>5

\* The critical section at the start of a call by a caller that is not running.
LEMMA CallIInv ==
    ASSUME IInv, NEW c \in Caller, pc[c] # "running", Call(c),
           attempt' \in [Caller -> 0 .. MaxRetries], healthy' = healthy
    PROVE  IInv'
<1>1. breaker \in BreakerType /\ probes \subseteq Caller /\ pc \in [Caller -> {"idle", "running", "sleeping"}]
    BY DEF IInv, TypeOK
<1>2. c \notin probes
    BY DEF IInv, ProbesRun
<1>3. CASE ~Admits(breaker)
    BY <1>1, <1>2, <1>3
    DEF Call, IInv, TypeOK, Accounted, ProbesRun, ClosedBelowThreshold
<1>4. CASE Admits(breaker)
    <2>1. /\ breaker' = Admit(breaker)
          /\ pc' = [pc EXCEPT ![c] = "running"]
          /\ Observe({c}, {}, 0)
        BY <1>4 DEF Call
    <2>2. CASE breaker.state = "CLOSED"
        <3>1. breaker' = breaker
            BY <1>1, <2>1, <2>2 DEF Admit, Probe
        <3>2. probes' = {} /\ recovered' = 0 /\ lost' = {}
            BY <2>1, <2>2, <3>1 DEF Observe
        <3> QED
            BY <1>1, <2>1, <2>2, <3>1, <3>2
            DEF IInv, TypeOK, Accounted, ProbesRun, ClosedBelowThreshold
    <2>3. CASE breaker.state = "OPEN"
        <3>1. /\ breaker' = [Probe(breaker) EXCEPT !.half_open_calls = @ + 1]
              /\ Probe(breaker).state = "HALF_OPEN"
              /\ Probe(breaker).half_open_calls = 0
              /\ Probe(breaker) \in BreakerType
              /\ Probe(breaker).success_count = breaker.success_count
            BY <1>1, <1>4, <2>1, <2>3 DEF Admit, Admits, Probe, BreakerType
        <3>2. breaker' \in BreakerType /\ breaker'.state = "HALF_OPEN"
              /\ breaker'.half_open_calls = 1
              /\ breaker'.success_count = breaker.success_count
            BY <1>1, <3>1 DEF BreakerType
        <3>3. probes' = {c} /\ recovered' = 0 /\ lost' = {}
            BY <2>1, <2>3, <3>2 DEF Observe
        <3>4. Cardinality(probes') = 1
            BY <3>3, ProbeCount
        <3> QED
            BY <1>1, <2>1, <3>2, <3>3, <3>4
            DEF IInv, TypeOK, Accounted, ProbesRun, ClosedBelowThreshold, BreakerType
    <2>4. CASE breaker.state = "HALF_OPEN"
        <3>1. /\ breaker' = [breaker EXCEPT !.half_open_calls = @ + 1]
              /\ breaker.half_open_calls < HalfOpenMaxCalls
            BY <1>1, <1>4, <2>1, <2>4 DEF Admit, Admits, Probe
        <3>2. /\ breaker' \in BreakerType /\ breaker'.state = "HALF_OPEN"
              /\ breaker'.half_open_calls = breaker.half_open_calls + 1
              /\ breaker'.success_count = breaker.success_count
            BY <1>1, <2>4, <3>1 DEF BreakerType
        <3>3. probes' = probes \cup {c} /\ recovered' = recovered /\ lost' = lost
            BY <2>1, <2>4, <3>2 DEF Observe, IInv, TypeOK
        <3>4. /\ Cardinality(probes') = Cardinality(probes) + 1
              /\ Cardinality(probes) \in Nat
            BY <1>1, <1>2, <3>3, ProbeCount
        <3> QED
            BY <1>1, <2>1, <2>4, <3>2, <3>3, <3>4
            DEF IInv, TypeOK, Accounted, ProbesRun, ClosedBelowThreshold, BreakerType
    <2> QED
        BY <1>1, <2>2, <2>3, <2>4 DEF BreakerType
<1> QED
    BY <1>3, <1>4

LEMMA SucceedIInv ==
    ASSUME IInv, NEW c \in Caller, Succeed(c)
    PROVE  IInv'
<1>1. breaker \in BreakerType /\ probes \subseteq Caller /\ pc \in [Caller -> {"idle", "running", "sleeping"}]
    BY DEF IInv, TypeOK
<1>2. /\ breaker' = OnSuccess(breaker)
      /\ pc' = [pc EXCEPT ![c] = "idle"]
      /\ Observe({}, {c}, 1)
      /\ UNCHANGED <<attempt, healthy>>
    BY DEF Succeed
<1>3. CASE breaker.state # "HALF_OPEN"
    <2>1. breaker' = [breaker EXCEPT !.failure_count = 0]
        BY <1>2, <1>3 DEF OnSuccess
    <2>2. breaker' \in BreakerType /\ breaker'.state = breaker.state /\ breaker'.failure_count = 0
        BY <1>1, <2>1 DEF BreakerType
    <2>3. probes' = {} /\ recovered' = 0 /\ lost' = {}
        BY <1>2, <1>3, <2>2 DEF Observe
    <2> QED
        BY <1>1, <1>2, <1>3, <2>2, <2>3
        DEF IInv, TypeOK, Accounted, ProbesRun, ClosedBelowThreshold
<1>4. CASE breaker.state = "HALF_OPEN" /\ breaker.success_count + 1 >= HalfOpenMaxCalls
    <2>1. breaker' = NewBreaker
        BY <1>2, <1>4 DEF OnSuccess
    <2>2. breaker' \in BreakerType /\ breaker'.state = "CLOSED" /\ breaker'.failure_count = 0
        BY <2>1 DEF NewBreaker, BreakerType
    <2>3. probes' = {} /\ recovered' = recovered + 1 /\ lost' = {}
        BY <1>2, <1>4, <2>2 DEF Observe
    <2>4. recovered' \in 0 .. HalfOpenMaxCalls
        BY <1>1, <1>4, <2>3 DEF IInv, TypeOK, BreakerType
    <2> QED
        BY <1>1, <1>2, <2>2, <2>3, <2>4
        DEF IInv, TypeOK, Accounted, ProbesRun, ClosedBelowThreshold
<1>5. CASE breaker.state = "HALF_OPEN" /\ ~(breaker.success_count + 1 >= HalfOpenMaxCalls)
    <2>1. breaker' = [breaker EXCEPT !.success_count = @ + 1]
        BY <1>2, <1>5 DEF OnSuccess
    <2>2. /\ breaker' \in BreakerType /\ breaker'.state = "HALF_OPEN"
          /\ breaker'.success_count = breaker.success_count + 1
          /\ breaker'.half_open_calls = breaker.half_open_calls
        BY <1>1, <1>5, <2>1 DEF BreakerType
    <2>3. probes' = probes \ {c} /\ recovered' = recovered + 1 /\ lost' = lost
        BY <1>2, <1>5, <2>2 DEF Observe
    <2>4. /\ Cardinality(probes) \in Nat /\ Cardinality(probes') \in Nat
          /\ Cardinality(probes') <= Cardinality(probes)
          /\ Cardinality(probes) <= Cardinality(probes') + 1
        <3>1. Cardinality(probes) \in Nat /\ Cardinality(probes') \in Nat
            BY <1>1, <2>3, ProbeCount
        <3>2. CASE c \in probes
            <4>1. Cardinality(probes \ {c}) = Cardinality(probes) - 1
                BY <1>1, <3>2, ProbeCount
            <4> QED
                BY <2>3, <3>1, <4>1
        <3>3. CASE c \notin probes
            <4>1. probes' = probes
                BY <2>3, <3>3
            <4> QED
                BY <3>1, <4>1
        <3> QED
            BY <3>2, <3>3
    <2>5. recovered' \in 0 .. HalfOpenMaxCalls /\ recovered' <= breaker'.success_count
        BY <1>1, <1>5, <2>2, <2>3 DEF IInv, TypeOK, BreakerType
    <2>6. Accounted'
        BY <1>1, <1>5, <2>2, <2>3, <2>4 DEF IInv, Accounted, BreakerType
    <2>7. \A x \in probes' : pc'[x] = "running"
        BY <1>1, <1>2, <2>3 DEF IInv, ProbesRun
    <2> QED
        BY <1>1, <1>2, <2>2, <2>3, <2>5, <2>6, <2>7
        DEF IInv, TypeOK, ProbesRun, ClosedBelowThreshold
<1> QED
    BY <1>3, <1>4, <1>5

\* A failure ends a half-open period, and opens the circuit at the threshold.
LEMMA FailIInv ==
    ASSUME IInv, NEW c \in Caller, breaker' = OnFailure(breaker), Observe({}, {c}, 0),
           pc' \in [Caller -> {"idle", "running", "sleeping"}],
           attempt' \in [Caller -> 0 .. MaxRetries], healthy' = healthy
    PROVE  IInv'
<1>1. breaker \in BreakerType
    BY DEF IInv, TypeOK
<1>2. /\ breaker' \in BreakerType
      /\ breaker'.state # "HALF_OPEN"
      /\ breaker'.state = "CLOSED" => breaker'.failure_count < FailureThreshold
    BY <1>1 DEF OnFailure, BreakerType
<1>3. probes' = {} /\ lost' = {} /\ recovered' \in 0 .. HalfOpenMaxCalls
    BY <1>2 DEF Observe, IInv, TypeOK
<1> QED
    BY <1>2, <1>3 DEF IInv, TypeOK, Accounted, ProbesRun, ClosedBelowThreshold

LEMMA CancelIInv ==
    ASSUME IInv, NEW c \in Caller, Cancel(c)
    PROVE  IInv'
<1>1. probes \subseteq Caller /\ pc \in [Caller -> {"idle", "running", "sleeping"}]
      /\ breaker.half_open_calls \in Nat
    BY DEF IInv, TypeOK, BreakerType
<1>2. /\ lost' = lost \cup (probes \cap {c})
      /\ pc' = [pc EXCEPT ![c] = "idle"]
      /\ probes' = probes \ {c}
      /\ UNCHANGED <<breaker, attempt, healthy, recovered>>
    BY DEF Cancel
<1>3. /\ Cardinality(probes) \in Nat /\ Cardinality(probes') \in Nat
      /\ Cardinality(probes') <= Cardinality(probes)
    <2>1. IsFiniteSet(probes)
        BY <1>1, FS_Subset
    <2>2. Cardinality(probes) \in Nat
        BY <2>1, FS_CardinalityType
    <2>3. probes' \subseteq probes
        BY <1>2
    <2>4. Cardinality(probes') <= Cardinality(probes)
        BY <2>1, <2>3, FS_Subset
    <2>5. IsFiniteSet(probes')
        BY <2>1, <2>3, FS_Subset
    <2> QED
        BY <2>2, <2>4, <2>5, FS_CardinalityType
<1>4. Accounted'
    <2>1. CASE c \in probes
        <3>1. lost' # {}
            BY <1>2, <2>1
        <3> QED
            BY <1>1, <1>2, <1>3, <3>1 DEF IInv, Accounted
    <2>2. CASE c \notin probes
        <3>1. probes' = probes /\ lost' = lost
            BY <1>2, <2>2 DEF IInv, TypeOK
        <3> QED
            BY <1>2, <3>1 DEF IInv, Accounted
    <2> QED
        BY <2>1, <2>2
<1>5. ProbesRun'
    BY <1>1, <1>2 DEF IInv, ProbesRun
<1> QED
    BY <1>1, <1>2, <1>4, <1>5 DEF IInv, TypeOK, ClosedBelowThreshold

LEMMA NextIInv == IInv /\ [Next]_vars => IInv'
<1> SUFFICES ASSUME IInv, [Next]_vars PROVE IInv'
    OBVIOUS
<1>0. attempt \in [Caller -> 0 .. MaxRetries] /\ pc \in [Caller -> {"idle", "running", "sleeping"}]
    BY DEF IInv, TypeOK
<1>1. ASSUME NEW c \in Caller, Execute(c) PROVE IInv'
    BY <1>0, <1>1, CallIInv DEF Execute
<1>2. ASSUME NEW c \in Caller, Retry(c) PROVE IInv'
    BY <1>0, <1>2, CallIInv DEF Retry
<1>3. ASSUME NEW c \in Caller, Succeed(c) PROVE IInv'
    BY <1>3, SucceedIInv
<1>4. ASSUME NEW c \in Caller, FailTransient(c) PROVE IInv'
    <2>1. pc' \in [Caller -> {"idle", "running", "sleeping"}] /\ attempt' \in [Caller -> 0 .. MaxRetries]
        BY <1>0, <1>4 DEF FailTransient
    <2> QED
        BY <1>4, <2>1, FailIInv DEF FailTransient
<1>5. ASSUME NEW c \in Caller, FailPermanent(c) PROVE IInv'
    <2>1. pc' \in [Caller -> {"idle", "running", "sleeping"}] /\ attempt' \in [Caller -> 0 .. MaxRetries]
        BY <1>0, <1>5 DEF FailPermanent
    <2> QED
        BY <1>5, <2>1, FailIInv DEF FailPermanent
<1>6. ASSUME NEW c \in Caller, Cancel(c) PROVE IInv'
    BY <1>6, CancelIInv
<1>7. CASE CooldownOver
    <2>1. breaker \in BreakerType
        BY DEF IInv, TypeOK
    <2>2. /\ breaker' \in BreakerType
          /\ breaker'.state = breaker.state
          /\ breaker'.failure_count = breaker.failure_count
          /\ breaker'.success_count = breaker.success_count
          /\ breaker'.half_open_calls = breaker.half_open_calls
        BY <1>7, <2>1 DEF CooldownOver, CoolDown, BreakerType
    <2> QED
        BY <1>7, <2>2
        DEF CooldownOver, IInv, TypeOK, Accounted, ProbesRun, ClosedBelowThreshold
<1>8. CASE NodeBreaks \/ NodeMends \/ UNCHANGED vars
    BY <1>8 DEF NodeBreaks, NodeMends, vars, IInv, TypeOK, Accounted, ProbesRun,
                ClosedBelowThreshold
<1> QED
    BY <1>1, <1>2, <1>3, <1>4, <1>5, <1>6, <1>7, <1>8 DEF Next, Return

THEOREM Invariance == Spec => []IInv
BY InitIInv, NextIInv, PTL DEF Spec
-----------------------------------------------------------------------------
\* Every reachable state is well typed.
THEOREM TypeCorrect == Spec => []TypeOK
<1>1. IInv => TypeOK
    BY DEF IInv
<1> QED
    BY <1>1, Invariance, PTL

\* However calls, failures, retries and cancellations interleave, the probes
\* running in one half-open period never exceed half_open_max_calls.
THEOREM ProbesBounded == Spec => []ProbesWithinLimit
<1>1. ASSUME IInv PROVE ProbesWithinLimit
    <2>1. Cardinality(probes) <= HalfOpenMaxCalls
        <3>1. CASE breaker.state = "HALF_OPEN"
            <4>1. /\ Cardinality(probes) <= breaker.half_open_calls
                  /\ breaker.half_open_calls \in 0 .. HalfOpenMaxCalls
                BY <1>1, <3>1 DEF IInv, Accounted, TypeOK, BreakerType
            <4>2. Cardinality(probes) \in Nat
                BY <1>1, FS_Subset, FS_CardinalityType DEF IInv, TypeOK
            <4> QED
                BY <4>1, <4>2
        <3>2. CASE breaker.state # "HALF_OPEN"
            BY <1>1, <3>2, FS_EmptySet DEF IInv, ProbesRun
        <3> QED
            BY <3>1, <3>2
    <2> QED
        BY <1>1, <2>1 DEF IInv, ProbesRun, ProbesWithinLimit
<1> QED
    BY <1>1, Invariance, PTL

\* A circuit is never closed with the threshold reached.
THEOREM ClosedIsBelowThreshold == Spec => []ClosedBelowThreshold
<1>1. IInv => ClosedBelowThreshold
    BY DEF IInv
<1> QED
    BY <1>1, Invariance, PTL

\* Unless a probe of the period was cancelled, the half-open limit only rejects
\* calls while a probe is out that will decide the period.
THEOREM LimitMeansProbing == Spec => []HalfOpenLimitMeansProbing
<1>1. ASSUME IInv PROVE HalfOpenLimitMeansProbing
    <2>1. SUFFICES ASSUME breaker.state = "HALF_OPEN", ~Admits(breaker), probes = {}, lost = {}
                   PROVE  FALSE
        BY DEF HalfOpenLimitMeansProbing
    <2>2. /\ breaker.half_open_calls \in 0 .. HalfOpenMaxCalls
          /\ breaker.success_count \in 0 .. HalfOpenMaxCalls - 1
        BY <1>1 DEF IInv, TypeOK, BreakerType
    <2>3. breaker.half_open_calls >= HalfOpenMaxCalls
        BY <2>1, <2>2 DEF Admits, Probe
    <2>4. breaker.half_open_calls <= breaker.success_count + 0
        BY <1>1, <2>1, FS_EmptySet DEF IInv, Accounted
    <2> QED
        BY <2>2, <2>3, <2>4
<1> QED
    BY <1>1, Invariance, PTL
=============================================================================

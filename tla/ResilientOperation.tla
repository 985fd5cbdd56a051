------------------------- MODULE ResilientOperation -------------------------
(***************************************************************************)
(* clotho/resilience.py: ResilientOperation.execute, run by concurrent     *)
(* callers against one node, every attempt going through that node's       *)
(* CircuitBreaker.call.                                                    *)
(*                                                                         *)
(* A caller may be cancelled wherever it awaits, as WriteCoordinator.write *)
(* cancels the replica tasks that are late: asyncio.CancelledError is not  *)
(* an Exception, so neither _on_success nor _on_failure runs.              *)
(*                                                                         *)
(* Breakers of different nodes share nothing, so one node stands for all.  *)
(***************************************************************************)
EXTENDS CircuitBreaker, FiniteSets

CONSTANTS Caller,        \* concurrent executions
          MaxRetries     \* RetryPolicy.max_retries

ASSUME CallerAssumption == IsFiniteSet(Caller)
ASSUME RetriesAssumption == MaxRetries \in Nat

VARIABLES breaker,     \* the node's CircuitBreaker
          pc,          \* where each caller is in execute
          attempt,     \* execute's loop variable
          healthy,     \* environment: the node answers
          probes,      \* ghost: running calls admitted in this half-open period
          recovered,   \* ghost: successes recorded in this half-open period
          lost         \* ghost: callers cancelled while probing in this half-open period

vars == <<breaker, pc, attempt, healthy, probes, recovered, lost>>

TypeOK ==
    /\ breaker \in BreakerType
    /\ pc \in [Caller -> {"idle", "running", "sleeping"}]
    /\ attempt \in [Caller -> 0 .. MaxRetries]
    /\ healthy \in BOOLEAN
    /\ probes \subseteq Caller
    /\ recovered \in 0 .. HalfOpenMaxCalls
    /\ lost \subseteq Caller

Init ==
    /\ breaker = NewBreaker
    /\ pc = [c \in Caller |-> "idle"]
    /\ attempt = [c \in Caller |-> 0]
    /\ healthy = TRUE
    /\ probes = {}
    /\ recovered = 0
    /\ lost = {}
-----------------------------------------------------------------------------
\* The ghosts follow the breaker: a half-open period starts with nothing
\* counted and ends when the state changes.
Observe(entered, left, succeeded) ==
    IF breaker'.state # "HALF_OPEN"
    THEN /\ probes' = {} /\ lost' = {}
         /\ recovered' = IF breaker.state = "HALF_OPEN" THEN recovered + succeeded ELSE 0
    ELSE IF breaker.state # "HALF_OPEN"
         THEN probes' = entered /\ recovered' = 0 /\ lost' = {}
         ELSE /\ probes' = (probes \cup entered) \ left /\ UNCHANGED lost
              /\ recovered' = recovered + succeeded

\* The critical section at the start of CircuitBreaker.call, for caller c: the
\* operation starts, or CircuitOpenError ends the execution.
Call(c) ==
    IF Admits(breaker)
    THEN /\ breaker' = Admit(breaker)
         /\ pc' = [pc EXCEPT ![c] = "running"]
         /\ Observe({c}, {}, 0)
    ELSE /\ pc' = [pc EXCEPT ![c] = "idle"]
         /\ UNCHANGED <<breaker, probes, recovered, lost>>

\* execute: the first attempt
Execute(c) ==
    /\ pc[c] = "idle"
    /\ attempt' = [attempt EXCEPT ![c] = 0]
    /\ Call(c)
    /\ UNCHANGED healthy

\* execute: the next attempt, after the backoff
Retry(c) ==
    /\ pc[c] = "sleeping"
    /\ Call(c)
    /\ UNCHANGED <<attempt, healthy>>

\* The operation returned: _on_success, and execute returns.
Succeed(c) ==
    /\ pc[c] = "running"
    /\ breaker' = OnSuccess(breaker)
    /\ pc' = [pc EXCEPT ![c] = "idle"]
    /\ Observe({}, {c}, 1)
    /\ UNCHANGED <<attempt, healthy>>

\* Mistake: a retry does not use up an attempt.
FailTransientForever(c) ==
    /\ pc[c] = "running" /\ ~healthy
    /\ breaker' = OnFailure(breaker)
    /\ pc' = [pc EXCEPT ![c] = "sleeping"]
    /\ Observe({}, {c}, 0)
    /\ UNCHANGED <<attempt, healthy>>

\* TimeoutError or ConnectionError: _on_failure, then back off or give up.
FailTransient(c) ==
    /\ pc[c] = "running" /\ ~healthy
    /\ breaker' = OnFailure(breaker)
    /\ IF attempt[c] < MaxRetries
       THEN /\ pc' = [pc EXCEPT ![c] = "sleeping"]
            /\ attempt' = [attempt EXCEPT ![c] = @ + 1]
       ELSE /\ pc' = [pc EXCEPT ![c] = "idle"]
            /\ UNCHANGED attempt
    /\ Observe({}, {c}, 0)
    /\ UNCHANGED healthy

\* Any other exception: _on_failure, and execute re-raises it.
FailPermanent(c) ==
    /\ pc[c] = "running" /\ ~healthy
    /\ breaker' = OnFailure(breaker)
    /\ pc' = [pc EXCEPT ![c] = "idle"]
    /\ Observe({}, {c}, 0)
    /\ UNCHANGED <<attempt, healthy>>

\* task.cancel() reaches the caller at its await: an operation that is late
\* because the node does not answer, or a backoff.
Cancel(c) ==
    /\ pc[c] = "sleeping" \/ (pc[c] = "running" /\ ~healthy)
    /\ pc' = [pc EXCEPT ![c] = "idle"]
    /\ probes' = probes \ {c}
    /\ lost' = lost \cup (probes \cap {c})
    /\ UNCHANGED <<breaker, attempt, healthy, recovered>>

\* recovery_timeout goes by.
CooldownOver ==
    /\ breaker.last_failure_time = "recent"
    /\ breaker' = CoolDown(breaker)
    /\ UNCHANGED <<pc, attempt, healthy, probes, recovered, lost>>

NodeBreaks == healthy  /\ healthy' = FALSE /\ UNCHANGED <<breaker, pc, attempt, probes, recovered, lost>>

NodeMends  == ~healthy /\ healthy' = TRUE  /\ UNCHANGED <<breaker, pc, attempt, probes, recovered, lost>>

Return(c) == Succeed(c) \/ FailTransient(c) \/ FailPermanent(c)

Next ==
    \/ \E c \in Caller : Execute(c) \/ Retry(c) \/ Return(c) \/ Cancel(c)
    \/ CooldownOver
    \/ NodeBreaks
    \/ NodeMends

\* Requests keep coming, an operation that was started returns or raises, a
\* backoff ends, and time passes.  Nothing makes the node break, mend, or a
\* caller be cancelled.
Fairness ==
    /\ \A c \in Caller : WF_vars(Execute(c)) /\ WF_vars(Retry(c)) /\ WF_vars(Return(c))
    /\ WF_vars(CooldownOver)

Spec == Init /\ [][Next]_vars

FairSpec == Spec /\ Fairness
-----------------------------------------------------------------------------
\* At most half_open_max_calls of the calls admitted since the breaker last went
\* half-open are running at once.
ProbesWithinLimit ==
    /\ Cardinality(probes) <= HalfOpenMaxCalls
    /\ \A c \in probes : pc[c] = "running"

\* When the half-open limit rejects callers, some probe of this period is still
\* out whose result will close or reopen the circuit, unless a probe was
\* cancelled.  It is what keeps "half-open limit reached" from being a state
\* nothing leaves.
HalfOpenLimitMeansProbing ==
    breaker.state = "HALF_OPEN" /\ ~Admits(breaker) => probes # {} \/ lost # {}

\* A closed circuit has counted fewer failures than the threshold, whatever late
\* results arrived while it was open.
ClosedBelowThreshold ==
    breaker.state = "CLOSED" => breaker.failure_count < FailureThreshold

\* Once the node is healthy for good, the circuit closes and stays closed.
RecoversOnceHealthy == <>[]healthy => <>[](breaker.state = "CLOSED")

\* It does so however calls, failures and cancellations interleaved before,
\* unless the half-open period it is left in lost a probe to a cancellation:
\* that is the only way a breaker gets stuck.
RecoversUnlessProbeLost == <>[](healthy /\ lost = {}) => <>[](breaker.state = "CLOSED")

\* Every execution ends: with a result, with an error, or rejected.
EveryExecutionEnds == \A c \in Caller : pc[c] # "idle" ~> pc[c] = "idle"
=============================================================================

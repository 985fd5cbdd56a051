--------------------------- MODULE CircuitBreaker ---------------------------
(***************************************************************************)
(* clotho/resilience.py, class CircuitBreaker: the record of one breaker   *)
(* and its critical sections as operators on it.  Each section runs under  *)
(* the breaker's asyncio lock and awaits nothing, so it is one step; the   *)
(* protected operation runs between two of them, outside the lock.         *)
(*                                                                         *)
(* last_failure_time is kept as what _should_attempt_reset learns from it: *)
(* there was no failure, it was less than recovery_timeout ago, or it was  *)
(* at least that long ago.  failure_count is only ever compared with the   *)
(* threshold, so it stops there.                                           *)
(***************************************************************************)
EXTENDS Naturals

CONSTANTS FailureThreshold, HalfOpenMaxCalls

ASSUME ThresholdAssumption == FailureThreshold \in Nat \ {0}
ASSUME HalfOpenAssumption == HalfOpenMaxCalls \in Nat \ {0}

BreakerType ==
    [state             : {"CLOSED", "OPEN", "HALF_OPEN"},
     failure_count     : 0 .. FailureThreshold,
     success_count     : 0 .. HalfOpenMaxCalls - 1,
     half_open_calls   : 0 .. HalfOpenMaxCalls,
     last_failure_time : {"never", "recent", "elapsed"}]

\* CircuitBreaker.__init__ and _reset
NewBreaker ==
    [state             |-> "CLOSED",
     failure_count     |-> 0,
     success_count     |-> 0,
     half_open_calls   |-> 0,
     last_failure_time |-> "never"]

\* CircuitBreaker._should_attempt_reset
ShouldAttemptReset(b) == b.last_failure_time # "recent"

\* Mistake: the calls of the last half-open period are still counted.
ProbeKeepsCount(b) ==
    IF b.state = "OPEN" /\ ShouldAttemptReset(b) THEN [b EXCEPT !.state = "HALF_OPEN"] ELSE b

\* call, first half of its critical section: leave OPEN after the cooldown
Probe(b) ==
    IF b.state = "OPEN" /\ ShouldAttemptReset(b)
    THEN [state             |-> "HALF_OPEN",
          failure_count     |-> b.failure_count,
          success_count     |-> b.success_count,
          half_open_calls   |-> 0,
          last_failure_time |-> b.last_failure_time]
    ELSE b

\* Mistake: one call too many gets through.
AdmitsOneMore(b) ==
    \/ Probe(b).state = "CLOSED"
    \/ Probe(b).state = "HALF_OPEN" /\ Probe(b).half_open_calls <= HalfOpenMaxCalls

\* call, second half: does the call go ahead, or raise CircuitOpenError
Admits(b) ==
    \/ Probe(b).state = "CLOSED"
    \/ Probe(b).state = "HALF_OPEN" /\ Probe(b).half_open_calls < HalfOpenMaxCalls

\* Mistake: a probe is let through uncounted.
AdmitUncounted(b) == Probe(b)

\* The breaker after the critical section of an admitted call
Admit(b) ==
    IF Probe(b).state = "HALF_OPEN"
    THEN [Probe(b) EXCEPT !.half_open_calls = @ + 1]
    ELSE Probe(b)

\* Mistake: one success more than half_open_max_calls is waited for.
OnSuccessLate(b) ==
    IF b.state = "HALF_OPEN"
    THEN IF b.success_count + 1 > HalfOpenMaxCalls
         THEN NewBreaker
         ELSE [b EXCEPT !.success_count = @ + 1]
    ELSE [b EXCEPT !.failure_count = 0]

\* CircuitBreaker._on_success
OnSuccess(b) ==
    IF b.state = "HALF_OPEN"
    THEN IF b.success_count + 1 >= HalfOpenMaxCalls
         THEN NewBreaker
         ELSE [b EXCEPT !.success_count = @ + 1]
    ELSE [b EXCEPT !.failure_count = 0]

\* Mistake: the circuit opens at the failure after the threshold.
OnFailureLate(b) ==
    LET opens == b.state = "HALF_OPEN" \/ b.failure_count >= FailureThreshold
    IN  [b EXCEPT !.state = IF opens THEN "OPEN" ELSE @,
                  !.failure_count = IF @ < FailureThreshold THEN @ + 1 ELSE @,
                  !.last_failure_time = "recent"]

\* CircuitBreaker._on_failure
OnFailure(b) ==
    LET failures == IF b.failure_count < FailureThreshold
                    THEN b.failure_count + 1 ELSE FailureThreshold
        opens == b.state = "HALF_OPEN" \/ failures >= FailureThreshold
    IN  [state             |-> IF opens THEN "OPEN" ELSE b.state,
         failure_count     |-> failures,
         success_count     |-> b.success_count,
         half_open_calls   |-> b.half_open_calls,
         last_failure_time |-> "recent"]

\* Time passes: recovery_timeout has gone by since the last failure.
CoolDown(b) == [b EXCEPT !.last_failure_time = "elapsed"]
=============================================================================

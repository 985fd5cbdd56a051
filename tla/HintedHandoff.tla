--------------------------- MODULE HintedHandoff ---------------------------
(***************************************************************************)
(* clotho/resilience.py, class HintedHandoffManager: hints for writes that *)
(* did not reach a replica, and the background task that forwards them.    *)
(*                                                                         *)
(* forward is where _forward_loop stands.  It awaits in its sleep and in   *)
(* _send_hint_to_node; the other tasks of the event loop (store_hint, stop)*)
(* run only there (AtAwait).  While it walks over self.hints[target] the   *)
(* list object is not replaced, so hints stored meanwhile are walked over  *)
(* too.  A cancelled walk forgets which hints it has forwarded.            *)
(*                                                                         *)
(* _send_hint_to_node is a stub that returns True; SendResults says what   *)
(* the transport that takes its place may answer (an exception counts as a *)
(* refusal).  Time is a counter of the periods a hint's age is measured in.*)
(***************************************************************************)
EXTENDS Sublist

CONSTANTS NodeId, Key,
          Write,         \* the writes hints are about
          MaxRetries,    \* Hint.max_retries
          HintExpiry,    \* HINT_EXPIRY_SECONDS
          SendResults,   \* subset of BOOLEAN
          MaxTime,       \* bound: clock
          MaxStops       \* bound: calls of stop()

ASSUME RetriesAssumption == MaxRetries \in Nat
ASSUME ExpiryAssumption == HintExpiry \in Nat
ASSUME SendAssumption == SendResults \subseteq BOOLEAN
ASSUME HandoffBounds == MaxTime \in Nat /\ MaxStops \in Nat

VARIABLES hints,      \* the list of each target (an absent target has an empty one)
          running,
          forward,    \* the loop: asleep, or at hint index of a target, with the
                      \* targets still to visit and the indices forwarded so far
          now,
          stops,
          left        \* ghost: hints that left the list, and why

handoffVars == <<hints, running, forward, now, stops, left>>

Hint == [key : Key, write : Write, timestamp : 0 .. MaxTime, retryCount : 0 .. MaxRetries]
Asleep == [pc |-> "asleep"]
Walking == [pc : {"walking"}, target : NodeId, index : Nat \ {0},
            forwarded : SUBSET Nat, targets : SUBSET NodeId]

HandoffTypeOK ==
    /\ hints \in [NodeId -> Seq(Hint)]
    /\ running \in BOOLEAN
    /\ forward \in {Asleep} \cup Walking
    /\ now \in 0 .. MaxTime
    /\ stops \in 0 .. MaxStops

HandoffInit ==
    /\ hints = [n \in NodeId |-> << >>]
    /\ running = TRUE
    /\ forward = Asleep
    /\ now = 0
    /\ stops = 0
    /\ left = {}
-----------------------------------------------------------------------------
\* Mistake: the last retry is not counted.
ShouldRetryOnceMore(h) == h.retryCount <= MaxRetries

\* Hint.should_retry
ShouldRetry(h) == h.retryCount < MaxRetries

IsExpired(h) == now - h.timestamp > HintExpiry

\* The hint the walk stands at, if it has not come to the end of the list.
AtHint == forward.pc = "walking" /\ forward.index <= Len(hints[forward.target])
Current == hints[forward.target][forward.index]

\* The loop is suspended in an await, and other tasks may run.
AtAwait == forward = Asleep \/ (AtHint /\ ShouldRetry(Current))

\* The effect of store_hint(n, k, w) for every n in ns.
StoreHints(ns, k, w) ==
    hints' = [n \in NodeId |->
                IF n \in ns
                THEN Append(hints[n], [key |-> k, write |-> w, timestamp |-> now, retryCount |-> 0])
                ELSE hints[n]]

\* Mistake: an answer that is no success does not count as a try.
RefusedUncounted(h) == h

\* Hint.increment_retry
Refused(h) == [h EXCEPT !.retryCount = @ + 1]

\* Mistake: the times are not compared.
SameKey(h, g) == h.key = g.key

\* What remove_hint compares.
SameHint(h, g) == h.timestamp = g.timestamp /\ h.key = g.key

\* remove_hint for every forwarded hint: what stays of the list s.
Unforwarded(s, forwarded) ==
    Sublist(s, {j \in DOMAIN s : \A i \in forwarded : ~SameHint(s[j], s[i])})

\* Going on with one of the targets ts, or back to sleep.
Visit(ts) ==
    IF ts = {} THEN {Asleep}
    ELSE {[pc |-> "walking", target |-> t, index |-> 1, forwarded |-> {}, targets |-> ts \ {t}] :
            t \in ts}

\* The hints of n that are not forwarded, but have the key and the time of one that is.
Twins(n, forwarded) ==
    {j \in DOMAIN hints[n] \ forwarded :
        \E i \in forwarded : /\ hints[n][j].key = hints[n][i].key
                             /\ hints[n][j].timestamp = hints[n][i].timestamp}

\* What left records of the hints of n at the indices I.
Leaving(n, I, why) == {[node |-> n, write |-> hints[n][i].write, why |-> why] : i \in I}

\* _forward_loop wakes up: cleanup_expired_hints, then the list of targets.
Wake ==
    /\ running
    /\ forward = Asleep
    /\ hints' = [n \in NodeId |-> Sublist(hints[n], {i \in DOMAIN hints[n] : ~IsExpired(hints[n][i])})]
    /\ forward' \in Visit({n \in NodeId : hints'[n] # << >>})
    /\ left' = left \cup UNION {Leaving(n, {i \in DOMAIN hints[n] : IsExpired(hints[n][i])}, "expired") :
                                  n \in NodeId}
    /\ UNCHANGED <<running, now, stops>>

\* A hint that has been tried too often is dropped.
GiveUp ==
    /\ AtHint
    /\ ~ShouldRetry(Current)
    /\ forward' = [forward EXCEPT !.index = @ + 1, !.forwarded = @ \cup {forward.index}]
    /\ UNCHANGED <<hints, running, now, stops, left>>

\* _send_hint_to_node answers.
Send(success) ==
    /\ AtHint
    /\ ShouldRetry(Current)
    /\ IF success
       THEN /\ forward' = [forward EXCEPT !.index = @ + 1, !.forwarded = @ \cup {forward.index}]
            /\ UNCHANGED hints
       ELSE /\ forward' = [forward EXCEPT !.index = @ + 1]
            /\ hints' = [hints EXCEPT ![forward.target][forward.index] = Refused(@)]
    /\ UNCHANGED <<running, now, stops, left>>

\* The end of _forward_hints_to_node: the forwarded hints are removed.
FinishTarget ==
    /\ forward.pc = "walking"
    /\ forward.index > Len(hints[forward.target])
    /\ LET n == forward.target
           gaveUp == {i \in forward.forwarded : ~ShouldRetry(hints[n][i])}
       IN  /\ hints' = [hints EXCEPT ![n] = Unforwarded(@, forward.forwarded)]
           /\ left' = left \cup Leaving(n, gaveUp, "given up")
                           \cup Leaving(n, forward.forwarded \ gaveUp, "sent")
                           \cup Leaving(n, Twins(n, forward.forwarded), "twin")
    /\ forward' \in Visit(forward.targets)
    /\ UNCHANGED <<running, now, stops>>

\* stop(): the task is cancelled where it awaits.
Stop ==
    /\ running
    /\ AtAwait
    /\ stops < MaxStops
    /\ stops' = stops + 1
    /\ running' = FALSE
    /\ forward' = Asleep
    /\ UNCHANGED <<hints, now, left>>

\* start()
Restart ==
    /\ ~running
    /\ running' = TRUE
    /\ UNCHANGED <<hints, forward, now, stops, left>>

Tick ==
    /\ now < MaxTime
    /\ now' = now + 1
    /\ UNCHANGED <<hints, running, forward, stops, left>>

\* The steps of the background task.
ForwardLoop == Wake \/ GiveUp \/ (\E success \in SendResults : Send(success)) \/ FinishTarget

HandoffNext == ForwardLoop \/ Stop \/ Restart \/ Tick
=============================================================================

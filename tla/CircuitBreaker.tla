---------------------------- MODULE CircuitBreaker ----------------------------
(***************************************************************************)
(* The per-node circuit breaker of the gateway (pkg/gateway/              *)
(* circuit_breaker.go).  Every proxy handler owns one breaker, with one    *)
(* entry for each node; every breaker reports its changes to the same      *)
(* process-wide gauges, which have one cell for each node                  *)
(* (pkg/metrics/metrics.go).                                               *)
(*                                                                         *)
(* Each operation holds cb.mu from its first to its last statement, so it  *)
(* is one action.  The clock is abstracted to the only question the code   *)
(* asks of it: elapsed[h][n] is time.Since(lastFailure[n]) > resetTimeout, *)
(* TRUE for a node that has no lastFailure (the zero time is far past).    *)
(***************************************************************************)
EXTENDS Integers

CONSTANTS
    Handlers,    \* the proxy handlers, each with a breaker of its own
    Nodes,       \* the names of the cluster's nodes
    Threshold,   \* CircuitBreakerConfig.Threshold
    FailureCap   \* failures counts up to here and then stays: a bound of the
                 \* model, the code only asks whether it reached Threshold

ASSUME BreakerAssumption ==
    /\ Threshold \in Nat \ {0}
    /\ FailureCap \in Nat
    /\ FailureCap >= Threshold

VARIABLES
    failures,    \* cb.failures: failures since the last success
    state,       \* cb.state
    elapsed,     \* more than resetTimeout has passed since cb.lastFailure
    gauge        \* mcp_circuit_breaker_state (and mcp_node_health, which is 1
                 \* exactly when this cell was last set to "closed")

cbVars == <<failures, state, elapsed, gauge>>

CircuitState == {"closed", "open", "half-open"}

CBTypeOK ==
    /\ failures \in [Handlers -> [Nodes -> 0..FailureCap]]
    /\ state \in [Handlers -> [Nodes -> CircuitState]]
    /\ elapsed \in [Handlers -> [Nodes -> BOOLEAN]]
    /\ gauge \in [Nodes -> CircuitState]

CBInit ==
    /\ failures = [h \in Handlers |-> [n \in Nodes |-> 0]]
    /\ state = [h \in Handlers |-> [n \in Nodes |-> "closed"]]
    /\ elapsed = [h \in Handlers |-> [n \in Nodes |-> TRUE]]
    /\ gauge = [n \in Nodes |-> "closed"]

NotifyNobody(n, s) == UNCHANGED gauge

NotifyStateChange(n, s) == gauge' = [gauge EXCEPT ![n] = s]

AdmitsOnceClosed(h, n) == state[h][n] # "open"

\* What Allow returns.
Admits(h, n) == state[h][n] = "open" => elapsed[h][n]

\* What Allow does: the first call after the reset timeout half-opens the
\* circuit, any other call changes nothing.
Allow(h, n) ==
    /\ IF state[h][n] = "open" /\ Admits(h, n)
       THEN /\ state' = [state EXCEPT ![h][n] = "half-open"]
            /\ NotifyStateChange(n, "half-open")
       ELSE UNCHANGED <<state, gauge>>
    /\ UNCHANGED <<failures, elapsed>>

RecordSuccess(h, n) ==
    /\ failures' = [failures EXCEPT ![h][n] = 0]
    /\ state' = [state EXCEPT ![h][n] = "closed"]
    /\ NotifyStateChange(n, "closed")
    /\ UNCHANGED elapsed

OneMore(k) == IF k < FailureCap THEN k + 1 ELSE k

TripsLate(k) == k > Threshold

Trips(k) == k >= Threshold

RecordFailure(h, n) ==
    /\ failures' = [failures EXCEPT ![h][n] = OneMore(@)]
    /\ elapsed' = [elapsed EXCEPT ![h][n] = FALSE]
    /\ IF Trips(failures'[h][n])
       THEN /\ state' = [state EXCEPT ![h][n] = "open"]
            /\ NotifyStateChange(n, "open")
       ELSE UNCHANGED <<state, gauge>>

\* Reset deletes the three entries of the node and tells nobody.
Reset(h, n) ==
    /\ failures' = [failures EXCEPT ![h][n] = 0]
    /\ state' = [state EXCEPT ![h][n] = "closed"]
    /\ elapsed' = [elapsed EXCEPT ![h][n] = TRUE]
    /\ UNCHANGED gauge

\* The clock passes lastFailure + resetTimeout.
Elapse(h, n) ==
    /\ ~elapsed[h][n]
    /\ elapsed' = [elapsed EXCEPT ![h][n] = TRUE]
    /\ UNCHANGED <<failures, state, gauge>>

CBNext ==
    \E h \in Handlers, n \in Nodes :
        \/ Allow(h, n)
        \/ RecordSuccess(h, n)
        \/ RecordFailure(h, n)
        \/ Reset(h, n)
        \/ Elapse(h, n)

\* Callers in any order, whether they keep the usage contract or not.
CBSpec == CBInit /\ [][CBNext]_cbVars

-------------------------------------------------------------------------------
(* Properties *)

\* The counter and the circuit agree: a circuit is closed exactly while fewer
\* than Threshold failures were recorded since the last success.  This is why
\* one failed probe of a half-open circuit opens it again (Allow does not
\* clear the counter, RecordFailure opens at the threshold), whatever calls
\* came between.
CounterMatchesState ==
    \A h \in Handlers, n \in Nodes :
        state[h][n] = "closed" <=> failures[h][n] < Threshold

\* A node that the shared gauge calls healthy is so for one of the handlers:
\* notifyStateChange is called under the same lock as every change of state
\* except Reset, which only closes, so although every handler overwrites the
\* cell, its last word was true of the handler that said it.
GaugeSpeaksForOne ==
    \A h \in Handlers, n \in Nodes :
        gauge[n] = "closed" => \E g \in Handlers : state[g][n] = "closed"
===============================================================================

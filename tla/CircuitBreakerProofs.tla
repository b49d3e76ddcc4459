------------------------- MODULE CircuitBreakerProofs -------------------------
(***************************************************************************)
(* Theorems about CircuitBreaker, for every set of handlers and nodes and  *)
(* every threshold.                                                        *)
(***************************************************************************)
EXTENDS CircuitBreaker, TLAPS

\* The inductive invariant: the types, and the agreement of the failure counter
\* with the state of the circuit.
CBInv == CBTypeOK /\ CounterMatchesState

LEMMA OneMoreCounts ==
    ASSUME NEW k \in 0..FailureCap
    PROVE  OneMore(k) \in 0..FailureCap /\ (Trips(k) => Trips(OneMore(k)))
BY BreakerAssumption DEF OneMore, Trips

LEMMA CBInitInv == CBInit => CBInv
<1> SUFFICES ASSUME CBInit PROVE CBInv
  OBVIOUS
<1>1. 0 \in 0..FailureCap /\ 0 < Threshold
  BY BreakerAssumption
<1>2. CBTypeOK
  BY <1>1 DEF CBInit, CBTypeOK, CircuitState
<1>3. CounterMatchesState
  BY <1>1 DEF CBInit, CounterMatchesState
<1> QED
  BY <1>2, <1>3 DEF CBInv

\* A half-opening Allow leaves the counter alone, so an open circuit must not
\* be closed to it.
LEMMA AllowInv ==
    ASSUME CBInv, NEW h \in Handlers, NEW n \in Nodes, Allow(h, n)
    PROVE  CBInv'
<1>1. CASE state[h][n] = "open" /\ elapsed[h][n]
  <2>1. /\ state' = [state EXCEPT ![h][n] = "half-open"]
        /\ gauge' = [gauge EXCEPT ![n] = "half-open"]
        /\ failures' = failures /\ elapsed' = elapsed
    BY <1>1 DEF Allow, Admits, NotifyStateChange
  <2>2. CBTypeOK'
    BY <2>1 DEF CBInv, CBTypeOK, CircuitState
  <2>3. CounterMatchesState'
    BY <1>1, <2>1 DEF CBInv, CBTypeOK, CounterMatchesState
  <2> QED
    BY <2>2, <2>3 DEF CBInv
<1>2. CASE ~(state[h][n] = "open" /\ elapsed[h][n])
  BY <1>2 DEF Allow, Admits, CBInv, CBTypeOK, CounterMatchesState
<1> QED
  BY <1>1, <1>2

LEMMA RecordSuccessInv ==
    ASSUME CBInv, NEW h \in Handlers, NEW n \in Nodes, RecordSuccess(h, n)
    PROVE  CBInv'
<1>1. 0 \in 0..FailureCap /\ 0 < Threshold
  BY BreakerAssumption
<1>2. CBTypeOK'
  BY <1>1 DEF CBInv, CBTypeOK, CircuitState, RecordSuccess, NotifyStateChange
<1>3. CounterMatchesState'
  BY <1>1 DEF CBInv, CBTypeOK, CounterMatchesState, RecordSuccess
<1> QED
  BY <1>2, <1>3 DEF CBInv

\* The circuit is left as it was only if the counter is still below the
\* threshold, and then it was closed before.
LEMMA RecordFailureInv ==
    ASSUME CBInv, NEW h \in Handlers, NEW n \in Nodes, RecordFailure(h, n)
    PROVE  CBInv'
<1> DEFINE more == OneMore(failures[h][n])
<1>1. failures[h][n] \in 0..FailureCap
  BY DEF CBInv, CBTypeOK
<1>2. more \in 0..FailureCap /\ (Trips(failures[h][n]) => Trips(more))
  BY <1>1, OneMoreCounts
<1>3. failures' = [failures EXCEPT ![h][n] = more]
      /\ elapsed' = [elapsed EXCEPT ![h][n] = FALSE]
  BY DEF RecordFailure
<1>4. failures'[h][n] = more
  BY <1>1, <1>3 DEF CBInv, CBTypeOK
<1>5. failures' \in [Handlers -> [Nodes -> 0..FailureCap]]
      /\ elapsed' \in [Handlers -> [Nodes -> BOOLEAN]]
  BY <1>2, <1>3 DEF CBInv, CBTypeOK
<1>6. CASE Trips(more)
  <2>1. /\ state' = [state EXCEPT ![h][n] = "open"]
        /\ gauge' = [gauge EXCEPT ![n] = "open"]
    BY <1>4, <1>6 DEF RecordFailure, NotifyStateChange
  <2>2. CBTypeOK'
    BY <1>5, <2>1 DEF CBInv, CBTypeOK, CircuitState
  <2>3. ~(more < Threshold)
    BY <1>2, <1>6, BreakerAssumption DEF Trips
  <2>4. CounterMatchesState'
    BY <1>3, <2>1, <2>3 DEF CBInv, CBTypeOK, CounterMatchesState
  <2> QED
    BY <2>2, <2>4 DEF CBInv
<1>7. CASE ~Trips(more)
  <2>1. state' = state /\ gauge' = gauge
    BY <1>4, <1>7 DEF RecordFailure
  <2>2. CBTypeOK'
    BY <1>5, <2>1 DEF CBInv, CBTypeOK
  <2>3. more < Threshold /\ failures[h][n] < Threshold
    BY <1>1, <1>2, <1>7, BreakerAssumption DEF Trips
  <2>4. CounterMatchesState'
    BY <1>3, <2>1, <2>3 DEF CBInv, CBTypeOK, CounterMatchesState
  <2> QED
    BY <2>2, <2>4 DEF CBInv
<1> QED
  BY <1>6, <1>7

LEMMA ResetInv ==
    ASSUME CBInv, NEW h \in Handlers, NEW n \in Nodes, Reset(h, n)
    PROVE  CBInv'
<1>1. 0 \in 0..FailureCap /\ 0 < Threshold
  BY BreakerAssumption
<1>2. CBTypeOK'
  BY <1>1 DEF CBInv, CBTypeOK, CircuitState, Reset
<1>3. CounterMatchesState'
  BY <1>1 DEF CBInv, CBTypeOK, CounterMatchesState, Reset
<1> QED
  BY <1>2, <1>3 DEF CBInv

LEMMA CBNextInv == CBInv /\ [CBNext]_cbVars => CBInv'
<1> SUFFICES ASSUME CBInv, [CBNext]_cbVars PROVE CBInv'
  OBVIOUS
<1>1. ASSUME NEW h \in Handlers, NEW n \in Nodes,
             \/ Allow(h, n) \/ RecordSuccess(h, n) \/ RecordFailure(h, n)
             \/ Reset(h, n) \/ Elapse(h, n)
      PROVE  CBInv'
  <2>1. CASE Allow(h, n)
    BY <2>1, AllowInv
  <2>2. CASE RecordSuccess(h, n)
    BY <2>2, RecordSuccessInv
  <2>3. CASE RecordFailure(h, n)
    BY <2>3, RecordFailureInv
  <2>4. CASE Reset(h, n)
    BY <2>4, ResetInv
  <2>5. CASE Elapse(h, n)
    BY <2>5 DEF Elapse, CBInv, CBTypeOK, CounterMatchesState
  <2> QED
    BY <1>1, <2>1, <2>2, <2>3, <2>4, <2>5
<1>2. CASE UNCHANGED cbVars
  BY <1>2 DEF cbVars, CBInv, CBTypeOK, CounterMatchesState
<1> QED
  BY <1>1, <1>2 DEF CBNext

\* Whoever calls the breaker in whatever order, its entries are well formed and
\* a circuit is closed exactly while its counter is below the threshold
\* (RecordFailure, RecordSuccess, Allow and Reset in circuit_breaker.go).
THEOREM BreakerConsistent == CBSpec => [](CBTypeOK /\ CounterMatchesState)
<1>1. CBInv => CBTypeOK /\ CounterMatchesState
  BY DEF CBInv
<1> QED
  BY <1>1, CBInitInv, CBNextInv, PTL DEF CBSpec

-------------------------------------------------------------------------------
(* The gauge *)

\* A step that closes the cell of a node closes a circuit of it, and one that
\* changes a circuit in any other way says so in the cell.
LEMMA GaugeFollows ==
    ASSUME CBInv, GaugeSpeaksForOne, [CBNext]_cbVars
    PROVE  GaugeSpeaksForOne'
<1>1. ASSUME NEW h \in Handlers, NEW n \in Nodes,
             \/ Allow(h, n) \/ RecordSuccess(h, n) \/ RecordFailure(h, n)
             \/ Reset(h, n) \/ Elapse(h, n)
      PROVE  GaugeSpeaksForOne'
  <2>1. \/ UNCHANGED <<state, gauge>>
        \/ \E s \in CircuitState : /\ state' = [state EXCEPT ![h][n] = s]
                                   /\ \/ s = "closed" /\ UNCHANGED gauge
                                      \/ gauge' = [gauge EXCEPT ![n] = s]
    BY <1>1 DEF Allow, RecordSuccess, RecordFailure, Reset, Elapse, NotifyStateChange, CircuitState
  <2>2. /\ state \in [Handlers -> [Nodes -> CircuitState]]
        /\ gauge \in [Nodes -> CircuitState]
    BY DEF CBInv, CBTypeOK
  <2>3. CASE UNCHANGED <<state, gauge>>
    BY <2>3 DEF GaugeSpeaksForOne
  <2>4. ASSUME NEW s \in CircuitState, state' = [state EXCEPT ![h][n] = s],
               (s = "closed" /\ UNCHANGED gauge) \/ gauge' = [gauge EXCEPT ![n] = s]
        PROVE  GaugeSpeaksForOne'
    <3> SUFFICES ASSUME NEW m \in Nodes, gauge'[m] = "closed"
                 PROVE  \E g \in Handlers : state'[g][m] = "closed"
      BY DEF GaugeSpeaksForOne
    <3>1. CASE m = n
      BY <2>2, <2>4, <3>1
    <3>2. CASE m # n
      <4>1. gauge[m] = "closed" /\ \A g \in Handlers : state'[g][m] = state[g][m]
        BY <2>2, <2>4, <3>2
      <4> QED
        BY <4>1 DEF GaugeSpeaksForOne
    <3> QED
      BY <3>1, <3>2
  <2> QED
    BY <2>1, <2>3, <2>4
<1>2. CASE UNCHANGED cbVars
  BY <1>2 DEF cbVars, GaugeSpeaksForOne
<1> QED
  BY <1>1, <1>2 DEF CBNext

\* Whatever the handlers do to the cell they share, a node that
\* mcp_circuit_breaker_state shows as closed is closed for one of them, whoever
\* calls what in any order, Reset included, which does not report.
THEOREM GaugeIsSomebodys == CBSpec => []GaugeSpeaksForOne
<1>1. CBInit => GaugeSpeaksForOne
  BY DEF CBInit, GaugeSpeaksForOne
<1>2. CBInv /\ GaugeSpeaksForOne /\ [CBNext]_cbVars => GaugeSpeaksForOne'
  BY GaugeFollows
<1> QED
  BY <1>1, <1>2, CBInitInv, CBNextInv, PTL DEF CBSpec
===============================================================================

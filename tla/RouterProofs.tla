----------------------------- MODULE RouterProofs -----------------------------
(***************************************************************************)
(* Theorems about Router, for any number of handlers, nodes, pods and      *)
(* calls, any threshold and any limit of concurrent requests.              *)
(***************************************************************************)
EXTENDS Router, CircuitBreakerProofs, FiniteSetTheorems

-------------------------------------------------------------------------------
(* Every step of the gateway is a step of its breakers. *)

LEMMA LoopStepsBreaker ==
    ASSUME TypeOK, NEW c \in Calls, Loop(c)
    PROVE  [CBNext]_cbVars
<1>1. ASSUME NEW p \in Pods, VisitRefused(c, p) \/ VisitAdmitted(c, p)
      PROVE  CBNext
  <2>1. handler[c] \in Handlers /\ NodeOf[p] \in Nodes
    BY RouterAssumption DEF TypeOK
  <2>2. Allow(handler[c], NodeOf[p])
    BY <1>1 DEF VisitRefused, VisitAdmitted
  <2> QED
    BY <2>1, <2>2 DEF CBNext
<1>2. ASSUME NEW p \in Pods, SkipUnready(c, p) \/ ReportRefused(c, p)
      PROVE  UNCHANGED cbVars
  BY <1>2 DEF SkipUnready, ReportRefused
<1>3. CASE EndVisits(c) \/ Collect(c) \/ Return(c)
  BY <1>3 DEF EndVisits, Collect, Return
<1> QED
  BY <1>1, <1>2, <1>3 DEF Loop

LEMMA WorkStepsBreaker ==
    ASSUME TypeOK, NEW c \in Calls, NEW p \in Pods, Work(c, p)
    PROVE  [CBNext]_cbVars
<1>1. handler[c] \in Handlers /\ NodeOf[p] \in Nodes
  BY RouterAssumption DEF TypeOK
<1>2. CASE Refuse(c, p)
  BY <1>1, <1>2 DEF Refuse, CBNext
<1>3. CASE Request(c, p)
  BY <1>1, <1>3 DEF Request, CBNext
<1>4. CASE Record(c, p)
  BY <1>1, <1>4 DEF Record, CBNext
<1>5. CASE Acquire(c, p) \/ Abandon(c, p) \/ Answer(c, p) \/ Report(c, p) \/ Release(c, p)
  BY <1>5 DEF Acquire, Abandon, Answer, Report, Release
<1> QED
  BY <1>2, <1>3, <1>4, <1>5 DEF Work

LEMMA NextStepsBreaker == TypeOK /\ [Next]_vars => [CBNext]_cbVars
<1> SUFFICES ASSUME TypeOK, [Next]_vars PROVE [CBNext]_cbVars
  OBVIOUS
<1>1. ASSUME NEW c \in Calls, Call(c) \/ CloseResults(c) PROVE UNCHANGED cbVars
  BY <1>1 DEF Call, Start, ListFails, Cancel, CloseResults
<1>2. ASSUME NEW n \in Nodes, CrashOrRestart(n) PROVE UNCHANGED cbVars
  BY <1>2 DEF CrashOrRestart
<1>3. ASSUME NEW h \in Handlers, NEW n \in Nodes, Timeout(h, n) PROVE CBNext
  BY <1>3 DEF Timeout, CBNext
<1>4. CASE UNCHANGED vars
  BY <1>4 DEF vars, cbVars
<1> QED
  BY <1>1, <1>2, <1>3, <1>4, LoopStepsBreaker, WorkStepsBreaker DEF Next

-------------------------------------------------------------------------------
(* The slots of a call's semaphore *)

LEMMA HoldersFinite ==
    ASSUME NEW c \in Calls
    PROVE  IsFiniteSet(Holders(c)) /\ Cardinality(Holders(c)) \in Nat
<1>1. Holders(c) \subseteq Pods
  BY DEF Holders
<1> QED
  BY <1>1, RouterAssumption, FS_Subset, FS_CardinalityType

\* A worker that moves leaves every other worker where it was.
LEMMA MoveHolders ==
    ASSUME TypeOK, NEW c \in Calls, NEW p \in Pods,
           NEW from, NEW to \in WorkerState, Move(c, p, from, to)
    PROVE  /\ Holders(c)' = IF to \in Holding THEN Holders(c) \union {p}
                                             ELSE Holders(c) \ {p}
           /\ \A d \in Calls \ {c} : Holders(d)' = Holders(d)
           /\ p \in Holders(c) <=> from \in Holding
<1>1. worker \in [Calls -> [Pods -> WorkerState]] /\ worker[c][p] = from
  BY DEF TypeOK, Move
<1>2. worker' = [worker EXCEPT ![c][p] = to]
  BY DEF Move
<1>3. \A q \in Pods : worker'[c][q] = IF q = p THEN to ELSE worker[c][q]
  BY <1>1, <1>2
<1>4. \A d \in Calls \ {c} : worker'[d] = worker[d]
  BY <1>1, <1>2
<1> QED
  BY <1>1, <1>3, <1>4 DEF Holders

LEMMA MoveIn ==
    ASSUME TypeOK, NEW c \in Calls, NEW p \in Pods,
           NEW from, NEW to \in WorkerState, Move(c, p, from, to),
           from \notin Holding, to \in Holding
    PROVE  Cardinality(Holders(c)') = Cardinality(Holders(c)) + 1
BY MoveHolders, HoldersFinite, FS_AddElement

LEMMA MoveOut ==
    ASSUME TypeOK, NEW c \in Calls, NEW p \in Pods,
           NEW from, NEW to \in WorkerState, Move(c, p, from, to),
           from \in Holding, to \notin Holding
    PROVE  /\ Cardinality(Holders(c)') = Cardinality(Holders(c)) - 1
           /\ Cardinality(Holders(c)) > 0
<1>1. p \in Holders(c) /\ Holders(c)' = Holders(c) \ {p}
  BY MoveHolders
<1>2. Cardinality(Holders(c) \ {p}) = Cardinality(Holders(c)) - 1
  BY <1>1, HoldersFinite, FS_RemoveElement
<1>3. Cardinality(Holders(c)) # 0
  BY <1>1, HoldersFinite, FS_EmptySet
<1> QED
  BY <1>1, <1>2, <1>3, HoldersFinite

LEMMA MoveWithin ==
    ASSUME TypeOK, NEW c \in Calls, NEW p \in Pods,
           NEW from, NEW to \in WorkerState, Move(c, p, from, to),
           from \in Holding <=> to \in Holding
    PROVE  \A d \in Calls : Holders(d)' = Holders(d)
BY MoveHolders
-------------------------------------------------------------------------------
(* The inductive invariant *)

\* The types, the breaker's own invariant, the accounting of the slots, which
\* keeps sem in its range when one is given back, and the closing of the
\* channel, which rests on the order of the loop's end, the workers' ends and
\* the close.  The loop starts a worker at most once, so that starting one takes
\* no slot from another.
UnvisitedHasNoWorker ==
    \A c \in Calls : \A p \in todo[c] : worker[c][p] = "none"

IInv == /\ TypeOK /\ CounterMatchesState
        /\ UnvisitedHasNoWorker /\ SlotsAreHeld /\ NoSendAfterClose

LEMMA InitIInv == Init => IInv
<1> SUFFICES ASSUME Init PROVE IInv
  OBVIOUS
<1>1. CBTypeOK /\ CounterMatchesState
  BY CBInitInv DEF Init, CBInv
<1>2. TypeOK
  <2>1. 0 \in 0..MaxConcurrency /\ << >> \in Seq(NodeResult)
    BY RouterAssumption
  <2>2. /\ pc \in [Calls -> {"idle", "visiting", "collecting", "returned"}]
        /\ handler \in [Calls -> Handlers]
        /\ ready \in [Calls -> SUBSET Pods] /\ todo \in [Calls -> SUBSET Pods]
        /\ refused \in [Calls -> SUBSET Pods]
        /\ cancelled \in [Calls -> BOOLEAN] /\ closed \in [Calls -> BOOLEAN]
        /\ outcome \in [Calls -> {"none", "ok", "all failed", "list failed"}]
    BY DEF Init
  <2>3. /\ worker \in [Calls -> [Pods -> WorkerState]]
        /\ reply \in [Calls -> [Pods -> Reply]]
    BY DEF Init, WorkerState, Reply
  <2>4. /\ sem \in [Calls -> 0..MaxConcurrency]
        /\ resultsCh \in [Calls -> Seq(NodeResult)]
        /\ results \in [Calls -> Seq(NodeResult)]
    BY <2>1 DEF Init
  <2>5. /\ up \in [Nodes -> BOOLEAN]
        /\ probes \in [Handlers -> [Nodes -> SUBSET (Calls \X Pods)]]
    BY DEF Init
  <2> QED
    BY <1>1, <2>2, <2>3, <2>4, <2>5 DEF TypeOK
<1>3. SlotsAreHeld
  <2> SUFFICES ASSUME NEW c \in Calls
               PROVE  sem[c] = Cardinality(Holders(c)) /\ sem[c] <= MaxConcurrency
    BY DEF SlotsAreHeld
  <2>1. Holders(c) = {}
    BY DEF Init, Holders, Holding
  <2>2. Cardinality(Holders(c)) = 0
    BY <2>1, FS_EmptySet
  <2>3. sem[c] = 0
    BY DEF Init
  <2> QED
    BY <2>2, <2>3, RouterAssumption
<1>4. NoSendAfterClose
  BY DEF Init, NoSendAfterClose
<1>5. UnvisitedHasNoWorker
  BY DEF Init, UnvisitedHasNoWorker
<1> QED
  BY <1>1, <1>2, <1>3, <1>4, <1>5 DEF IInv

LEMMA BreakerIInv ==
    ASSUME IInv, [Next]_vars
    PROVE  CBTypeOK' /\ CounterMatchesState'
BY NextStepsBreaker, CBNextInv DEF IInv, CBInv, TypeOK

LEMMA StartIInv ==
    ASSUME IInv, CBTypeOK', NEW c \in Calls, NEW h \in Handlers,
           NEW readyPods \in SUBSET Pods,
           Start(c, h, readyPods) \/ ListFails(c, h)
    PROVE  /\ TypeOK' /\ UnvisitedHasNoWorker'
           /\ SlotsAreHeld' /\ NoSendAfterClose'
<1>1. /\ pc' \in [Calls -> {"idle", "visiting", "collecting", "returned"}]
      /\ todo' \in [Calls -> SUBSET Pods] /\ handler' \in [Calls -> Handlers]
      /\ outcome' \in [Calls -> {"none", "ok", "all failed", "list failed"}]
      /\ UNCHANGED <<up, probes>>
  <2>1. CASE Start(c, h, readyPods)
    BY <2>1 DEF IInv, TypeOK, Start
  <2>2. CASE ListFails(c, h)
    BY <2>2 DEF IInv, TypeOK, ListFails
  <2> QED
    BY <2>1, <2>2
<1>2. PICK rs \in SUBSET Pods : FreshLocals(c, rs)
  BY DEF Start, ListFails
<1>3. TypeOK'
  <2>1. 0 \in 0..MaxConcurrency /\ << >> \in Seq(NodeResult)
    BY RouterAssumption
  <2> QED
    BY <1>1, <1>2, <2>1 DEF IInv, TypeOK, FreshLocals, WorkerState, Reply
<1>4. SlotsAreHeld'
  <2>1. Holders(c)' = {} /\ sem'[c] = 0
    BY <1>2 DEF FreshLocals, Holders, Holding, IInv, TypeOK
  <2>2. Cardinality({}) = 0
    BY FS_EmptySet
  <2>3. ASSUME NEW d \in Calls \ {c} PROVE Holders(d)' = Holders(d) /\ sem'[d] = sem[d]
    BY <1>2 DEF FreshLocals, Holders, IInv, TypeOK
  <2> QED
    BY <2>1, <2>2, <2>3, RouterAssumption DEF IInv, SlotsAreHeld
<1>5. NoSendAfterClose'
  <2>1. closed' = [closed EXCEPT ![c] = FALSE] /\ closed \in [Calls -> BOOLEAN]
    BY <1>2 DEF FreshLocals, IInv, TypeOK
  <2>2. ~closed'[c]
    BY <2>1
  <2>3. ASSUME NEW d \in Calls \ {c}
        PROVE  closed'[d] = closed[d] /\ pc'[d] = pc[d] /\ worker'[d] = worker[d]
    <3>1. worker'[d] = worker[d]
      BY <1>2 DEF FreshLocals, IInv, TypeOK
    <3>2. pc'[d] = pc[d]
      BY DEF Start, ListFails, IInv, TypeOK
    <3> QED
      BY <2>1, <3>1, <3>2
  <2> QED
    BY <2>2, <2>3 DEF IInv, NoSendAfterClose
<1>6. UnvisitedHasNoWorker'
  <2> SUFFICES ASSUME NEW d \in Calls, NEW p \in todo'[d]
               PROVE  worker'[d][p] = "none"
    BY DEF UnvisitedHasNoWorker
  <2>1. p \in Pods
    BY <1>1
  <2>2. CASE d = c
    BY <1>2, <2>1, <2>2 DEF FreshLocals, IInv, TypeOK
  <2>3. CASE d # c
    <3>1. worker'[d] = worker[d]
      BY <1>2, <2>3 DEF FreshLocals, IInv, TypeOK
    <3>2. todo'[d] = todo[d]
      BY <2>3 DEF Start, ListFails, IInv, TypeOK
    <3> QED
      BY <3>1, <3>2 DEF IInv, UnvisitedHasNoWorker
  <2> QED
    BY <2>2, <2>3
<1> QED
  BY <1>3, <1>4, <1>5, <1>6


\* A step that moves no worker and takes no slot disturbs only the types.
LEMMA QuietIInv ==
    ASSUME IInv, UNCHANGED <<worker, sem>>,
           \A c \in Calls : todo'[c] \subseteq todo[c],
           \A c \in Calls : closed'[c] =>
                /\ pc'[c] # "visiting"
                /\ closed[c] \/ AllWorkersDone(c)
    PROVE  UnvisitedHasNoWorker' /\ SlotsAreHeld' /\ NoSendAfterClose'
<1>1. UnvisitedHasNoWorker'
  BY DEF IInv, UnvisitedHasNoWorker
<1>2. SlotsAreHeld'
  <2>1. \A c \in Calls : Holders(c)' = Holders(c)
    BY DEF Holders
  <2> QED
    BY <2>1 DEF IInv, SlotsAreHeld
<1>3. NoSendAfterClose'
  BY DEF IInv, NoSendAfterClose, AllWorkersDone
<1> QED
  BY <1>1, <1>2, <1>3

LEMMA SendType ==
    ASSUME TypeOK, NEW c \in Calls, NEW p \in Pods, NEW b \in BOOLEAN, Send(c, p, b)
    PROVE  resultsCh' \in [Calls -> Seq(NodeResult)]
<1>1. resultsCh \in [Calls -> Seq(NodeResult)] /\ [pod |-> p, ok |-> b] \in NodeResult
  BY DEF TypeOK, NodeResult
<1>2. Append(resultsCh[c], [pod |-> p, ok |-> b]) \in Seq(NodeResult)
  BY <1>1
<1> QED
  BY <1>1, <1>2 DEF Send

LEMMA ReportRefusedIInv ==
    ASSUME IInv, CBTypeOK', NEW c \in Calls, NEW p \in Pods, ReportRefused(c, p)
    PROVE  /\ TypeOK' /\ UnvisitedHasNoWorker'
           /\ SlotsAreHeld' /\ NoSendAfterClose'
<1>1. /\ UNCHANGED <<pc, handler, ready, todo, cancelled, worker, reply, sem,
                     closed, results, outcome, up, probes>>
      /\ refused' = [refused EXCEPT ![c] = {}] /\ Send(c, p, FALSE)
  BY DEF ReportRefused
<1>2. resultsCh' \in [Calls -> Seq(NodeResult)]
  BY <1>1, SendType DEF IInv
<1>3. TypeOK'
  BY <1>1, <1>2 DEF IInv, TypeOK
<1>4. \A d \in Calls : closed'[d] => pc'[d] # "visiting" /\ closed[d]
  BY <1>1 DEF IInv, NoSendAfterClose
<1> QED
  BY <1>1, <1>3, <1>4, QuietIInv

LEMMA VisitIInv ==
    ASSUME IInv, CBTypeOK', NEW c \in Calls, NEW p \in Pods,
           SkipUnready(c, p) \/ VisitRefused(c, p) \/ VisitAdmitted(c, p)
    PROVE  /\ TypeOK' /\ UnvisitedHasNoWorker'
           /\ SlotsAreHeld' /\ NoSendAfterClose'
<1>1. /\ Visiting(c, p)
      /\ UNCHANGED <<pc, handler, ready, cancelled, reply, sem, resultsCh,
                     closed, results, outcome, up, probes>>
  BY DEF SkipUnready, VisitRefused, VisitAdmitted
<1>r. refused' \in [Calls -> SUBSET Pods]
  <2>1. UNCHANGED refused \/ refused' = [refused EXCEPT ![c] = {p}]
    BY DEF SkipUnready, VisitRefused, VisitAdmitted
  <2>2. refused \in [Calls -> SUBSET Pods] /\ {p} \in SUBSET Pods
    BY DEF IInv, TypeOK
  <2> QED
    BY <2>1, <2>2
<1>2. /\ todo' = [todo EXCEPT ![c] = @ \ {p}] /\ todo' \in [Calls -> SUBSET Pods]
      /\ pc[c] = "visiting" /\ p \in todo[c]
  BY <1>1 DEF Visiting, IInv, TypeOK
<1>3. \A d \in Calls : todo'[d] \subseteq todo[d]
  BY <1>2 DEF IInv, TypeOK
<1>4. \A d \in Calls : closed'[d] => pc'[d] # "visiting" /\ closed[d]
  BY <1>1 DEF IInv, NoSendAfterClose
<1>5. CASE SkipUnready(c, p) \/ VisitRefused(c, p)
  <2>1. UNCHANGED worker
    BY <1>5 DEF SkipUnready, VisitRefused
  <2>2. TypeOK'
    BY <1>1, <1>r, <1>2, <2>1 DEF IInv, TypeOK
  <2> QED
    BY <1>1, <1>3, <1>4, <2>1, <2>2, QuietIInv
<1>6. CASE VisitAdmitted(c, p)
  <2>1. worker' = [worker EXCEPT ![c][p] = "acquire"]
    BY <1>6 DEF VisitAdmitted
  <2>2. worker[c][p] = "none"
    BY <1>2 DEF IInv, UnvisitedHasNoWorker
  <2>3. Move(c, p, "none", "acquire")
    BY <2>1, <2>2 DEF Move
  <2>4. worker' \in [Calls -> [Pods -> WorkerState]]
    BY <2>1 DEF IInv, TypeOK, WorkerState
  <2>5. TypeOK'
    BY <1>1, <1>r, <1>2, <2>1, <2>4 DEF IInv, TypeOK
  <2>6. UnvisitedHasNoWorker'
    <3> SUFFICES ASSUME NEW d \in Calls, NEW q \in todo'[d]
                 PROVE  worker'[d][q] = "none"
      BY DEF UnvisitedHasNoWorker
    <3>1. q \in todo[d] /\ q \in Pods /\ (d # c \/ q # p)
      BY <1>2 DEF IInv, TypeOK
    <3>2. worker'[d][q] = worker[d][q]
      BY <2>1, <3>1 DEF IInv, TypeOK
    <3> QED
      BY <3>1, <3>2 DEF IInv, UnvisitedHasNoWorker
  <2>7. SlotsAreHeld'
    <3>1. \A d \in Calls : Holders(d)' = Holders(d)
      BY <2>3, MoveWithin DEF IInv, Holding, WorkerState
    <3> QED
      BY <1>1, <3>1 DEF IInv, SlotsAreHeld
  <2>8. NoSendAfterClose'
    <3> SUFFICES ASSUME NEW d \in Calls, closed'[d]
                 PROVE  pc'[d] # "visiting"
                        /\ \A q \in Pods : worker'[d][q] \in {"none", "done"}
      BY DEF NoSendAfterClose
    <3>1. d # c /\ closed[d] /\ pc'[d] # "visiting"
      BY <1>1, <1>2, <1>4
    <3>2. worker'[d] = worker[d]
      BY <2>1, <3>1 DEF IInv, TypeOK
    <3> QED
      BY <3>1, <3>2 DEF IInv, NoSendAfterClose
  <2> QED
    BY <2>5, <2>6, <2>7, <2>8
<1> QED
  BY <1>5, <1>6


LEMMA CollectIInv ==
    ASSUME IInv, CBTypeOK', NEW c \in Calls,
           EndVisits(c) \/ CloseResults(c) \/ Collect(c) \/ Return(c) \/ Cancel(c)
    PROVE  /\ TypeOK' /\ UnvisitedHasNoWorker'
           /\ SlotsAreHeld' /\ NoSendAfterClose'
<1>1. UNCHANGED <<worker, sem, handler, ready, refused, reply, up, probes>>
  BY DEF EndVisits, CloseResults, Collect, Return, Cancel
<1>2. CASE EndVisits(c)
  <2>1. TypeOK'
    BY <1>1, <1>2 DEF EndVisits, IInv, TypeOK
  <2>2. \A d \in Calls : todo'[d] \subseteq todo[d]
    BY <1>2 DEF EndVisits, IInv, TypeOK
  <2>3. \A d \in Calls : closed'[d] => pc'[d] # "visiting" /\ closed[d]
    BY <1>2 DEF EndVisits, IInv, TypeOK, NoSendAfterClose
  <2> QED
    BY <1>1, <2>1, <2>2, <2>3, QuietIInv
<1>3. CASE CloseResults(c)
  <2>1. TypeOK'
    BY <1>1, <1>3 DEF CloseResults, IInv, TypeOK
  <2>2. \A d \in Calls : todo'[d] \subseteq todo[d]
    BY <1>3 DEF CloseResults
  <2>3. \A d \in Calls : closed'[d] =>
            pc'[d] # "visiting" /\ (closed[d] \/ AllWorkersDone(d))
    BY <1>3 DEF CloseResults, IInv, TypeOK, NoSendAfterClose
  <2> QED
    BY <1>1, <2>1, <2>2, <2>3, QuietIInv
<1>4. CASE Collect(c)
  <2>1. /\ resultsCh[c] \in Seq(NodeResult) /\ resultsCh[c] # << >>
        /\ results[c] \in Seq(NodeResult)
    BY <1>4 DEF Collect, IInv, TypeOK
  <2>2. /\ Head(resultsCh[c]) \in NodeResult /\ Tail(resultsCh[c]) \in Seq(NodeResult)
    BY <2>1
  <2>3. Append(results[c], Head(resultsCh[c])) \in Seq(NodeResult)
    BY <2>1, <2>2
  <2>4. /\ resultsCh' \in [Calls -> Seq(NodeResult)]
        /\ results' \in [Calls -> Seq(NodeResult)]
    BY <1>4, <2>2, <2>3 DEF Collect, IInv, TypeOK
  <2>5. TypeOK'
    BY <1>1, <1>4, <2>4 DEF Collect, IInv, TypeOK
  <2>6. /\ \A d \in Calls : todo'[d] \subseteq todo[d]
        /\ \A d \in Calls : closed'[d] => pc'[d] # "visiting" /\ closed[d]
    BY <1>4 DEF Collect, IInv, NoSendAfterClose
  <2> QED
    BY <1>1, <2>5, <2>6, QuietIInv
<1>5. CASE Return(c)
  <2>1. TypeOK'
    BY <1>1, <1>5 DEF Return, IInv, TypeOK
  <2>2. \A d \in Calls : todo'[d] \subseteq todo[d]
    BY <1>5 DEF Return
  <2>3. \A d \in Calls : closed'[d] => pc'[d] # "visiting" /\ closed[d]
    BY <1>5 DEF Return, IInv, TypeOK, NoSendAfterClose
  <2> QED
    BY <1>1, <2>1, <2>2, <2>3, QuietIInv
<1>6. CASE Cancel(c)
  <2>1. TypeOK'
    BY <1>1, <1>6 DEF Cancel, IInv, TypeOK
  <2>2. /\ \A d \in Calls : todo'[d] \subseteq todo[d]
        /\ \A d \in Calls : closed'[d] => pc'[d] # "visiting" /\ closed[d]
    BY <1>6 DEF Cancel, IInv, NoSendAfterClose
  <2> QED
    BY <1>1, <2>1, <2>2, QuietIInv
<1> QED
  BY <1>2, <1>3, <1>4, <1>5, <1>6

LEMMA EnvironmentIInv ==
    ASSUME IInv, CBTypeOK', UNCHANGED <<callVars, probes>>,
           up' \in [Nodes -> BOOLEAN]
    PROVE  /\ TypeOK' /\ UnvisitedHasNoWorker'
           /\ SlotsAreHeld' /\ NoSendAfterClose'
<1>1. TypeOK'
  BY DEF callVars, IInv, TypeOK
<1>2. /\ UNCHANGED <<worker, sem>>
      /\ \A d \in Calls : todo'[d] \subseteq todo[d]
      /\ \A d \in Calls : closed'[d] => pc'[d] # "visiting" /\ closed[d]
  BY DEF callVars, IInv, NoSendAfterClose
<1> QED
  BY <1>1, <1>2, QuietIInv

\* A worker that takes a step has been started and is not done, so its pod was
\* visited and its call's channel is open.
LEMMA WorkingIInv ==
    ASSUME IInv, NEW c \in Calls, NEW p \in Pods, NEW from, NEW to \in WorkerState,
           Move(c, p, from, to), from \notin {"none", "done"},
           UNCHANGED <<pc, todo, closed>>
    PROVE  UnvisitedHasNoWorker' /\ NoSendAfterClose'
<1>1. /\ worker \in [Calls -> [Pods -> WorkerState]] /\ worker[c][p] = from
      /\ worker' = [worker EXCEPT ![c][p] = to]
  BY DEF IInv, TypeOK, Move
<1>2. p \notin todo[c] /\ ~closed[c]
  BY <1>1 DEF IInv, UnvisitedHasNoWorker, NoSendAfterClose
<1>3. UnvisitedHasNoWorker'
  BY <1>1, <1>2 DEF IInv, TypeOK, UnvisitedHasNoWorker
<1>4. NoSendAfterClose'
  BY <1>1, <1>2 DEF IInv, NoSendAfterClose
<1> QED
  BY <1>3, <1>4

LEMMA WorkIInv ==
    ASSUME IInv, CBTypeOK', NEW c \in Calls, NEW p \in Pods, Work(c, p)
    PROVE  /\ TypeOK' /\ UnvisitedHasNoWorker'
           /\ SlotsAreHeld' /\ NoSendAfterClose'
<1>1. UNCHANGED <<pc, handler, ready, todo, refused, cancelled, closed, results,
                outcome, up>>
  BY DEF Work, Acquire, Abandon, Refuse, Request, Answer, Record, Report, Release
<1>a. /\ sem \in [Calls -> 0..MaxConcurrency] /\ MaxConcurrency \in Nat
      /\ \A d \in Calls : sem[d] = Cardinality(Holders(d)) /\ sem[d] <= MaxConcurrency
  BY RouterAssumption DEF IInv, TypeOK, SlotsAreHeld
<1>2. CASE Acquire(c, p)
  <2>1. /\ Move(c, p, "acquire", "admit") /\ sem[c] < MaxConcurrency
        /\ sem' = [sem EXCEPT ![c] = @ + 1] /\ UNCHANGED <<reply, resultsCh, probes>>
    BY <1>2 DEF Acquire, SlotFree
  <2>2. sem[c] + 1 \in 0..MaxConcurrency
    BY <1>a, <2>1
  <2>3. TypeOK'
    BY <1>1, <2>1, <2>2 DEF Move, IInv, TypeOK, WorkerState
  <2>4. /\ Cardinality(Holders(c)') = Cardinality(Holders(c)) + 1
        /\ \A d \in Calls \ {c} : Holders(d)' = Holders(d)
    BY <2>1, MoveIn, MoveHolders DEF IInv, Holding, WorkerState
  <2>5. SlotsAreHeld'
    BY <1>a, <2>1, <2>2, <2>4 DEF SlotsAreHeld
  <2> QED
    BY <1>1, <2>1, <2>3, <2>5, WorkingIInv DEF WorkerState
<1>3. CASE Release(c, p)
  <2>1. /\ Move(c, p, "release", "done")
        /\ sem' = [sem EXCEPT ![c] = @ - 1] /\ UNCHANGED <<reply, resultsCh, probes>>
    BY <1>3 DEF Release
  <2>2. /\ Cardinality(Holders(c)') = Cardinality(Holders(c)) - 1
        /\ Cardinality(Holders(c)) > 0
        /\ \A d \in Calls \ {c} : Holders(d)' = Holders(d)
    BY <2>1, MoveOut, MoveHolders DEF IInv, Holding, WorkerState
  <2>3. sem[c] - 1 \in 0..MaxConcurrency
    BY <1>a, <2>2
  <2>4. TypeOK'
    BY <1>1, <2>1, <2>3 DEF Move, IInv, TypeOK, WorkerState
  <2>5. SlotsAreHeld'
    BY <1>a, <2>1, <2>2, <2>3 DEF SlotsAreHeld
  <2> QED
    BY <1>1, <2>1, <2>4, <2>5, WorkingIInv DEF WorkerState
<1>4. CASE \/ Abandon(c, p) \/ Refuse(c, p) \/ Request(c, p)
           \/ Answer(c, p) \/ Record(c, p) \/ Report(c, p)
  <2>1. \E from, to \in WorkerState \ {"none"} :
            /\ Move(c, p, from, to) /\ from # "done"
            /\ from \in Holding <=> to \in Holding
    BY <1>4 DEF Abandon, Refuse, Request, Answer, Record, Report, WorkerState, Holding
  <2>2. PICK from \in WorkerState \ {"none"}, to \in WorkerState \ {"none"} :
            /\ Move(c, p, from, to) /\ from # "done"
            /\ from \in Holding <=> to \in Holding
    BY <2>1
  <2>3. UNCHANGED sem
    BY <1>4 DEF Abandon, Refuse, Request, Answer, Record, Report
  <2>4. reply' \in [Calls -> [Pods -> Reply]]
    <3>1. reply \in [Calls -> [Pods -> Reply]] /\ "ok" \in Reply /\ "err" \in Reply
      BY DEF IInv, TypeOK, Reply
    <3>2. \/ UNCHANGED reply
          \/ \E r \in {"ok", "err"} : reply' = [reply EXCEPT ![c][p] = r]
      BY <1>4 DEF Abandon, Refuse, Request, Answer, Record, Report
    <3> QED
      BY <3>1, <3>2
  <2>5. resultsCh' \in [Calls -> Seq(NodeResult)]
    BY <1>4, SendType DEF Abandon, Refuse, Request, Answer, Record, Report, IInv, TypeOK
  <2>6. probes' \in [Handlers -> [Nodes -> SUBSET (Calls \X Pods)]]
    <3> DEFINE h == handler[c]  n == NodeOf[p]
    <3>1. /\ h \in Handlers /\ n \in Nodes
          /\ probes \in [Handlers -> [Nodes -> SUBSET (Calls \X Pods)]]
      BY RouterAssumption DEF IInv, TypeOK
    <3>a. probes[h][n] \subseteq Calls \X Pods
      BY <3>1
    <3>2. CASE Request(c, p)
      <4>1. probes[h][n] \union {<<c, p>>} \in SUBSET (Calls \X Pods)
        BY <3>a
      <4>2. \/ probes' = probes
            \/ probes' = [probes EXCEPT ![h][n] = @ \union {<<c, p>>}]
        BY <3>2 DEF Request
      <4> QED
        BY <3>1, <4>1, <4>2
    <3>3. CASE Record(c, p)
      <4>1. \E s \in {probes[h][n], {}} : probes' = [probes EXCEPT ![h][n] = s]
        BY <3>1, <3>3 DEF Record
      <4> QED
        BY <3>1, <3>a, <4>1
    <3>4. CASE Abandon(c, p) \/ Refuse(c, p) \/ Answer(c, p) \/ Report(c, p)
      BY <3>4 DEF Abandon, Refuse, Answer, Report, IInv, TypeOK
    <3> QED
      BY <1>4, <3>2, <3>3, <3>4
  <2>7. worker' \in [Calls -> [Pods -> WorkerState]]
    BY <2>2 DEF Move, IInv, TypeOK
  <2>8. TypeOK'
    BY <1>1, <2>3, <2>4, <2>5, <2>6, <2>7 DEF IInv, TypeOK
  <2>9. SlotsAreHeld'
    <3>1. \A d \in Calls : Holders(d)' = Holders(d)
      BY <2>2, MoveWithin DEF IInv
    <3> QED
      BY <2>3, <3>1 DEF IInv, SlotsAreHeld
  <2> QED
    BY <1>1, <2>2, <2>8, <2>9, WorkingIInv
<1> QED
  BY <1>2, <1>3, <1>4 DEF Work

LEMMA NextIInv == IInv /\ [Next]_vars => IInv'
<1> SUFFICES ASSUME IInv, [Next]_vars PROVE IInv'
  OBVIOUS
<1>1. CBTypeOK' /\ CounterMatchesState'
  BY BreakerIInv
<1> DEFINE Rest == /\ TypeOK' /\ UnvisitedHasNoWorker'
                   /\ SlotsAreHeld' /\ NoSendAfterClose'
<1>2. ASSUME NEW c \in Calls, Call(c) PROVE Rest
  BY <1>1, <1>2, StartIInv, CollectIInv DEF Call
<1>3. ASSUME NEW c \in Calls, Loop(c) \/ CloseResults(c) PROVE Rest
  BY <1>1, <1>3, VisitIInv, ReportRefusedIInv, CollectIInv DEF Loop
<1>4. ASSUME NEW c \in Calls, NEW p \in Pods, Work(c, p) PROVE Rest
  BY <1>1, <1>4, WorkIInv
<1>5. ASSUME NEW n \in Nodes, CrashOrRestart(n) PROVE Rest
  BY <1>1, <1>5, EnvironmentIInv DEF CrashOrRestart, IInv, TypeOK
<1>6. ASSUME NEW h \in Handlers, NEW n \in Nodes, Timeout(h, n) PROVE Rest
  BY <1>1, <1>6, EnvironmentIInv DEF Timeout, IInv, TypeOK
<1>7. ASSUME UNCHANGED vars PROVE Rest
  BY <1>1, <1>7, EnvironmentIInv DEF vars, callVars, IInv, TypeOK
<1>8. Rest
  <2>1. CASE \E c \in Calls : Call(c) \/ Loop(c) \/ CloseResults(c)
    BY <1>2, <1>3, <2>1
  <2>2. CASE \E c \in Calls, p \in Pods : Work(c, p)
    BY <1>4, <2>2
  <2>3. CASE \/ \E n \in Nodes : CrashOrRestart(n)
             \/ \E h \in Handlers, n \in Nodes : Timeout(h, n)
    BY <1>5, <1>6, <2>3
  <2> QED
    BY <1>7, <2>1, <2>2, <2>3 DEF Next
<1> QED
  BY <1>1, <1>8 DEF IInv

-------------------------------------------------------------------------------
(* Theorems *)

\* The state of every fan-out is well formed, and with it the range of the
\* semaphore (RouteToAllNodes in router.go).
THEOREM RouterTyped == Spec => []TypeOK
<1>1. IInv => TypeOK
  BY DEF IInv
<1> QED
  BY <1>1, InitIInv, NextIInv, PTL DEF Spec

\* No slot of the semaphore leaks and no more than MaxConcurrency workers hold
\* one, however many pods there are and whatever fails or is cancelled.
THEOREM SlotsAccounted == Spec => []SlotsAreHeld
<1>1. IInv => SlotsAreHeld
  BY DEF IInv
<1> QED
  BY <1>1, InitIInv, NextIInv, PTL DEF Spec

\* The results channel is never sent to after the closer goroutine closed it.
THEOREM ChannelOutlivesSenders == Spec => []NoSendAfterClose
<1>1. IInv => NoSendAfterClose
  BY DEF IInv
<1> QED
  BY <1>1, InitIInv, NextIInv, PTL DEF Spec

\* The gateway uses its breakers as CircuitBreaker says they may be used: every
\* step of any interleaving of calls is one operation on one entry, or none.
THEOREM UsesBreaker == Spec => CBSpec
<1>1. Init => CBInit
  BY DEF Init
<1>2. IInv /\ [Next]_vars => [CBNext]_cbVars
  BY NextStepsBreaker DEF IInv
<1> QED
  BY <1>1, <1>2, InitIInv, NextIInv, PTL DEF Spec, CBSpec

\* In the gateway, too, a circuit is closed exactly while fewer failures than
\* the threshold were recorded since the last success.
THEOREM CircuitsConsistent == Spec => []CounterMatchesState
BY UsesBreaker, BreakerConsistent, PTL

\* In the gateway with any number of proxy handlers, a node that the gauge they
\* share shows as closed is closed for one of them.
THEOREM GatewayGaugeIsSomebodys == Spec => []GaugeSpeaksForOne
BY UsesBreaker, GaugeIsSomebodys, PTL

-------------------------------------------------------------------------------
(* What a call returns *)

\* Every result that was sent is in the slice or still on its way to it.
Delivered(c) == results[c] \o resultsCh[c]

Gone == {"none", "release", "done"}

\* A pod with a worker was Ready; the open circuit of a Ready pod that was
\* visited is about to be reported, and then no worker is.
VisitsAccounted(c) ==
    /\ \A p \in Pods : worker[c][p] # "none" => p \in ready[c] \ refused[c]
    /\ \A p \in refused[c] : p \in ready[c] \ todo[c] /\ refused[c] = {p}
    /\ pc[c] \in {"collecting", "returned"} => todo[c] = {} /\ refused[c] = {}

\* A worker has a reply only after its request or its refusal.
RepliesAccounted(c) ==
    \A p \in Pods : worker[c][p] \in {"none", "acquire", "admit", "sent"} => reply[c][p] = "none"

\* No pod is reported twice; one that was reported is Ready, was visited, and its
\* worker, if it has one, has nothing more to say than what it said.
ResultsHaveReasons(c) ==
    /\ \A i, j \in DOMAIN Delivered(c) : Delivered(c)[i].pod = Delivered(c)[j].pod => i = j
    /\ \A i \in DOMAIN Delivered(c) : \A p \in Pods : Delivered(c)[i].pod = p =>
            /\ p \in ready[c] \ (todo[c] \union refused[c])
            /\ worker[c][p] \in Gone
            /\ Delivered(c)[i].ok <=> reply[c][p] = "ok"

\* A Ready pod that was visited, and that no goroutine is about to report, was
\* reported: by its worker, or by the loop unless the call was cancelled.
NoneIsLost(c) ==
    \A p \in ready[c] \ (todo[c] \union refused[c]) :
        worker[c][p] \in Gone /\ (worker[c][p] # "none" \/ ~cancelled[c])
            => \E i \in DOMAIN Delivered(c) : Delivered(c)[i].pod = p

\* A call returns when the channel is closed and drained; what it says of all its
\* results together is so.
ReturnsAccounted(c) ==
    pc[c] = "returned" =>
        /\ resultsCh[c] = << >>
        /\ \/ closed[c] /\ outcome[c] = IF Failed(results[c]) THEN "all failed" ELSE "ok"
           \/ outcome[c] = "list failed" /\ ready[c] = {}

Accounted(c) ==
    /\ VisitsAccounted(c) /\ RepliesAccounted(c) /\ ResultsHaveReasons(c)
    /\ NoneIsLost(c) /\ ReturnsAccounted(c)

AnswersInv == \A c \in Calls : Accounted(c)

LEMMA DeliveredType ==
    ASSUME TypeOK, NEW c \in Calls
    PROVE  /\ results[c] \in Seq(NodeResult) /\ resultsCh[c] \in Seq(NodeResult)
           /\ Delivered(c) \in Seq(NodeResult)
<1>1. results[c] \in Seq(NodeResult) /\ resultsCh[c] \in Seq(NodeResult)
  BY DEF TypeOK
<1> QED
  BY <1>1 DEF Delivered

LEMMA DrainedIsDelivered ==
    ASSUME TypeOK, NEW c \in Calls, resultsCh[c] = << >>
    PROVE  Delivered(c) = results[c]
<1>1. \A r \in Seq(NodeResult) : r \o << >> = r
  OBVIOUS
<1> QED
  BY <1>1, DeliveredType DEF Delivered

\* A send puts one result at the end.
LEMMA SendDelivers ==
    ASSUME TypeOK, NEW c \in Calls, NEW p \in Pods, NEW b \in BOOLEAN,
           Send(c, p, b), UNCHANGED results
    PROVE  LET D == Delivered(c)  E == Delivered(c)'  IN
           /\ DOMAIN D = 1..Len(D) /\ Len(D) \in Nat
           /\ DOMAIN E = 1..(Len(D) + 1)
           /\ \A i \in 1..Len(D) : E[i] = D[i]
           /\ E[Len(D) + 1] = [pod |-> p, ok |-> b]
<1> DEFINE r == [pod |-> p, ok |-> b]
           R == results[c]
           C == resultsCh[c]
<1>1. resultsCh'[c] = Append(C, r) /\ results'[c] = R
  BY DEF Send, TypeOK
<1>2. R \in Seq(NodeResult) /\ C \in Seq(NodeResult) /\ r \in NodeResult
  BY DeliveredType DEF NodeResult
<1>3. Delivered(c) = R \o C /\ Delivered(c)' = R \o Append(C, r)
  BY <1>1 DEF Delivered
<1> HIDE DEF r, R, C
<1>4. R \o Append(C, r) = Append(R \o C, r)
  BY <1>2
<1>5. R \o C \in Seq(NodeResult)
  BY <1>2
<1> QED
  BY <1>2, <1>3, <1>4, <1>5 DEF r

\* The collecting loop moves one from the channel to the slice.
LEMMA CollectDelivers ==
    ASSUME TypeOK, NEW c \in Calls, Collect(c)
    PROVE  Delivered(c)' = Delivered(c)
<1> DEFINE R == results[c]
           C == resultsCh[c]
<1>1. /\ results'[c] = Append(R, Head(C)) /\ resultsCh'[c] = Tail(C) /\ C # << >>
      /\ R \in Seq(NodeResult) /\ C \in Seq(NodeResult)
  BY DeliveredType DEF Collect, TypeOK
<1>2. Delivered(c) = R \o C /\ Delivered(c)' = Append(R, Head(C)) \o Tail(C)
  BY <1>1 DEF Delivered
<1> HIDE DEF R, C
<1>3. Append(R, Head(C)) \o Tail(C) = R \o C
  BY <1>1
<1> QED
  BY <1>2, <1>3

LEMMA OthersAccounted ==
    ASSUME NEW d \in Calls, Accounted(d),
           UNCHANGED <<pc[d], ready[d], todo[d], refused[d], cancelled[d], worker[d],
                       reply[d], resultsCh[d], closed[d], results[d], outcome[d]>>
    PROVE  Accounted(d)'
<1>1. Delivered(d)' = Delivered(d)
  BY DEF Delivered
<1>2. VisitsAccounted(d)' /\ RepliesAccounted(d)'
  BY DEF Accounted, VisitsAccounted, RepliesAccounted
<1>3. ResultsHaveReasons(d)' /\ NoneIsLost(d)'
  BY <1>1 DEF Accounted, ResultsHaveReasons, NoneIsLost
<1>4. ReturnsAccounted(d)'
  BY DEF Accounted, ReturnsAccounted
<1> QED
  BY <1>2, <1>3, <1>4 DEF Accounted

LEMMA StartAccounted ==
    ASSUME IInv, NEW c \in Calls, NEW h \in Handlers, NEW readyPods \in SUBSET Pods,
           Start(c, h, readyPods) \/ ListFails(c, h)
    PROVE  Accounted(c)'
<1>1. PICK rs \in SUBSET Pods :
        /\ FreshLocals(c, rs)
        /\ \/ pc'[c] = "visiting" /\ todo'[c] = Pods
           \/ /\ pc'[c] = "returned" /\ todo'[c] = {} /\ rs = {}
              /\ outcome'[c] = "list failed"
  BY DEF Start, ListFails, IInv, TypeOK
<1>2. /\ ready'[c] = rs /\ refused'[c] = {} /\ results'[c] = << >> /\ resultsCh'[c] = << >>
      /\ \A p \in Pods : worker'[c][p] = "none" /\ reply'[c][p] = "none"
  BY <1>1 DEF FreshLocals, IInv, TypeOK
<1>3. Delivered(c)' = << >>
  BY <1>2 DEF Delivered
<1>4. VisitsAccounted(c)' /\ RepliesAccounted(c)'
  BY <1>1, <1>2 DEF VisitsAccounted, RepliesAccounted
<1>5. DOMAIN Delivered(c)' = {}
  BY <1>3
<1>6. ResultsHaveReasons(c)'
  BY <1>5 DEF ResultsHaveReasons
<1>7. NoneIsLost(c)'
  BY <1>1, <1>2 DEF NoneIsLost
<1>8. ReturnsAccounted(c)'
  BY <1>1, <1>2 DEF ReturnsAccounted
<1> QED
  BY <1>4, <1>6, <1>7, <1>8 DEF Accounted

LEMMA VisitAccounted ==
    ASSUME IInv, NEW c \in Calls, Accounted(c), NEW p \in Pods,
           SkipUnready(c, p) \/ VisitRefused(c, p) \/ VisitAdmitted(c, p)
    PROVE  Accounted(c)'
<1>1. /\ pc[c] = "visiting" /\ refused[c] = {} /\ ~cancelled[c] /\ p \in todo[c]
      /\ todo'[c] = todo[c] \ {p}
      /\ UNCHANGED <<pc, ready, cancelled, reply, resultsCh, closed, results, outcome>>
  BY DEF SkipUnready, VisitRefused, VisitAdmitted, Visiting, IInv, TypeOK
<1>2. \/ p \notin ready[c] /\ UNCHANGED <<worker, refused>>
      \/ p \in ready[c] /\ refused'[c] = {p} /\ UNCHANGED worker
      \/ p \in ready[c] /\ UNCHANGED refused /\ worker' = [worker EXCEPT ![c][p] = "acquire"]
  BY DEF SkipUnready, VisitRefused, VisitAdmitted, IInv, TypeOK
<1>3. worker[c][p] = "none"
  BY <1>1 DEF IInv, UnvisitedHasNoWorker
<1>4. Delivered(c)' = Delivered(c)
  BY <1>1 DEF Delivered
<1>5. \A q \in Pods : /\ q # p => worker'[c][q] = worker[c][q]
                      /\ worker'[c][p] \in {"none", "acquire"}
                      /\ worker'[c][p] = "acquire" => p \in ready[c] \ refused'[c]
                      /\ p \in ready[c] /\ p \notin refused'[c] => worker'[c][p] = "acquire"
  <2>1. worker \in [Calls -> [Pods -> WorkerState]]
    BY DEF IInv, TypeOK
  <2>2. CASE UNCHANGED worker
    BY <1>1, <1>2, <1>3, <2>1, <2>2
  <2>3. CASE p \in ready[c] /\ UNCHANGED refused /\ worker' = [worker EXCEPT ![c][p] = "acquire"]
    BY <1>1, <2>1, <2>3
  <2> QED
    BY <1>2, <2>2, <2>3
<1>6. refused'[c] \subseteq {p} \cap ready[c]
  BY <1>1, <1>2
<1>7. VisitsAccounted(c)'
  BY <1>1, <1>5, <1>6 DEF Accounted, VisitsAccounted
<1>8. RepliesAccounted(c)'
  BY <1>1, <1>3, <1>5 DEF Accounted, RepliesAccounted
<1>9. ResultsHaveReasons(c)'
  BY <1>1, <1>4, <1>5, <1>6 DEF Accounted, ResultsHaveReasons
<1>10. NoneIsLost(c)'
  <2>1. ready[c] \subseteq Pods
    BY DEF IInv, TypeOK
  <2> QED
    BY <1>1, <1>4, <1>5, <1>6, <2>1 DEF Accounted, NoneIsLost, Gone
<1>11. ReturnsAccounted(c)'
  BY <1>1 DEF ReturnsAccounted
<1> QED
  BY <1>7, <1>8, <1>9, <1>10, <1>11 DEF Accounted

LEMMA ReportRefusedAccounted ==
    ASSUME IInv, NEW c \in Calls, Accounted(c), NEW p \in Pods, ReportRefused(c, p)
    PROVE  Accounted(c)'
<1> DEFINE D == Delivered(c)
           E == Delivered(c)'
<1>1. /\ pc[c] = "visiting" /\ p \in refused[c] /\ refused'[c] = {}
      /\ Send(c, p, FALSE)
      /\ UNCHANGED <<pc, ready, todo, cancelled, worker, reply, closed, results, outcome>>
  BY DEF ReportRefused, IInv, TypeOK
<1>a. /\ DOMAIN D = 1..Len(D) /\ Len(D) \in Nat
      /\ DOMAIN E = 1..(Len(D) + 1)
      /\ \A i \in 1..Len(D) : E[i] = D[i]
      /\ E[Len(D) + 1] = [pod |-> p, ok |-> FALSE]
  <2>1. FALSE \in BOOLEAN /\ TypeOK
    BY DEF IInv
  <2> QED
    BY <1>1, <2>1, SendDelivers
<1> HIDE DEF D, E
<1>2. /\ DOMAIN D = 1..Len(D) /\ Len(D) \in Nat
      /\ DOMAIN E = 1..(Len(D) + 1)
      /\ \A i \in 1..Len(D) : E[i] = D[i]
      /\ E[Len(D) + 1].pod = p /\ ~E[Len(D) + 1].ok
  BY <1>a
<1>3. /\ p \in ready[c] \ todo[c] /\ worker[c][p] = "none" /\ reply[c][p] # "ok"
      /\ \A i \in 1..Len(D) : D[i].pod # p
  BY <1>1, <1>2 DEF Accounted, VisitsAccounted, RepliesAccounted, ResultsHaveReasons, D
<1>4. VisitsAccounted(c)' /\ RepliesAccounted(c)' /\ ReturnsAccounted(c)'
  BY <1>1 DEF Accounted, VisitsAccounted, RepliesAccounted, ReturnsAccounted
<1>5. ResultsHaveReasons(c)'
  <2>1. \A i, j \in DOMAIN E : E[i].pod = E[j].pod => i = j
    BY <1>2, <1>3 DEF Accounted, ResultsHaveReasons, D
  <2>2. ASSUME NEW i \in DOMAIN E, NEW q \in Pods, E[i].pod = q
        PROVE  /\ q \in ready[c] \ todo[c] /\ worker[c][q] \in Gone
               /\ E[i].ok <=> reply[c][q] = "ok"
    <3>1. CASE i = Len(D) + 1
      BY <1>2, <1>3, <2>2, <3>1 DEF Gone
    <3>2. CASE i \in 1..Len(D)
      BY <1>2, <2>2, <3>2 DEF Accounted, ResultsHaveReasons, D
    <3> QED
      BY <1>2, <3>1, <3>2
  <2> QED
    BY <1>1, <2>1, <2>2 DEF ResultsHaveReasons, E
<1>6. NoneIsLost(c)'
  <2> SUFFICES ASSUME NEW q \in ready[c] \ todo[c],
                      worker[c][q] \in Gone, worker[c][q] # "none" \/ ~cancelled[c]
               PROVE  \E i \in DOMAIN E : E[i].pod = q
    BY <1>1 DEF NoneIsLost, E
  <2>1. CASE q = p
    BY <1>2, <2>1
  <2>2. CASE q # p
    <3>1. q \notin refused[c]
      BY <1>1, <2>2 DEF Accounted, VisitsAccounted
    <3>2. PICK i \in DOMAIN D : D[i].pod = q
      BY <3>1 DEF Accounted, NoneIsLost, D
    <3> QED
      BY <1>2, <3>2
  <2> QED
    BY <2>1, <2>2
<1> QED
  BY <1>4, <1>5, <1>6 DEF Accounted

LEMMA CollectAccounted ==
    ASSUME IInv, NEW c \in Calls, Accounted(c),
           EndVisits(c) \/ CloseResults(c) \/ Collect(c) \/ Return(c) \/ Cancel(c)
    PROVE  Accounted(c)'
<1>1. /\ UNCHANGED <<ready, refused, worker, reply>>
      /\ pc[c] \in {"visiting", "collecting"}
  BY DEF EndVisits, CloseResults, Collect, Return, Cancel
<1>2. Delivered(c)' = Delivered(c)
  <2>1. CASE Collect(c)
    BY <2>1, CollectDelivers DEF IInv
  <2>2. CASE EndVisits(c) \/ CloseResults(c) \/ Return(c) \/ Cancel(c)
    BY <2>2 DEF EndVisits, CloseResults, Return, Cancel, Delivered
  <2> QED
    BY <2>1, <2>2
<1>3. RepliesAccounted(c)'
  BY <1>1 DEF Accounted, RepliesAccounted
<1>a. todo'[c] \subseteq todo[c]
  BY DEF EndVisits, CloseResults, Collect, Return, Cancel, IInv, TypeOK
<1>b. ResultsHaveReasons(c)'
  <2>1. \A i, j \in DOMAIN Delivered(c)' : Delivered(c)'[i].pod = Delivered(c)'[j].pod => i = j
    BY <1>2 DEF Accounted, ResultsHaveReasons
  <2> SUFFICES ASSUME NEW i \in DOMAIN Delivered(c)', NEW p \in Pods, Delivered(c)'[i].pod = p
               PROVE  /\ p \in ready[c] \ (todo'[c] \union refused[c])
                      /\ worker[c][p] \in Gone
                      /\ Delivered(c)'[i].ok <=> reply[c][p] = "ok"
    BY <1>1, <2>1 DEF ResultsHaveReasons
  <2> QED
    BY <1>2, <1>a DEF Accounted, ResultsHaveReasons
<1>4. CASE EndVisits(c)
  <2>1. /\ refused[c] = {} /\ todo'[c] = {}
        /\ todo[c] = {} \/ cancelled[c]
        /\ UNCHANGED cancelled /\ pc'[c] = "collecting"
        /\ \A p \in todo[c] : worker[c][p] = "none"
    BY <1>4 DEF EndVisits, IInv, TypeOK, UnvisitedHasNoWorker
  <2>2. ReturnsAccounted(c)'
    BY <2>1 DEF ReturnsAccounted
  <2>3. VisitsAccounted(c)'
    BY <1>1, <2>1 DEF Accounted, VisitsAccounted
  <2>4. NoneIsLost(c)'
    BY <1>1, <1>2, <2>1 DEF Accounted, NoneIsLost
  <2> QED
    BY <1>3, <1>b, <2>2, <2>3, <2>4 DEF Accounted
<1>5. CASE CloseResults(c) \/ Collect(c) \/ Cancel(c)
  <2>1. UNCHANGED <<pc, todo>> /\ (cancelled[c] => cancelled'[c])
    BY <1>5 DEF CloseResults, Collect, Cancel, IInv, TypeOK
  <2>2. VisitsAccounted(c)' /\ ReturnsAccounted(c)'
    BY <1>1, <2>1 DEF Accounted, VisitsAccounted, ReturnsAccounted
  <2>4. NoneIsLost(c)'
    BY <1>1, <1>2, <2>1 DEF Accounted, NoneIsLost
  <2> QED
    BY <1>3, <1>b, <2>2, <2>4 DEF Accounted
<1>6. CASE Return(c)
  <2>1. /\ UNCHANGED <<todo, cancelled, results, resultsCh, closed>>
        /\ pc[c] = "collecting" /\ pc'[c] = "returned"
        /\ resultsCh[c] = << >> /\ closed[c]
        /\ outcome'[c] = IF Failed(results[c]) THEN "all failed" ELSE "ok"
    BY <1>6 DEF Return, IInv, TypeOK
  <2>2. VisitsAccounted(c)'
    BY <1>1, <2>1 DEF Accounted, VisitsAccounted
  <2>3. ReturnsAccounted(c)'
    BY <2>1 DEF ReturnsAccounted
  <2>5. NoneIsLost(c)'
    BY <1>1, <1>2, <2>1 DEF Accounted, NoneIsLost
  <2> QED
    BY <1>3, <1>b, <2>2, <2>3, <2>5 DEF Accounted
<1> QED
  BY <1>4, <1>5, <1>6

\* A worker that has not reported yet moves on; or one that has gives its slot
\* back.
LEMMA WorkerMovesAccounted ==
    ASSUME IInv, NEW c \in Calls, Accounted(c), NEW p \in Pods,
           NEW from \in WorkerState \ {"none", "done"}, NEW to \in WorkerState \ {"none"},
           Move(c, p, from, to), from \in Gone <=> to \in Gone,
           NEW r \in Reply, reply' = [reply EXCEPT ![c][p] = r],
           from \in Gone => r = reply[c][p],
           to \in {"acquire", "admit", "sent"} => r = "none",
           UNCHANGED <<pc, ready, todo, refused, cancelled, resultsCh, closed, results,
                       outcome>>
    PROVE  Accounted(c)'
<1>1. Delivered(c)' = Delivered(c)
  BY DEF Delivered
<1>2. /\ worker[c][p] = from /\ worker'[c][p] = to /\ reply'[c][p] = r
      /\ \A q \in Pods \ {p} : worker'[c][q] = worker[c][q] /\ reply'[c][q] = reply[c][q]
  BY DEF Move, IInv, TypeOK
<1>3. pc[c] # "returned"
  BY <1>2 DEF Accounted, VisitsAccounted, ReturnsAccounted, IInv, NoSendAfterClose
<1>4. VisitsAccounted(c)'
  BY <1>2 DEF Accounted, VisitsAccounted
<1>5. RepliesAccounted(c)'
  BY <1>2 DEF Accounted, RepliesAccounted
<1>6. ResultsHaveReasons(c)'
  BY <1>1, <1>2 DEF Accounted, ResultsHaveReasons
<1>7. NoneIsLost(c)'
  <2>1. ready[c] \subseteq Pods
    BY DEF IInv, TypeOK
  <2> QED
    BY <1>1, <1>2, <2>1 DEF Accounted, NoneIsLost
<1> QED
  BY <1>3, <1>4, <1>5, <1>6, <1>7 DEF Accounted, ReturnsAccounted

LEMMA ReportAccounted ==
    ASSUME IInv, NEW c \in Calls, Accounted(c), NEW p \in Pods, Report(c, p)
    PROVE  Accounted(c)'
<1> DEFINE D == Delivered(c)
           E == Delivered(c)'
           isOk == reply[c][p] = "ok"
<1>1. /\ Send(c, p, isOk)
      /\ UNCHANGED <<pc, ready, todo, refused, cancelled, reply, closed, results, outcome>>
  BY DEF Report
<1>2. /\ worker[c][p] \in {"report", "abandon"}
      /\ worker'[c][p] \in {"release", "done"}
      /\ \A q \in Pods \ {p} : worker'[c][q] = worker[c][q]
  <2>1. \/ worker[c][p] = "report" /\ worker' = [worker EXCEPT ![c][p] = "release"]
        \/ worker[c][p] = "abandon" /\ worker' = [worker EXCEPT ![c][p] = "done"]
    BY DEF Report, Move
  <2>2. worker \in [Calls -> [Pods -> WorkerState]]
    BY DEF IInv, TypeOK
  <2> QED
    BY <2>1, <2>2
<1>a. /\ DOMAIN D = 1..Len(D) /\ Len(D) \in Nat
      /\ DOMAIN E = 1..(Len(D) + 1)
      /\ \A i \in 1..Len(D) : E[i] = D[i]
      /\ E[Len(D) + 1] = [pod |-> p, ok |-> isOk]
  <2>1. isOk \in BOOLEAN /\ TypeOK
    BY DEF IInv
  <2> QED
    BY <1>1, <2>1, SendDelivers
<1> HIDE DEF D, E, isOk
<1>3. E[Len(D) + 1].pod = p /\ E[Len(D) + 1].ok = isOk
  BY <1>a
<1>4. /\ p \in ready[c] \ (todo[c] \union refused[c])
      /\ \A i \in 1..Len(D) : D[i].pod # p
  BY <1>a, <1>2 DEF Accounted, VisitsAccounted, ResultsHaveReasons, D, Gone, IInv, UnvisitedHasNoWorker
<1>5. pc[c] # "returned"
  BY <1>2 DEF Accounted, VisitsAccounted, ReturnsAccounted, IInv, NoSendAfterClose
<1>6. VisitsAccounted(c)' /\ RepliesAccounted(c)' /\ ReturnsAccounted(c)'
  BY <1>1, <1>2, <1>5 DEF Accounted, VisitsAccounted, RepliesAccounted, ReturnsAccounted
<1>7. ResultsHaveReasons(c)'
  <2>1. \A i, j \in DOMAIN E : E[i].pod = E[j].pod => i = j
    BY <1>a, <1>3, <1>4 DEF Accounted, ResultsHaveReasons, D
  <2>2. ASSUME NEW i \in DOMAIN E, NEW q \in Pods, E[i].pod = q
        PROVE  /\ q \in ready[c] \ (todo[c] \union refused[c]) /\ worker'[c][q] \in Gone
               /\ E[i].ok <=> reply[c][q] = "ok"
    <3>1. CASE i = Len(D) + 1
      <4>1. q = p /\ E[i].ok = isOk
        BY <1>3, <2>2, <3>1
      <4> QED
        BY <1>2, <1>4, <4>1 DEF Gone, isOk
    <3>2. CASE i \in 1..Len(D)
      BY <1>a, <1>2, <1>4, <2>2, <3>2 DEF Accounted, ResultsHaveReasons, D
    <3> QED
      BY <1>a, <3>1, <3>2
  <2> QED
    BY <1>1, <2>1, <2>2 DEF ResultsHaveReasons, E
<1>8. NoneIsLost(c)'
  <2> SUFFICES ASSUME NEW q \in ready[c] \ (todo[c] \union refused[c]),
                      worker'[c][q] \in Gone, worker'[c][q] # "none" \/ ~cancelled[c]
               PROVE  \E i \in DOMAIN E : E[i].pod = q
    BY <1>1 DEF NoneIsLost, E
  <2>1. CASE q = p
    BY <1>a, <1>3, <2>1
  <2>2. CASE q # p
    <3>1. worker'[c][q] = worker[c][q]
      BY <1>2, <2>2 DEF IInv, TypeOK
    <3>2. PICK i \in DOMAIN D : D[i].pod = q
      BY <3>1 DEF Accounted, NoneIsLost, D
    <3> QED
      BY <1>a, <3>2
  <2> QED
    BY <2>1, <2>2
<1> QED
  BY <1>6, <1>7, <1>8 DEF Accounted

LEMMA WorkAccounted ==
    ASSUME IInv, NEW c \in Calls, Accounted(c), NEW p \in Pods, Work(c, p)
    PROVE  Accounted(c)'
<1>1. CASE Report(c, p)
  BY <1>1, ReportAccounted
<1>2. CASE \/ Acquire(c, p) \/ Abandon(c, p) \/ Refuse(c, p) \/ Request(c, p)
           \/ Answer(c, p) \/ Record(c, p) \/ Release(c, p)
  <2>1. UNCHANGED <<pc, ready, todo, refused, cancelled, resultsCh, closed, results, outcome>>
    BY <1>2 DEF Acquire, Abandon, Refuse, Request, Answer, Record, Release
  <2>2. /\ reply \in [Calls -> [Pods -> Reply]]
        /\ worker[c][p] \in {"acquire", "admit", "sent"} => reply[c][p] = "none"
    BY DEF IInv, TypeOK, Accounted, RepliesAccounted
  <2>3. \E from \in WorkerState \ {"none", "done"}, to \in WorkerState \ {"none"}, r \in Reply :
            /\ Move(c, p, from, to) /\ (from \in Gone <=> to \in Gone)
            /\ reply' = [reply EXCEPT ![c][p] = r]
            /\ from \in Gone => r = reply[c][p]
            /\ to \in {"acquire", "admit", "sent"} => r = "none"
    <3>1. CASE Abandon(c, p) \/ Refuse(c, p) \/ Answer(c, p)
      <4>1. \E r \in {"ok", "err"} : reply' = [reply EXCEPT ![c][p] = r]
        BY <3>1 DEF Abandon, Refuse, Answer
      <4> QED
        BY <3>1, <4>1 DEF Abandon, Refuse, Answer, WorkerState, Gone, Reply
    <3>2. CASE Acquire(c, p) \/ Request(c, p) \/ Record(c, p) \/ Release(c, p)
      <4>1. reply' = [reply EXCEPT ![c][p] = reply[c][p]] /\ reply[c][p] \in Reply
        BY <2>2, <3>2 DEF Acquire, Request, Record, Release
      <4>2. \/ Move(c, p, "acquire", "admit") /\ reply[c][p] = "none"
            \/ Move(c, p, "admit", "sent") /\ reply[c][p] = "none"
            \/ Move(c, p, "record", "report")
            \/ Move(c, p, "release", "done")
        BY <2>2, <3>2 DEF Acquire, Request, Record, Release, Move
      <4>3. PICK from \in {"acquire", "admit", "record", "release"},
                 to \in {"admit", "sent", "report", "done"} :
              /\ Move(c, p, from, to) /\ (from \in Gone <=> to \in Gone)
              /\ to \in {"acquire", "admit", "sent"} => reply[c][p] = "none"
        BY <4>2 DEF Gone
      <4>4. from \in WorkerState \ {"none", "done"} /\ to \in WorkerState \ {"none"}
        BY DEF WorkerState
      <4> QED
        BY <4>1, <4>3, <4>4
    <3> QED
      BY <1>2, <3>1, <3>2
  <2> QED
    BY <2>1, <2>3, WorkerMovesAccounted
<1> QED
  BY <1>1, <1>2 DEF Work

LEMMA InitAnswersInv == Init => AnswersInv
<1> SUFFICES ASSUME Init, NEW c \in Calls PROVE Accounted(c)
  BY DEF AnswersInv
<1>1. DOMAIN Delivered(c) = {}
  <2>1. Delivered(c) = << >>
    BY DEF Init, Delivered
  <2> QED
    BY <2>1
<1>2. VisitsAccounted(c) /\ RepliesAccounted(c) /\ ReturnsAccounted(c)
  BY DEF Init, VisitsAccounted, RepliesAccounted, ReturnsAccounted
<1>3. ResultsHaveReasons(c) /\ NoneIsLost(c)
  BY <1>1 DEF Init, ResultsHaveReasons, NoneIsLost
<1> QED
  BY <1>2, <1>3 DEF Accounted

LocalsOf(c) == <<pc[c], ready[c], todo[c], refused[c], cancelled[c], worker[c],
                 reply[c], resultsCh[c], closed[c], results[c], outcome[c]>>

\* A call that begins touches no locals but its own.
LEMMA FreshIsSeparate ==
    ASSUME TypeOK, NEW c \in Calls, NEW rs, FreshLocals(c, rs), NEW d \in Calls \ {c}
    PROVE  UNCHANGED <<ready[d], refused[d], cancelled[d], worker[d],
                       reply[d], resultsCh[d], closed[d], results[d]>>
<1>1. UNCHANGED <<ready[d], refused[d], cancelled[d], worker[d]>>
  BY DEF TypeOK, FreshLocals
<1>2. UNCHANGED <<reply[d], resultsCh[d], closed[d], results[d]>>
  BY DEF TypeOK, FreshLocals
<1> QED
  BY <1>1, <1>2

\* No step of one call touches the locals of another.
LEMMA CallsAreSeparate ==
    ASSUME TypeOK, NEW c \in Calls,
           Call(c) \/ Loop(c) \/ CloseResults(c) \/ (\E p \in Pods : Work(c, p)),
           NEW d \in Calls \ {c}
    PROVE  UNCHANGED LocalsOf(d)
<1> USE DEF LocalsOf
<1>1. CASE Call(c)
  <2>1. CASE \E h \in Handlers, rs \in SUBSET Pods : Start(c, h, rs)
    <3>1. \E rs : FreshLocals(c, rs)
      BY <2>1 DEF Start
    <3>2. UNCHANGED <<pc[d], todo[d], outcome[d]>>
      BY <2>1 DEF TypeOK, Start
    <3> QED
      BY <3>1, <3>2, FreshIsSeparate
  <2>2. CASE \E h \in Handlers : ListFails(c, h)
    <3>1. FreshLocals(c, {})
      BY <2>2 DEF ListFails
    <3>2. UNCHANGED <<pc[d], todo[d], outcome[d]>>
      BY <2>2 DEF TypeOK, ListFails
    <3> QED
      BY <3>1, <3>2, FreshIsSeparate
  <2>3. CASE Cancel(c)
    BY <2>3 DEF TypeOK, Cancel
  <2> QED
    BY <1>1, <2>1, <2>2, <2>3 DEF Call
<1>2. CASE Loop(c) \/ CloseResults(c)
  <2>1. CASE \E p \in Pods : SkipUnready(c, p) \/ VisitRefused(c, p) \/ VisitAdmitted(c, p)
    BY <2>1 DEF TypeOK, SkipUnready, VisitRefused, VisitAdmitted, Visiting
  <2>2. CASE \E p \in Pods : ReportRefused(c, p)
    BY <2>2 DEF TypeOK, ReportRefused, Send
  <2>3. CASE EndVisits(c) \/ CloseResults(c)
    BY <2>3 DEF TypeOK, EndVisits, CloseResults
  <2>4. CASE Collect(c) \/ Return(c)
    BY <2>4 DEF TypeOK, Collect, Return
  <2> QED
    BY <1>2, <2>1, <2>2, <2>3, <2>4 DEF Loop
<1>3. CASE \E p \in Pods : Work(c, p)
  <2> PICK p \in Pods : Work(c, p)
    BY <1>3
  <2>1. CASE Acquire(c, p) \/ Abandon(c, p) \/ Refuse(c, p) \/ Answer(c, p)
    BY <2>1 DEF TypeOK, Acquire, Abandon, Refuse, Answer, Move
  <2>2. CASE Request(c, p) \/ Record(c, p) \/ Release(c, p)
    BY <2>2 DEF TypeOK, Request, Record, Release, Move
  <2>3. CASE Report(c, p)
    BY <2>3 DEF TypeOK, Report, Send, Move
  <2> QED
    BY <2>1, <2>2, <2>3 DEF Work
<1> QED
  BY <1>1, <1>2, <1>3

LEMMA NextAnswersInv == IInv /\ AnswersInv /\ [Next]_vars => AnswersInv'
<1> SUFFICES ASSUME IInv, AnswersInv, [Next]_vars, NEW d \in Calls
             PROVE  Accounted(d)'
  BY DEF AnswersInv
<1>1. Accounted(d)
  BY DEF AnswersInv
<1>2. ASSUME NEW c \in Calls,
             Call(c) \/ Loop(c) \/ CloseResults(c) \/ (\E p \in Pods : Work(c, p))
      PROVE  Accounted(d)'
  <2>1. CASE d # c
    BY <1>1, <1>2, <2>1, CallsAreSeparate, OthersAccounted DEF LocalsOf, IInv
  <2>2. CASE d = c
    <3>1. CASE Call(d)
      BY <1>1, <3>1, StartAccounted, CollectAccounted DEF Call
    <3>2. CASE Loop(d) \/ CloseResults(d)
      BY <1>1, <3>2, VisitAccounted, ReportRefusedAccounted, CollectAccounted DEF Loop
    <3>3. CASE \E p \in Pods : Work(d, p)
      BY <1>1, <3>3, WorkAccounted
    <3> QED
      BY <1>2, <2>2, <3>1, <3>2, <3>3
  <2> QED
    BY <2>1, <2>2
<1>3. CASE UNCHANGED callVars
  BY <1>1, <1>3, OthersAccounted DEF callVars
<1>4. CASE \/ UNCHANGED vars
           \/ \E n \in Nodes : CrashOrRestart(n)
           \/ \E h \in Handlers, n \in Nodes : Timeout(h, n)
  BY <1>3, <1>4 DEF vars, CrashOrRestart, Timeout
<1> QED
  BY <1>2, <1>4 DEF Next

LEMMA RouterInvariant == Spec => [](IInv /\ AnswersInv)
BY InitIInv, NextIInv, InitAnswersInv, NextAnswersInv, PTL DEF Spec

LEMMA AtMostOne ==
    ASSUME NEW S, \A i, j \in S : i = j
    PROVE  Cardinality(S) <= 1
<1>1. CASE S = {}
  <2>1. Cardinality(S) = 0
    BY <1>1, FS_EmptySet, Zenon
  <2> QED
    BY <2>1
<1>2. CASE S # {}
  <2>1. PICK i \in S : TRUE
    BY <1>2
  <2>2. S = {i}
    BY <2>1
  <2>3. Cardinality(S) = 1
    BY <2>2, FS_Singleton, Zenon
  <2> QED
    BY <2>3
<1> QED
  BY <1>1, <1>2

\* RouteToAllNodes returns exactly one result for every Ready pod, whether the
\* loop or the worker reported it, and none for the others; only a cancelled
\* call leaves pods out.
THEOREM OneResultEach == Spec => []OneResultPerReadyPod
<1>1. IInv /\ AnswersInv => OneResultPerReadyPod
  <2> SUFFICES ASSUME IInv, AnswersInv, NEW c \in Calls, NEW p \in Pods,
                      pc[c] = "returned", outcome[c] # "list failed"
               PROVE  /\ Cardinality(Reports(c, p)) <= 1
                      /\ p \notin ready[c] => Reports(c, p) = {}
                      /\ p \in ready[c] /\ ~cancelled[c] => Reports(c, p) # {}
    BY DEF OneResultPerReadyPod
  <2>1. /\ Accounted(c) /\ closed[c] /\ resultsCh[c] = << >>
        /\ todo[c] = {} /\ refused[c] = {}
    BY DEF AnswersInv, Accounted, ReturnsAccounted, VisitsAccounted
  <2>2. worker[c][p] \in {"none", "done"}
    BY <2>1 DEF IInv, NoSendAfterClose
  <2>3. Delivered(c) = results[c]
    BY <2>1, DrainedIsDelivered DEF IInv
  <2>4. \A i, j \in Reports(c, p) : i = j
    <3> SUFFICES ASSUME NEW i \in Reports(c, p), NEW j \in Reports(c, p) PROVE i = j
      OBVIOUS
    <3>1. \A k \in Reports(c, p) : k \in DOMAIN results[c] /\ results[c][k].pod = p
      BY DEF Reports
    <3>2. \A k, l \in DOMAIN results[c] : results[c][k].pod = results[c][l].pod => k = l
      BY <2>1, <2>3 DEF Accounted, ResultsHaveReasons
    <3> QED
      BY <3>1, <3>2
  <2>5. Cardinality(Reports(c, p)) <= 1
    BY <2>4, AtMostOne, Zenon
  <2>6. p \notin ready[c] => Reports(c, p) = {}
    <3>1. \A i \in DOMAIN results[c] : results[c][i].pod = p => p \in ready[c]
      BY <2>1, <2>3 DEF Accounted, ResultsHaveReasons
    <3> QED
      BY <3>1 DEF Reports
  <2>7. p \in ready[c] /\ ~cancelled[c] => Reports(c, p) # {}
    BY <2>1, <2>2, <2>3 DEF Accounted, NoneIsLost, Gone, Reports
  <2> QED
    BY <2>5, <2>6, <2>7
<1> QED
  BY <1>1, RouterInvariant, PTL

\* "Returns partial success": the answer of one agent is in the results, as a
\* success, and makes the call one, whatever the others did and even if the
\* call was cancelled after it.
THEOREM AnswersComeBack == Spec => []AnswersAreReturned
<1>1. IInv /\ AnswersInv => AnswersAreReturned
  <2> SUFFICES ASSUME IInv, AnswersInv, NEW c \in Calls, NEW p \in Pods,
                      pc[c] = "returned", reply[c][p] = "ok"
               PROVE  outcome[c] = "ok" /\ \E i \in Reports(c, p) : results[c][i].ok
    BY DEF AnswersAreReturned
  <2>1. /\ Accounted(c) /\ resultsCh[c] = << >>
        /\ todo[c] = {} /\ refused[c] = {}
    BY DEF AnswersInv, Accounted, ReturnsAccounted, VisitsAccounted
  <2>2. worker[c][p] \notin {"none", "acquire", "admit", "sent"}
    BY <2>1 DEF Accounted, RepliesAccounted
  <2>3. p \in ready[c]
    BY <2>2, <2>1 DEF Accounted, VisitsAccounted
  <2>4. closed[c] /\ outcome[c] = IF Failed(results[c]) THEN "all failed" ELSE "ok"
    BY <2>1, <2>3 DEF Accounted, ReturnsAccounted
  <2>5. worker[c][p] = "done"
    BY <2>2, <2>4 DEF IInv, NoSendAfterClose
  <2>6. Delivered(c) = results[c]
    BY <2>1, DrainedIsDelivered DEF IInv
  <2>7. PICK i \in DOMAIN results[c] : results[c][i].pod = p
    BY <2>1, <2>3, <2>5, <2>6 DEF Accounted, NoneIsLost, Gone
  <2>8. results[c][i].ok
    BY <2>1, <2>6, <2>7 DEF Accounted, ResultsHaveReasons
  <2>9. ~Failed(results[c])
    BY <2>7, <2>8 DEF Failed
  <2> QED
    BY <2>4, <2>7, <2>8, <2>9 DEF Reports
<1> QED
  BY <1>1, RouterInvariant, PTL

===============================================================================

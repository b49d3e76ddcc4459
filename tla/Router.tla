-------------------------------- MODULE Router --------------------------------
(***************************************************************************)
(* The gateway's fan-out, RouteToAllNodes (pkg/gateway/router.go), over    *)
(* the circuit breakers of CircuitBreaker.                                 *)
(*                                                                         *)
(* A call is one execution of RouteToAllNodes, made by the proxy handler   *)
(* handler[c].  Its loop visits the listed agent pods, in the order the    *)
(* API server happened to return; a pod whose circuit admits it gets a     *)
(* worker goroutine.  A worker waits for a slot of the call's semaphore,   *)
(* asks the breaker a second time (routeToGPUNode), sends the request,     *)
(* records the outcome, reports on resultsCh and gives the slot back.      *)
(* Once the loop is over a closer goroutine waits for the workers and      *)
(* closes resultsCh, which ends the collecting loop.  Every step between   *)
(* two points where another goroutine can run is an action.                *)
(*                                                                         *)
(* The environment crashes and restarts agents, and cancels the context of *)
(* a call (the MCP client went away or the server is shutting down).       *)
(***************************************************************************)
EXTENDS CircuitBreaker, Sequences, FiniteSets

CONSTANTS
    Calls,           \* executions of RouteToAllNodes that may overlap
    Pods,            \* the agent pods ListGPUNodes returns
    NodeOf,          \* the node each pod runs on; a rolling update has two
                     \* pods of a node in the list at once
    MaxConcurrency,  \* slots of a call's semaphore
    Crashable,       \* nodes whose agent may stop answering
    Cancellable      \* calls whose context may be cancelled

ASSUME RouterAssumption ==
    /\ IsFiniteSet(Pods)
    /\ NodeOf \in [Pods -> Nodes]
    /\ MaxConcurrency \in Nat \ {0}
    /\ Crashable \subseteq Nodes
    /\ Cancellable \subseteq Calls

VARIABLES
    pc,         \* where the goroutine of the call is
    handler,    \* the proxy handler that made the call
    ready,      \* the pods that were Ready when the call listed them
    todo,       \* the pods the loop has not visited yet
    refused,    \* the pod whose open circuit the loop is about to report
    cancelled,  \* ctx.Err() # nil
    worker,     \* where the goroutine of each pod is
    reply,      \* what routeToGPUNode has returned to the worker so far
    sem,        \* slots taken
    resultsCh,  \* the buffered results channel
    closed,     \* resultsCh is closed
    results,    \* the slice the call returns
    outcome,    \* what the last call returned as its error
    up,         \* the agent on this node answers
    probes      \* history: the requests sent in the current half-open period

callVars == <<pc, handler, ready, todo, refused, cancelled, worker, reply, sem,
              resultsCh, closed, results, outcome>>
vars == <<cbVars, callVars, up, probes>>

WorkerState == {"none", "acquire", "admit", "sent", "record", "report",
                "abandon", "release", "done"}
Reply == {"none", "ok", "err"}
NodeResult == [pod : Pods, ok : BOOLEAN]

\* The states in which a worker holds a slot of the semaphore.
Holding == {"admit", "sent", "record", "report", "release"}

Holders(c) == {p \in Pods : worker[c][p] \in Holding}

ResultsCapOne == 1

\* cap(resultsCh): len(nodes).
ResultsCap == Cardinality(Pods)

TypeOK ==
    /\ CBTypeOK
    /\ pc \in [Calls -> {"idle", "visiting", "collecting", "returned"}]
    /\ handler \in [Calls -> Handlers]
    /\ ready \in [Calls -> SUBSET Pods]
    /\ todo \in [Calls -> SUBSET Pods]
    /\ refused \in [Calls -> SUBSET Pods]
    /\ cancelled \in [Calls -> BOOLEAN]
    /\ worker \in [Calls -> [Pods -> WorkerState]]
    /\ reply \in [Calls -> [Pods -> Reply]]
    /\ sem \in [Calls -> 0..MaxConcurrency]
    /\ resultsCh \in [Calls -> Seq(NodeResult)]
    /\ closed \in [Calls -> BOOLEAN]
    /\ results \in [Calls -> Seq(NodeResult)]
    /\ outcome \in [Calls -> {"none", "ok", "all failed", "list failed"}]
    /\ up \in [Nodes -> BOOLEAN]
    /\ probes \in [Handlers -> [Nodes -> SUBSET (Calls \X Pods)]]

Init ==
    /\ CBInit
    /\ pc = [c \in Calls |-> "idle"]
    /\ handler \in [Calls -> Handlers]
    /\ ready = [c \in Calls |-> {}]
    /\ todo = [c \in Calls |-> {}]
    /\ refused = [c \in Calls |-> {}]
    /\ cancelled = [c \in Calls |-> FALSE]
    /\ worker = [c \in Calls |-> [p \in Pods |-> "none"]]
    /\ reply = [c \in Calls |-> [p \in Pods |-> "none"]]
    /\ sem = [c \in Calls |-> 0]
    /\ resultsCh = [c \in Calls |-> << >>]
    /\ closed = [c \in Calls |-> FALSE]
    /\ results = [c \in Calls |-> << >>]
    /\ outcome = [c \in Calls |-> "none"]
    /\ up = [n \in Nodes |-> TRUE]
    /\ probes = [h \in Handlers |-> [n \in Nodes |-> {}]]

-------------------------------------------------------------------------------
(* The goroutine of the call *)

\* Idle calls and calls that returned may be made (again): the identity of a
\* call is reused, its locals are new.
Startable(c) == pc[c] \in {"idle", "returned"}

FreshLocals(c, readyPods) ==
    /\ ready' = [ready EXCEPT ![c] = readyPods]
    /\ refused' = [refused EXCEPT ![c] = {}]
    /\ cancelled' = [cancelled EXCEPT ![c] = FALSE]
    /\ worker' = [worker EXCEPT ![c] = [p \in Pods |-> "none"]]
    /\ reply' = [reply EXCEPT ![c] = [p \in Pods |-> "none"]]
    /\ sem' = [sem EXCEPT ![c] = 0]
    /\ resultsCh' = [resultsCh EXCEPT ![c] = << >>]
    /\ closed' = [closed EXCEPT ![c] = FALSE]
    /\ results' = [results EXCEPT ![c] = << >>]

\* A handler lists the pods, some of which are Ready.
Start(c, h, readyPods) ==
    /\ Startable(c)
    /\ pc' = [pc EXCEPT ![c] = "visiting"]
    /\ handler' = [handler EXCEPT ![c] = h]
    /\ todo' = [todo EXCEPT ![c] = Pods]
    /\ outcome' = [outcome EXCEPT ![c] = "none"]
    /\ FreshLocals(c, readyPods)
    /\ UNCHANGED <<cbVars, up, probes>>

\* ListGPUNodes fails and so does the call, before anything else happens.
ListFails(c, h) ==
    /\ Startable(c)
    /\ pc' = [pc EXCEPT ![c] = "returned"]
    /\ handler' = [handler EXCEPT ![c] = h]
    /\ todo' = [todo EXCEPT ![c] = {}]
    /\ outcome' = [outcome EXCEPT ![c] = "list failed"]
    /\ FreshLocals(c, {})
    /\ UNCHANGED <<cbVars, up, probes>>

\* resultsCh <- result: blocks while the buffer is full.
Send(c, p, isOk) ==
    /\ Len(resultsCh[c]) < ResultsCap
    /\ resultsCh' = [resultsCh EXCEPT ![c] = Append(@, [pod |-> p, ok |-> isOk])]

\* The loop body is entered for p: the context was not cancelled.
Visiting(c, p) ==
    /\ pc[c] = "visiting"
    /\ refused[c] = {}
    /\ ~cancelled[c]
    /\ p \in todo[c]
    /\ todo' = [todo EXCEPT ![c] = @ \ {p}]

SkipUnready(c, p) ==
    /\ Visiting(c, p)
    /\ p \notin ready[c]
    /\ UNCHANGED <<cbVars, pc, handler, ready, refused, cancelled, worker,
                   reply, sem, resultsCh, closed, results, outcome, up, probes>>

\* Allow refuses: the call's own goroutine is to report the open circuit.
VisitRefused(c, p) ==
    /\ Visiting(c, p)
    /\ p \in ready[c]
    /\ ~Admits(handler[c], NodeOf[p])
    /\ Allow(handler[c], NodeOf[p])
    /\ refused' = [refused EXCEPT ![c] = {p}]
    /\ UNCHANGED <<pc, handler, ready, cancelled, worker, reply, sem, resultsCh,
                   closed, results, outcome, up, probes>>

ReportRefused(c, p) ==
    /\ pc[c] = "visiting"
    /\ p \in refused[c]
    /\ refused' = [refused EXCEPT ![c] = {}]
    /\ Send(c, p, FALSE)
    /\ UNCHANGED <<cbVars, pc, handler, ready, todo, cancelled, worker, reply,
                   sem, closed, results, outcome, up, probes>>

\* Allow admits: wg.Add(1) and the worker is started.
VisitAdmitted(c, p) ==
    /\ Visiting(c, p)
    /\ p \in ready[c]
    /\ Admits(handler[c], NodeOf[p])
    /\ Allow(handler[c], NodeOf[p])
    /\ worker' = [worker EXCEPT ![c][p] = "acquire"]
    /\ UNCHANGED <<pc, handler, ready, refused, cancelled, reply, sem,
                   resultsCh, closed, results, outcome, up, probes>>

\* The loop ends, at its end or by the break on a cancelled context; the
\* closer goroutine is started and the call begins to collect.
EndVisits(c) ==
    /\ pc[c] = "visiting"
    /\ refused[c] = {}
    /\ todo[c] = {} \/ cancelled[c]
    /\ todo' = [todo EXCEPT ![c] = {}]
    /\ pc' = [pc EXCEPT ![c] = "collecting"]
    /\ UNCHANGED <<cbVars, handler, ready, refused, cancelled, worker, reply,
                   sem, resultsCh, closed, results, outcome, up, probes>>

AllWorkersDoneLateAdd(c) ==
    \A p \in Pods : worker[c][p] \in {"none", "acquire", "done"}

\* wg.Wait() returned: every worker that was started is done.
AllWorkersDone(c) == \A p \in Pods : worker[c][p] \in {"none", "done"}

CloseResults(c) ==
    /\ pc[c] = "collecting"
    /\ ~closed[c]
    /\ AllWorkersDone(c)
    /\ closed' = [closed EXCEPT ![c] = TRUE]
    /\ UNCHANGED <<cbVars, pc, handler, ready, todo, refused, cancelled, worker,
                   reply, sem, resultsCh, results, outcome, up, probes>>

Collect(c) ==
    /\ pc[c] = "collecting"
    /\ resultsCh[c] # << >>
    /\ results' = [results EXCEPT ![c] = Append(@, Head(resultsCh[c]))]
    /\ resultsCh' = [resultsCh EXCEPT ![c] = Tail(@)]
    /\ UNCHANGED <<cbVars, pc, handler, ready, todo, refused, cancelled, worker,
                   reply, sem, closed, outcome, up, probes>>

FailedIfAnyFailed(rs) == \E i \in DOMAIN rs : ~rs[i].ok

\* successCount == 0 && len(results) > 0
Failed(rs) == rs # << >> /\ \A i \in DOMAIN rs : ~rs[i].ok

\* The range over resultsCh ends.
Return(c) ==
    /\ pc[c] = "collecting"
    /\ resultsCh[c] = << >>
    /\ closed[c]
    /\ pc' = [pc EXCEPT ![c] = "returned"]
    /\ outcome' = [outcome EXCEPT ![c] =
                     IF Failed(results[c]) THEN "all failed" ELSE "ok"]
    /\ UNCHANGED <<cbVars, handler, ready, todo, refused, cancelled, worker,
                   reply, sem, resultsCh, closed, results, up, probes>>

-------------------------------------------------------------------------------
(* The worker goroutine of a pod *)

Move(c, p, from, to) ==
    /\ worker[c][p] = from
    /\ worker' = [worker EXCEPT ![c][p] = to]

SlotFreeOneMore(c) == sem[c] <= MaxConcurrency

SlotFree(c) == sem[c] < MaxConcurrency

Acquire(c, p) ==
    /\ Move(c, p, "acquire", "admit")
    /\ SlotFree(c)
    /\ sem' = [sem EXCEPT ![c] = @ + 1]
    /\ UNCHANGED <<cbVars, pc, handler, ready, todo, refused, cancelled, reply,
                   resultsCh, closed, results, outcome, up, probes>>

\* ctx.Done() wins the select: the worker reports without asking the breaker
\* again and without recording anything.
Abandon(c, p) ==
    /\ Move(c, p, "acquire", "abandon")
    /\ cancelled[c]
    /\ reply' = [reply EXCEPT ![c][p] = "err"]
    /\ UNCHANGED <<cbVars, pc, handler, ready, todo, refused, cancelled, sem,
                   resultsCh, closed, results, outcome, up, probes>>

\* routeToGPUNode asks the breaker a second time and is refused: the circuit
\* opened since the loop asked.
Refuse(c, p) ==
    /\ Move(c, p, "admit", "report")
    /\ ~Admits(handler[c], NodeOf[p])
    /\ Allow(handler[c], NodeOf[p])
    /\ reply' = [reply EXCEPT ![c][p] = "err"]
    /\ UNCHANGED <<pc, handler, ready, todo, refused, cancelled, sem, resultsCh,
                   closed, results, outcome, up, probes>>

\* ... or is admitted and sends the request.
Request(c, p) ==
    LET h == handler[c]  n == NodeOf[p] IN
    /\ Move(c, p, "admit", "sent")
    /\ Admits(h, n)
    /\ Allow(h, n)
    /\ probes' = IF state'[h][n] = "half-open"
                 THEN [probes EXCEPT ![h][n] = @ \union {<<c, p>>}]
                 ELSE probes
    /\ UNCHANGED <<pc, handler, ready, todo, refused, cancelled, reply, sem,
                   resultsCh, closed, results, outcome, up>>

\* The transport returns: a response, if the agent answers, or an error, if it
\* does not or the context was cancelled meanwhile.  The retries of CallMCP
\* are inside this step.
Answer(c, p) ==
    /\ Move(c, p, "sent", "record")
    /\ \/ /\ up[NodeOf[p]]
          /\ reply' = [reply EXCEPT ![c][p] = "ok"]
       \/ /\ ~up[NodeOf[p]] \/ cancelled[c]
          /\ reply' = [reply EXCEPT ![c][p] = "err"]
    /\ UNCHANGED <<cbVars, pc, handler, ready, todo, refused, cancelled, sem,
                   resultsCh, closed, results, outcome, up, probes>>

\* routeToGPUNode tells the breaker: any error counts, whoever caused it.
Record(c, p) ==
    LET h == handler[c]  n == NodeOf[p] IN
    /\ Move(c, p, "record", "report")
    /\ IF reply[c][p] = "ok" THEN RecordSuccess(h, n) ELSE RecordFailure(h, n)
    /\ probes' = [probes EXCEPT ![h][n] =
                    IF state'[h][n] = "half-open" THEN @ ELSE {}]
    /\ UNCHANGED <<pc, handler, ready, todo, refused, cancelled, reply, sem,
                   resultsCh, closed, results, outcome, up>>

\* resultsCh <- result, the last statement of the worker; the deferred calls
\* follow.  A worker that never had a slot is done with it.
Report(c, p) ==
    /\ \/ Move(c, p, "report", "release")
       \/ Move(c, p, "abandon", "done")
    /\ Send(c, p, reply[c][p] = "ok")
    /\ UNCHANGED <<cbVars, pc, handler, ready, todo, refused, cancelled, reply,
                   sem, closed, results, outcome, up, probes>>

ReleaseLeaks(c, p) ==
    /\ Move(c, p, "release", "done")
    /\ UNCHANGED <<cbVars, pc, handler, ready, todo, refused, cancelled, reply,
                   sem, resultsCh, closed, results, outcome, up, probes>>

\* The deferred <-sem and wg.Done().
Release(c, p) ==
    /\ Move(c, p, "release", "done")
    /\ sem' = [sem EXCEPT ![c] = @ - 1]
    /\ UNCHANGED <<cbVars, pc, handler, ready, todo, refused, cancelled, reply,
                   resultsCh, closed, results, outcome, up, probes>>

-------------------------------------------------------------------------------
(* The environment *)

Cancel(c) ==
    /\ c \in Cancellable
    /\ pc[c] \in {"visiting", "collecting"}
    /\ ~cancelled[c]
    /\ cancelled' = [cancelled EXCEPT ![c] = TRUE]
    /\ UNCHANGED <<cbVars, pc, handler, ready, todo, refused, worker, reply,
                   sem, resultsCh, closed, results, outcome, up, probes>>

CrashOrRestart(n) ==
    /\ n \in Crashable
    /\ up' = [up EXCEPT ![n] = ~@]
    /\ UNCHANGED <<cbVars, callVars, probes>>

Timeout(h, n) ==
    /\ Elapse(h, n)
    /\ UNCHANGED <<callVars, up, probes>>

-------------------------------------------------------------------------------
Call(c) ==
    \/ \E h \in Handlers, readyPods \in SUBSET Pods : Start(c, h, readyPods)
    \/ \E h \in Handlers : ListFails(c, h)
    \/ Cancel(c)

Loop(c) ==
    \/ \E p \in Pods : \/ SkipUnready(c, p)
                       \/ VisitRefused(c, p) \/ ReportRefused(c, p)
                       \/ VisitAdmitted(c, p)
    \/ EndVisits(c)
    \/ Collect(c)
    \/ Return(c)

Work(c, p) ==
    \/ Acquire(c, p) \/ Abandon(c, p) \/ Refuse(c, p) \/ Request(c, p)
    \/ Answer(c, p) \/ Record(c, p) \/ Report(c, p) \/ Release(c, p)

Next ==
    \/ \E c \in Calls : Call(c) \/ Loop(c) \/ CloseResults(c)
    \/ \E c \in Calls, p \in Pods : Work(c, p)
    \/ \E n \in Nodes : CrashOrRestart(n)
    \/ \E h \in Handlers, n \in Nodes : Timeout(h, n)

\* The Go scheduler runs every goroutine that can take a step, every request
\* ends (the HTTP client and the exec stream time out after 60 seconds), and
\* the clock advances.  Nothing is assumed of the environment: calls need not
\* be made, cancelled contexts and crashes need not happen.
Fairness ==
    /\ \A c \in Calls : WF_vars(Loop(c)) /\ WF_vars(CloseResults(c))
    /\ \A c \in Calls, p \in Pods : WF_vars(Work(c, p))
    /\ \A h \in Handlers, n \in Nodes : WF_vars(Timeout(h, n))

Spec == Init /\ [][Next]_vars

FairSpec == Spec /\ Fairness

-------------------------------------------------------------------------------
(* Safety properties *)

\* The semaphore does its work: of the workers of a call no more than
\* MaxConcurrency are between asking the breaker and reporting, and the slots
\* taken are exactly theirs, so that none leaks on a path that reports an
\* error (a refused or a failed request, a cancelled context).
SlotsAreHeld ==
    \A c \in Calls :
        /\ sem[c] = Cardinality(Holders(c))
        /\ sem[c] <= MaxConcurrency

\* No goroutine sends on resultsCh once the closer has closed it (a panic in
\* Go), although a worker is started by the loop, reports on its own time and
\* the closer runs beside both.
NoSendAfterClose ==
    \A c \in Calls :
        closed[c] => /\ pc[c] # "visiting"
                     /\ \A p \in Pods : worker[c][p] \in {"none", "done"}

Reports(c, p) == {i \in DOMAIN results[c] : results[c][i].pod = p}

\* What a call returns: one result for every Ready pod, none for the others,
\* none lost and none twice, whichever of the loop and the worker reported it;
\* a cancelled call may leave pods out.
OneResultPerReadyPod ==
    \A c \in Calls : pc[c] = "returned" /\ outcome[c] # "list failed" =>
        \A p \in Pods :
            /\ Cardinality(Reports(c, p)) <= 1
            /\ p \notin ready[c] => Reports(c, p) = {}
            /\ p \in ready[c] /\ ~cancelled[c] => Reports(c, p) # {}

\* "Returns partial success: results from healthy nodes even if some fail":
\* a call of which one agent answered does not fail, and returns that answer
\* as a success, even if its context was cancelled after the answer.
AnswersAreReturned ==
    \A c \in Calls : pc[c] = "returned" =>
        \A p \in Pods : reply[c][p] = "ok" =>
            /\ outcome[c] = "ok"
            /\ \E i \in Reports(c, p) : results[c][i].ok

\* "CircuitHalfOpen allows one test request through" (circuit_breaker.go:20):
\* of the requests sent since a circuit half-opened, no second one.
HalfOpenAllowsOne ==
    \A h \in Handlers, n \in Nodes : Cardinality(probes[h][n]) <= 1

(* Liveness properties *)

\* Every call returns: its loop is never stuck on a full results channel that
\* nobody reads yet, and no worker keeps the closer waiting.
EveryCallReturns == \A c \in Calls : pc[c] = "visiting" ~> pc[c] = "returned"

\* A circuit is no trap: if from some time on a node's agent answers, no call
\* under way is cancelled, and calls of a handler visit its pod again and again,
\* the handler's circuit for the node is closed in the end and stays so, whatever
\* failures of before that time are still recorded late.
RecoveredIsReadmitted ==
    \A h \in Handlers, p \in Pods :
        /\ <>[]up[NodeOf[p]]
        /\ <>[](\A c \in Calls : cancelled[c] => pc[c] = "returned")
        /\ []<>(\E c \in Calls : handler[c] = h /\ p \in todo[c] \cap ready[c]
                                  /\ pc[c] = "visiting")
        => <>[](state[h][NodeOf[p]] = "closed")
===============================================================================

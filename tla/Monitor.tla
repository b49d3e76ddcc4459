-------------------------------- MODULE Monitor --------------------------------
(***************************************************************************)
(* From an event to an incident: the XID watcher (XidWatcher), the watcher *)
(* of Kubernetes events (K8sWatcher), and the automatic correlation        *)
(* registered with both (RegisterAutoCorrelation and Correlate in          *)
(* pkg/events/correlator.go).                                              *)
(*                                                                         *)
(* A registration is one call of RegisterAutoCorrelation.  Its handlers    *)
(* start a correlation for every critical event; a correlation reads the   *)
(* buffer of one watcher after the other and, if the registration was not  *)
(* cancelled, calls back.  The cleanup cancels the registration and waits. *)
(*                                                                         *)
(* Every event lies in the time window of every other: the model is about  *)
(* order and concurrency, not about the width of the window.               *)
(***************************************************************************)
EXTENDS Naturals, SequencesExt

CONSTANTS
    Registrations,
    Wirings,           \* the watchers a correlator may be given: sets of Source
    StopAll,           \* bound of the model: whether watchers are stopped when
                       \* the correlator has both; one alone always is
    XidThreads, XidCapacity, XidStarts, XidEvents, XidUnread,
    CriticalXids,      \* XID events of severity critical or fatal
    K8sThreads, K8sCapacity, K8sStarts, K8sUpdates,
    K8sEvents, RelevantK8s,
    CriticalK8s        \* warnings of reason OOMKilled or Failed

VARIABLES
    xRunning, xStopCh, xClosed, xThread, xLoop, xTold, xUnread, xLogged,
    xBuffer, xHandlers, xEvent, xCalls,
    kRunning, kSynced, kStopCh, kClosed, kThread, kInformer, kWaiter, kQueue,
    kStored, kUpdates, kBuffer, kHandlers, kEvent, kCalls,
    wired,      \* the watchers that are not nil
    phase,      \* where the owner of each registration is
    cancelled,  \* its context is
    entered,    \* the watchers whose handler has passed its context check
    work        \* the correlations that were started, in that order

X == INSTANCE XidWatcher WITH
        Threads <- XidThreads, Handlers <- Registrations,
        Capacity <- XidCapacity, MaxStarts <- XidStarts,
        MaxEvents <- XidEvents, MaxUnread <- XidUnread,
        running <- xRunning, stopCh <- xStopCh, closedChs <- xClosed,
        thread <- xThread, loop <- xLoop, told <- xTold, unread <- xUnread,
        logged <- xLogged, buffer <- xBuffer, handlers <- xHandlers,
        event <- xEvent, calls <- xCalls

K == INSTANCE K8sWatcher WITH
        Threads <- K8sThreads, Handlers <- Registrations,
        Capacity <- K8sCapacity, MaxStarts <- K8sStarts,
        Events <- K8sEvents, Relevant <- RelevantK8s, MaxUpdates <- K8sUpdates,
        running <- kRunning, synced <- kSynced, stopCh <- kStopCh,
        closedChs <- kClosed, thread <- kThread, informer <- kInformer,
        waiter <- kWaiter, queue <- kQueue, stored <- kStored,
        updates <- kUpdates, buffer <- kBuffer, handlers <- kHandlers,
        event <- kEvent, calls <- kCalls

ASSUME MonitorAssumption ==
    /\ X!XidConstants /\ K!K8sConstants
    /\ CriticalXids \subseteq 1..XidEvents
    /\ CriticalK8s \subseteq RelevantK8s
    /\ StopAll \in BOOLEAN

xVars == <<xRunning, xStopCh, xClosed, xThread, xLoop, xTold, xUnread, xLogged,
           xBuffer, xHandlers, xEvent, xCalls>>
kVars == <<kRunning, kSynced, kStopCh, kClosed, kThread, kInformer, kWaiter,
           kQueue, kStored, kUpdates, kBuffer, kHandlers, kEvent, kCalls>>
cVars == <<wired, phase, cancelled, entered, work>>
vars == <<xVars, kVars, cVars>>

Source == {"xid", "k8s"}

\* The buffers of both watchers, and the part of them a correlation has read.
Buffers == [xid |-> xBuffer, k8s |-> kBuffer]
NothingRead == [xid |-> << >>, k8s |-> << >>]

BusyUnlessReported(w) == w.at # "reported"

\* Not yet at wg.Done.
Busy(w) == w.at \in {"xid", "k8s", "verdict", "callback"}

Init ==
    /\ X!Init /\ K!Init
    /\ wired \in Wirings
    /\ phase = [r \in Registrations |-> "none"]
    /\ cancelled = [r \in Registrations |-> FALSE]
    /\ entered = [r \in Registrations |-> {}]
    /\ work = << >>

-------------------------------------------------------------------------------
(* The owner of a registration *)

Step(r, from, to) ==
    /\ phase[r] = from
    /\ phase' = [phase EXCEPT ![r] = to]

RegisterXid(r) ==
    /\ Step(r, "none", "xid registered")
    /\ IF "xid" \in wired THEN X!RegisterHandler(r) ELSE UNCHANGED xVars
    /\ UNCHANGED <<kVars, wired, cancelled, entered, work>>

RegisterK8s(r) ==
    /\ Step(r, "xid registered", "registered")
    /\ IF "k8s" \in wired THEN K!RegisterHandler(r) ELSE UNCHANGED kVars
    /\ UNCHANGED <<xVars, wired, cancelled, entered, work>>

\* The cleanup function: cancel(), then wg.Wait().  The handlers stay
\* registered with the watchers.
Cleanup(r) ==
    /\ Step(r, "registered", "waiting")
    /\ cancelled' = [cancelled EXCEPT ![r] = TRUE]
    /\ UNCHANGED <<xVars, kVars, wired, entered, work>>

InFlightIgnored(r) == {}

InFlight(r) == {i \in DOMAIN work : work[i].registration = r /\ Busy(work[i])}

CleanupReturns(r) ==
    /\ Step(r, "waiting", "returned")
    /\ InFlight(r) = {}
    /\ UNCHANGED <<xVars, kVars, wired, cancelled, entered, work>>

\* The context given to RegisterAutoCorrelation is cancelled.
CancelParent(r) ==
    /\ phase[r] # "none"
    /\ ~cancelled[r]
    /\ cancelled' = [cancelled EXCEPT ![r] = TRUE]
    /\ UNCHANGED <<xVars, kVars, wired, phase, entered, work>>

-------------------------------------------------------------------------------
(* The handlers, called by the watchers *)

\* The handler returns at once: the registration was cancelled, or the event
\* is not critical.
Ignore(r, src, critical) ==
    /\ src \notin entered[r]
    /\ cancelled[r] \/ ~critical
    /\ UNCHANGED cVars

\* The context was not cancelled when the handler asked.
Enter(r, src, critical) ==
    /\ src \notin entered[r]
    /\ ~cancelled[r] /\ critical
    /\ entered' = [entered EXCEPT ![r] = @ \union {src}]
    /\ UNCHANGED <<wired, phase, cancelled, work>>

\* wg.Add(1), the correlation is started, and the handler returns.
Correlate(r, src, e) ==
    /\ src \in entered[r]
    /\ entered' = [entered EXCEPT ![r] = @ \ {src}]
    /\ work' = Append(work,
                 [registration |-> r, source |-> src, trigger |-> e,
                  at |-> "xid", had |-> Buffers, read |-> NothingRead])
    /\ UNCHANGED <<wired, phase, cancelled>>

XidHandler(s) ==
    /\ xCalls[s] # << >>
    /\ \E e \in xEvent[s] :
        LET r == Head(xCalls[s]) IN
        \/ /\ Ignore(r, "xid", e \in CriticalXids) \/ Correlate(r, "xid", e)
           /\ X!HandlerReturns(s)
        \/ /\ Enter(r, "xid", e \in CriticalXids)
           /\ UNCHANGED xVars
    /\ UNCHANGED kVars

K8sHandler(s) ==
    /\ kCalls[s] # << >>
    /\ \E e \in kEvent[s] :
        LET r == Head(kCalls[s]) IN
        \/ /\ Ignore(r, "k8s", e \in CriticalK8s) \/ Correlate(r, "k8s", e)
           /\ K!HandlerReturns(s)
        \/ /\ Enter(r, "k8s", e \in CriticalK8s)
           /\ UNCHANGED kVars
    /\ UNCHANGED xVars

-------------------------------------------------------------------------------
(* A correlation *)

Advance(i, from, to) ==
    /\ work[i].at = from
    /\ work' = [work EXCEPT ![i].at = to]
    /\ UNCHANGED <<xVars, kVars, wired, phase, cancelled, entered>>

\* One source is read, unless the context was cancelled; a watcher that was
\* not given is skipped.
Gather(i, src, next) ==
    /\ work[i].at = src
    /\ work' = [work EXCEPT ![i].at = next,
                            ![i].read[src] = IF src \in wired THEN Buffers[src] ELSE @]
    /\ ~cancelled[work[i].registration]
    /\ UNCHANGED <<xVars, kVars, wired, phase, cancelled, entered>>

\* Correlate returns early, with a partial incident.
GiveUp(i) ==
    /\ cancelled[work[i].registration]
    /\ Advance(i, "xid", "verdict") \/ Advance(i, "k8s", "verdict")

MayReportAlways(i) == TRUE

\* ctx.Err() == nil, asked after Correlate returned.
MayReport(i) == ~cancelled[work[i].registration]

Verdict(i) ==
    IF MayReport(i) THEN Advance(i, "verdict", "callback")
                    ELSE Advance(i, "verdict", "dropped")

CallbackReturns(i) == Advance(i, "callback", "reported")

Work(i) ==
    \/ Gather(i, "xid", "k8s") \/ Gather(i, "k8s", "verdict") \/ GiveUp(i)
    \/ Verdict(i) \/ CallbackReturns(i)

-------------------------------------------------------------------------------
XidFailure(s) == X!Fail(s) /\ UNCHANGED <<kVars, cVars>>

XidWatching(s) == (X!Watch(s) /\ UNCHANGED <<kVars, cVars>>) \/ XidHandler(s)

K8sWatching(s) == (K!Inform(s) /\ UNCHANGED <<xVars, cVars>>) \/ K8sHandler(s)

XidEnvironment ==
    /\ "xid" \in wired
    /\ X!KernelLogs \/ \E s \in 1..XidStarts : X!CancelContext(s)
    /\ UNCHANGED <<kVars, cVars>>

K8sEnvironment ==
    /\ "k8s" \in wired
    /\ \E e \in K8sEvents : K!Publish(e)
    /\ UNCHANGED <<xVars, cVars>>

MayStop == StopAll \/ wired # Source

XidCaller(t) ==
    /\ "xid" \in wired
    /\ X!Starting(t) \/ (MayStop /\ X!Stopping(t))
    /\ UNCHANGED <<kVars, cVars>>

K8sCaller(t) ==
    /\ "k8s" \in wired
    /\ K!Starting(t) \/ (MayStop /\ K!Stopping(t))
    /\ UNCHANGED <<xVars, cVars>>

XidTeller(s) == X!TellStop(s) /\ UNCHANGED <<kVars, cVars>>

K8sSyncer(s) == K!Wait4Sync(s) /\ UNCHANGED <<xVars, cVars>>

Owner(r) ==
    RegisterXid(r) \/ RegisterK8s(r) \/ Cleanup(r) \/ CleanupReturns(r)

Next ==
    \/ \E t \in XidThreads : XidCaller(t)
    \/ \E t \in K8sThreads : K8sCaller(t)
    \/ \E s \in 1..XidStarts : XidWatching(s) \/ XidFailure(s) \/ XidTeller(s)
    \/ \E s \in 1..K8sStarts : K8sWatching(s) \/ K8sSyncer(s)
    \/ \E r \in Registrations : Owner(r) \/ CancelParent(r)
    \/ \E i \in DOMAIN work : Work(i)
    \/ XidEnvironment
    \/ K8sEnvironment

\* No more correlations are started than that.
MaxWork ==
    Cardinality(Registrations) *
    (Cardinality(CriticalXids) + K8sStarts * (Cardinality(K8sEvents) + K8sUpdates))

\* The scheduler runs every goroutine that can take a step, and a call that was
\* begun goes on.
Fairness ==
    /\ \A t \in XidThreads : WF_vars(xThread[t] # "idle" /\ XidCaller(t))
    /\ \A t \in K8sThreads : WF_vars(kThread[t] # "idle" /\ K8sCaller(t))
    /\ \A s \in 1..XidStarts : WF_vars(XidWatching(s)) /\ WF_vars(XidTeller(s))
    /\ \A s \in 1..K8sStarts : WF_vars(K8sWatching(s)) /\ WF_vars(K8sSyncer(s))
    /\ \A r \in Registrations : WF_vars(CleanupReturns(r))
    /\ \A i \in 1..MaxWork : WF_vars(i \in DOMAIN work /\ Work(i))

Spec == Init /\ [][Next]_vars

FairSpec == Spec /\ Fairness

-------------------------------------------------------------------------------
(* Safety properties *)

\* A watcher that was stopped, and one whose Start failed, has no goroutine
\* left that reads, captures or calls handlers.
StoppedIsQuiet ==
    /\ ~xRunning /\ (\A t \in XidThreads : xThread[t] = "idle") =>
           \A s \in 1..XidStarts : xLoop[s] \in {"none", "done"}
    /\ ~kRunning /\ (\A t \in K8sThreads : kThread[t] = "idle") =>
           \A s \in 1..K8sStarts : kInformer[s] \in {"none", "done"}

\* After the cleanup function has returned no callback is running and none will
\* be, although a handler that asked for the context before may start its
\* correlation only now.
NoCallbackAfterCleanup ==
    \A i \in DOMAIN work :
        phase[work[i].registration] = "returned" => work[i].at # "callback"

\* l lost nothing but its oldest items, and those only to newer ones.
EvictedOnly(before, after, capacity) ==
    \E k \in 0..Len(before) :
        /\ IsPrefix(SubSeq(before, k + 1, Len(before)), after)
        /\ k > 0 => Len(after) = capacity

\* An incident that is reported is complete: it holds everything that either
\* watcher had captured when its trigger was handled, the trigger first of
\* all, but for what newer events pushed out of the buffer meanwhile.
\* Incidents that were cut short by a cancelled context are never reported.
ReportsAreComplete ==
    \A i \in DOMAIN work : LET w == work[i] IN
        w.at \in {"callback", "reported"} =>
            /\ w.trigger = Last(w.had[w.source])
            /\ EvictedOnly(w.had.xid, w.read.xid, XidCapacity)
            /\ EvictedOnly(w.had.k8s, w.read.k8s, K8sCapacity)

\* An XID error leads to one incident of a registration at most, across
\* restarts of the watcher.
XidReportedOnce ==
    \A i, j \in DOMAIN work :
        /\ work[i].source = "xid" /\ work[j].source = "xid"
        /\ work[i].trigger = work[j].trigger
        /\ work[i].registration = work[j].registration
        => i = j

(* Liveness properties *)

\* The cleanup function returns.
CleanupTerminates ==
    \A r \in Registrations : phase[r] = "waiting" ~> phase[r] = "returned"

\* Stop returns: that of the Kubernetes watcher always, that of the XID watcher
\* if no scan waits for ever.  A scan that waits for the kernel's next message
\* does not ask for the context.
StopReturns ==
    /\ \A t \in K8sThreads : kThread[t] = "close" ~> kThread[t] = "idle"
    /\ (\A s \in 1..XidStarts : []<>~X!Blocked(s)) =>
           \A t \in XidThreads : xThread[t] = "close" ~> xThread[t] = "idle"

\* An incident with that trigger was reported.
Reported(r, src, e) ==
    \E i \in DOMAIN work :
        /\ work[i].registration = r /\ work[i].source = src
        /\ work[i].trigger = e
        /\ work[i].at = "reported"

\* A critical event that a watcher captures while the handlers of a registration
\* are there leads to a reported incident, unless the registration is cancelled,
\* even if the watcher is stopped at once.
CriticalEventsAreReported ==
    \A r \in Registrations :
        /\ \A e \in CriticalXids :
            (\E s \in 1..XidStarts : xLoop[s] = "notify" /\ e \in xEvent[s])
                /\ Contains(xHandlers, r)
            ~> Reported(r, "xid", e) \/ cancelled[r]
        /\ \A e \in CriticalK8s :
            (\E s \in 1..K8sStarts : kInformer[s] = "notify" /\ e \in kEvent[s])
                /\ Contains(kHandlers, r)
            ~> Reported(r, "k8s", e) \/ cancelled[r]
===============================================================================

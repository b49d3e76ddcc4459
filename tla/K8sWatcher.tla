------------------------------ MODULE K8sWatcher ------------------------------
(***************************************************************************)
(* The watcher of Kubernetes events (pkg/events/k8s_watcher.go): Start and *)
(* Stop, the two goroutines of each start (the informer and the one that   *)
(* waits for its cache), and the handlers, which are called in the         *)
(* informer's goroutine.                                                   *)
(*                                                                         *)
(* The informer is client-go's.  What the watcher relies on is modelled:   *)
(* it lists the events that exist, in any order, reports that it has       *)
(* synced, goes on with the events that are created or updated later,      *)
(* delivers one at a time, and once its stop channel is closed it finishes *)
(* the delivery under way, drops the others and returns.                   *)
(*                                                                         *)
(* An event passes the filters of handleEvent if it is one of Relevant: a  *)
(* pod of this node, a warning or a reason worth keeping.                  *)
(***************************************************************************)
EXTENDS Naturals, SequencesExt

CONSTANTS
    Threads,      \* goroutines that call Start and Stop
    Handlers,     \* what may be registered
    Events,       \* the events of the cluster
    Relevant,     \* those that pass the filters
    Capacity,     \* config.BufferSize
    MaxStarts,    \* bound of the model: starts that spawn an informer
    MaxUpdates    \* bound of the model: how often events are created or updated

K8sConstants ==
    /\ Relevant \subseteq Events
    /\ Capacity \in Nat \ {0}
    /\ MaxStarts \in Nat /\ MaxUpdates \in Nat

VARIABLES
    running,    \* w.running
    synced,     \* w.synced
    stopCh,     \* w.stopCh: the number of the start that made it, 0 for nil
    closedChs,  \* the channels that were closed
    thread,     \* where each caller is
    informer,   \* where the informer of each start is
    waiter,     \* where the goroutine that waits for its cache is
    queue,      \* the events the informer has still to deliver
    stored,     \* the events that exist in the API server
    updates,    \* how often one was created or updated
    buffer,     \* w.buffer
    handlers,   \* w.handlers
    event,      \* the event it handles, if any
    calls       \* the handlers it has still to call for it

callerVars == <<running, stopCh, closedChs, thread>>
informerVars == <<informer, queue, event, calls>>
apiVars == <<stored, updates>>
vars == <<callerVars, synced, informerVars, waiter, apiVars, buffer, handlers>>

Starts == 1..MaxStarts

Log == INSTANCE BoundedLog WITH Items <- Events, log <- buffer

Alive == {"list", "watch", "notify", "calling"}

Init ==
    /\ running = FALSE /\ synced = FALSE
    /\ stopCh = 0
    /\ closedChs = {}
    /\ thread = [t \in Threads |-> "idle"]
    /\ informer = [s \in Starts |-> "none"]
    /\ waiter = [s \in Starts |-> "none"]
    /\ queue = [s \in Starts |-> << >>]
    /\ stored \in SUBSET Events
    /\ updates = 0
    /\ buffer = << >>
    /\ handlers = << >>
    /\ event = [s \in Starts |-> {}]
    /\ calls = [s \in Starts |-> << >>]

Move(t, from, to) ==
    /\ thread[t] = from
    /\ thread' = [thread EXCEPT ![t] = to]

\* A premise: Starts and Stops are apart, which nothing in the code enforces.
NobodyIn(phase) == \A t \in Threads : thread[t] \notin phase

-------------------------------------------------------------------------------
(* Start and Stop *)

\* CompareAndSwap(false, true); the loser returns ErrAlreadyStarted.
StartCAS(t) ==
    /\ Move(t, "idle", "create")
    /\ NobodyIn({"unsync", "close", "wait"})
    /\ \E s \in Starts : informer[s] = "none"
    /\ ~running
    /\ running' = TRUE
    /\ UNCHANGED <<synced, stopCh, closedChs, informerVars, waiter, apiVars,
                   buffer, handlers>>

\* AddEventHandler fails: Start takes back running.
AddEventHandlerFails(t) ==
    /\ Move(t, "create", "idle")
    /\ running' = FALSE
    /\ UNCHANGED <<synced, stopCh, closedChs, informerVars, waiter, apiVars,
                   buffer, handlers>>

\* stopCh = make, wg.Add, and the two goroutines.
Spawn(t) ==
    \E s \in Starts :
        /\ Move(t, "create", "idle")
        /\ informer[s] = "none"
        /\ \A r \in Starts : r < s => informer[r] # "none"
        /\ stopCh' = s
        /\ informer' = [informer EXCEPT ![s] = "list"]
        /\ waiter' = [waiter EXCEPT ![s] = "waiting"]
        /\ UNCHANGED <<running, synced, closedChs, queue, event, calls,
                       apiVars, buffer, handlers>>

StopCAS(t) ==
    /\ Move(t, "idle", "unsync")
    /\ NobodyIn({"create"})
    /\ running
    /\ running' = FALSE
    /\ UNCHANGED <<synced, stopCh, closedChs, informerVars, waiter, apiVars,
                   buffer, handlers>>

\* synced.Store(false), before anybody knows of the stop.
Unsync(t) ==
    /\ Move(t, "unsync", "close")
    /\ synced' = FALSE
    /\ UNCHANGED <<running, stopCh, closedChs, informerVars, waiter, apiVars,
                   buffer, handlers>>

Close(t) ==
    /\ Move(t, "close", "wait")
    /\ closedChs' = closedChs \union {stopCh}
    /\ UNCHANGED <<running, synced, stopCh, informerVars, waiter, apiVars,
                   buffer, handlers>>

InformerIgnored == \A s \in Starts : waiter[s] \in {"none", "done"}

\* wg.Wait returns.
GoroutinesDone ==
    \A s \in Starts : informer[s] \notin Alive /\ waiter[s] \in {"none", "done"}

Wait(t) ==
    /\ Move(t, "wait", "idle")
    /\ GoroutinesDone
    /\ UNCHANGED <<running, synced, stopCh, closedChs, informerVars, waiter,
                   apiVars, buffer, handlers>>

-------------------------------------------------------------------------------
(* The goroutine that waits for the cache *)

SeeSyncOnly(s) ==
    /\ waiter[s] = "waiting"
    /\ informer[s] \in Alive \ {"list"}
    /\ waiter' = [waiter EXCEPT ![s] = "saw"]
    /\ UNCHANGED <<callerVars, synced, informerVars, apiVars, buffer, handlers>>

\* WaitForCacheSync sees that the informer has listed, or that it is to stop.
SeeSync(s) ==
    /\ waiter[s] = "waiting"
    /\ \/ /\ informer[s] \in Alive \ {"list"}
          /\ waiter' = [waiter EXCEPT ![s] = "saw"]
       \/ /\ s \in closedChs
          /\ waiter' = [waiter EXCEPT ![s] = "done"]
    /\ UNCHANGED <<callerVars, synced, informerVars, apiVars, buffer, handlers>>

StoreSynced(s) ==
    /\ waiter[s] = "saw"
    /\ synced' = TRUE
    /\ waiter' = [waiter EXCEPT ![s] = "done"]
    /\ UNCHANGED <<callerVars, informerVars, apiVars, buffer, handlers>>

-------------------------------------------------------------------------------
(* The informer *)

Go(s, from, to) ==
    /\ informer[s] = from
    /\ informer' = [informer EXCEPT ![s] = to]

List(s) ==
    /\ Go(s, "list", "watch")
    /\ s \notin closedChs
    /\ \E order \in SetToSeqs(stored) : queue' = [queue EXCEPT ![s] = order]
    /\ UNCHANGED <<callerVars, synced, waiter, event, calls, apiVars, buffer,
                   handlers>>

\* The informer returns, whatever it had still to deliver.
Quit(s) ==
    /\ s \in closedChs
    /\ Go(s, "list", "done") \/ Go(s, "watch", "done")
    /\ queue' = [queue EXCEPT ![s] = << >>]
    /\ UNCHANGED <<callerVars, synced, waiter, event, calls, apiVars, buffer,
                   handlers>>

\* handleEvent returns early: the event is of no interest.
Filter(s) ==
    /\ informer[s] = "watch"
    /\ queue[s] # << >>
    /\ Head(queue[s]) \notin Relevant
    /\ queue' = [queue EXCEPT ![s] = Tail(@)]
    /\ UNCHANGED <<callerVars, synced, informer, waiter, event, calls,
                   apiVars, buffer, handlers>>

\* The event is buffered before any handler hears of it.
Capture(s) ==
    /\ Go(s, "watch", "notify")
    /\ queue[s] # << >>
    /\ Head(queue[s]) \in Relevant
    /\ queue' = [queue EXCEPT ![s] = Tail(@)]
    /\ event' = [event EXCEPT ![s] = {Head(queue[s])}]
    /\ buffer' = Log!Pushed(buffer, Head(queue[s]))
    /\ UNCHANGED <<callerVars, synced, waiter, calls, apiVars, handlers>>

\* The slice of handlers is copied under the lock.
Copy(s) ==
    /\ Go(s, "notify", "calling")
    /\ calls' = [calls EXCEPT ![s] = handlers]
    /\ UNCHANGED <<callerVars, synced, waiter, queue, event, apiVars, buffer,
                   handlers>>

HandlerReturns(s) ==
    /\ informer[s] = "calling"
    /\ calls[s] # << >>
    /\ calls' = [calls EXCEPT ![s] = Tail(@)]
    /\ UNCHANGED <<callerVars, synced, informer, waiter, queue, event, apiVars,
                   buffer, handlers>>

Notified(s) ==
    /\ calls[s] = << >>
    /\ Go(s, "calling", "watch")
    /\ event' = [event EXCEPT ![s] = {}]
    /\ UNCHANGED <<callerVars, synced, waiter, queue, calls, apiVars, buffer,
                   handlers>>

-------------------------------------------------------------------------------
(* The environment *)

\* RegisterHandler replaces the slice by a longer copy.
RegisterHandler(h) ==
    /\ handlers' = Append(handlers, h)
    /\ UNCHANGED <<callerVars, synced, informerVars, waiter, apiVars, buffer>>

\* An event is created, or happens again: its count is updated.
Publish(e) ==
    /\ updates < MaxUpdates
    /\ updates' = updates + 1
    /\ stored' = stored \union {e}
    /\ queue' = [s \in Starts |->
                   IF informer[s] \in Alive \ {"list"}
                   THEN Append(queue[s], e)
                   ELSE queue[s]]
    /\ UNCHANGED <<callerVars, synced, informer, waiter, event, calls, buffer,
                   handlers>>

-------------------------------------------------------------------------------
Starting(t) == StartCAS(t) \/ AddEventHandlerFails(t) \/ Spawn(t)

Stopping(t) == StopCAS(t) \/ Unsync(t) \/ Close(t) \/ Wait(t)

Wait4Sync(s) == SeeSync(s) \/ StoreSynced(s)

Inform(s) ==
    \/ List(s) \/ Quit(s) \/ Filter(s) \/ Capture(s) \/ Copy(s) \/ Notified(s)

===============================================================================

------------------------------ MODULE XidWatcher ------------------------------
(***************************************************************************)
(* The XID watcher (pkg/xid/watcher.go) and the reader of the kernel log   *)
(* under it (Watch in pkg/xid/kmsg.go): Start and Stop, the watch loop of   *)
(* each start, and the handlers it calls one after the other in its own    *)
(* goroutine.                                                              *)
(*                                                                         *)
(* A kernel message is an XID error, which becomes an event, or anything   *)
(* else, which the loop skips.  Events are numbered in the order in which  *)
(* they are captured.  A handler that panics is recovered: for the watcher *)
(* it returns.                                                             *)
(***************************************************************************)
EXTENDS Naturals, Sequences, FiniteSets

CONSTANTS
    Threads,     \* goroutines that call Start and Stop
    Handlers,    \* what may be registered
    Capacity,    \* config.BufferSize
    MaxStarts,   \* bound of the model: starts that spawn a loop
    MaxEvents,   \* bound of the model: XID errors
    MaxUnread    \* bound of the model: messages the loop is behind

XidConstants ==
    /\ Capacity \in Nat \ {0}
    /\ MaxStarts \in Nat /\ MaxEvents \in Nat /\ MaxUnread \in Nat

VARIABLES
    running,    \* w.running
    stopCh,     \* w.stopCh: the number of the start that made it, 0 for nil
    closedChs,  \* the channels that were closed
    thread,     \* where each caller is
    loop,       \* where the watch loop of each start is
    told,       \* its watchCtx is cancelled
    unread,     \* the kernel messages it has not read
    logged,     \* XID errors the kernel has logged
    buffer,     \* w.buffer
    handlers,   \* w.handlers
    event,      \* the event it handles, if any
    calls       \* the handlers it has still to call for it

callerVars == <<running, stopCh, closedChs, thread>>
loopVars == <<loop, told, unread, event, calls>>
vars == <<callerVars, loopVars, logged, buffer, handlers>>

Starts == 1..MaxStarts
Events == 1..MaxEvents

\* What the kernel logs: an XID error, by its number, or anything else.
Other == 0
Log == INSTANCE BoundedLog WITH Items <- Events, log <- buffer

Alive == {"open", "check", "scan", "notify", "calling"}

Init ==
    /\ running = FALSE
    /\ stopCh = 0
    /\ closedChs = {}
    /\ thread = [t \in Threads |-> "idle"]
    /\ loop = [s \in Starts |-> "none"]
    /\ told = [s \in Starts |-> FALSE]
    /\ unread = [s \in Starts |-> << >>]
    /\ logged = 0
    /\ buffer = << >>
    /\ handlers = << >>
    /\ event = [s \in Starts |-> {}]
    /\ calls = [s \in Starts |-> << >>]

Move(t, from, to) ==
    /\ thread[t] = from
    /\ thread' = [thread EXCEPT ![t] = to]

\* A premise: Starts and Stops are apart, which nothing in the code enforces.
NobodyIn(phase) == \A t \in Threads : thread[t] \notin phase

-------------------------------------------------------------------------------
(* Start and Stop *)

\* CompareAndSwap(false, true); the loser returns ErrAlreadyStarted.
StartCAS(t) ==
    /\ Move(t, "idle", "available")
    /\ NobodyIn({"close", "wait"})
    /\ \E s \in Starts : loop[s] = "none"
    /\ ~running
    /\ running' = TRUE
    /\ UNCHANGED <<stopCh, closedChs, loopVars, logged, buffer, handlers>>

\* The kernel log cannot be opened: Start takes back running and fails.
Unavailable(t) ==
    /\ Move(t, "available", "idle")
    /\ running' = FALSE
    /\ UNCHANGED <<stopCh, closedChs, loopVars, logged, buffer, handlers>>

\* stopCh = make, wg.Add(1), go watchLoop.
Spawn(t) ==
    \E s \in Starts :
        /\ Move(t, "available", "idle")
        /\ loop[s] = "none"
        /\ \A r \in Starts : r < s => loop[r] # "none"
        /\ stopCh' = s
        /\ loop' = [loop EXCEPT ![s] = "open"]
        /\ UNCHANGED <<running, closedChs, told, unread, event, calls, logged,
                       buffer, handlers>>

StopCAS(t) ==
    /\ Move(t, "idle", "close")
    /\ NobodyIn({"available"})
    /\ running
    /\ running' = FALSE
    /\ UNCHANGED <<stopCh, closedChs, loopVars, logged, buffer, handlers>>

Close(t) ==
    /\ Move(t, "close", "wait")
    /\ closedChs' = closedChs \union {stopCh}
    /\ UNCHANGED <<running, stopCh, loopVars, logged, buffer, handlers>>

LoopsDoneUnawaited == TRUE

\* wg.Wait returns.
LoopsDone == \A s \in Starts : loop[s] \notin Alive

Wait(t) ==
    /\ Move(t, "wait", "idle")
    /\ LoopsDone
    /\ UNCHANGED <<running, stopCh, closedChs, loopVars, logged, buffer, handlers>>

-------------------------------------------------------------------------------
(* The watch loop *)

\* The goroutine that waits for stopCh cancels watchCtx.
TellStop(s) ==
    /\ loop[s] \in Alive
    /\ stopCh \in closedChs
    /\ ~told[s]
    /\ told' = [told EXCEPT ![s] = TRUE]
    /\ UNCHANGED <<callerVars, loop, unread, event, calls, logged, buffer, handlers>>

\* ... or the context given to Start is cancelled, and watchCtx with it.
CancelContext(s) ==
    /\ loop[s] \in Alive
    /\ ~told[s]
    /\ told' = [told EXCEPT ![s] = TRUE]
    /\ UNCHANGED <<callerVars, loop, unread, event, calls, logged, buffer, handlers>>

Go(s, from, to) ==
    /\ loop[s] = from
    /\ loop' = [loop EXCEPT ![s] = to]

\* The log is opened and the position set to its end.
Open(s) ==
    /\ Go(s, "open", "check")
    /\ unread' = [unread EXCEPT ![s] = << >>]
    /\ UNCHANGED <<callerVars, told, event, calls, logged, buffer, handlers>>

\* Opening or reading fails (the kernel overwrote what was not read yet): the
\* loop ends, and nothing tells running.
Fail(s) ==
    /\ Go(s, "open", "done") \/ Go(s, "scan", "done")
    /\ unread' = [unread EXCEPT ![s] = << >>]
    /\ UNCHANGED <<callerVars, told, event, calls, logged, buffer, handlers>>

\* The only place where the loop asks for the context.
Check(s) ==
    /\ IF told[s]
       THEN Go(s, "check", "done") /\ unread' = [unread EXCEPT ![s] = << >>]
       ELSE Go(s, "check", "scan") /\ UNCHANGED unread
    /\ UNCHANGED <<callerVars, told, event, calls, logged, buffer, handlers>>

\* Scan returns with a message that is no XID error.
Skip(s) ==
    /\ unread[s] # << >>
    /\ Head(unread[s]) = Other
    /\ Go(s, "scan", "check")
    /\ unread' = [unread EXCEPT ![s] = Tail(@)]
    /\ UNCHANGED <<callerVars, told, event, calls, logged, buffer, handlers>>

\* handleMessage: the event is buffered before any handler hears of it.
Capture(s) ==
    /\ unread[s] # << >>
    /\ Head(unread[s]) \in Events
    /\ Go(s, "scan", "notify")
    /\ unread' = [unread EXCEPT ![s] = Tail(@)]
    /\ event' = [event EXCEPT ![s] = {Head(unread[s])}]
    /\ buffer' = Log!Pushed(buffer, Head(unread[s]))
    /\ UNCHANGED <<callerVars, told, calls, logged, handlers>>

CopyUnlessTold(s) ==
    /\ Go(s, "notify", "calling")
    /\ calls' = [calls EXCEPT ![s] = IF told[s] THEN << >> ELSE handlers]
    /\ UNCHANGED <<callerVars, told, unread, event, logged, buffer, handlers>>

\* notifyHandlers copies the slice under the lock.
Copy(s) ==
    /\ Go(s, "notify", "calling")
    /\ calls' = [calls EXCEPT ![s] = handlers]
    /\ UNCHANGED <<callerVars, told, unread, event, logged, buffer, handlers>>

\* The next handler returns, or panics and is recovered.
HandlerReturns(s) ==
    /\ loop[s] = "calling"
    /\ calls[s] # << >>
    /\ calls' = [calls EXCEPT ![s] = Tail(@)]
    /\ UNCHANGED <<callerVars, loop, told, unread, event, logged, buffer, handlers>>

Notified(s) ==
    /\ calls[s] = << >>
    /\ Go(s, "calling", "check")
    /\ event' = [event EXCEPT ![s] = {}]
    /\ UNCHANGED <<callerVars, told, unread, calls, logged, buffer, handlers>>

-------------------------------------------------------------------------------
(* The environment *)

RegisterHandler(h) ==
    /\ handlers' = Append(handlers, h)
    /\ UNCHANGED <<callerVars, loopVars, logged, buffer>>

\* The kernel logs a message: every loop that has opened the log can read it.
KernelLogs ==
    /\ \A s \in Starts : loop[s] \in Alive => Len(unread[s]) < MaxUnread
    /\ \E m \in {Other} \union ({logged + 1} \intersect Events) :
        /\ logged' = IF m = Other THEN logged ELSE m
        /\ unread' = [s \in Starts |->
                        IF loop[s] \in Alive \ {"open"}
                        THEN Append(unread[s], m)
                        ELSE unread[s]]
    /\ UNCHANGED <<callerVars, loop, told, event, calls, buffer, handlers>>

-------------------------------------------------------------------------------
Starting(t) == StartCAS(t) \/ Unavailable(t) \/ Spawn(t)

Stopping(t) == StopCAS(t) \/ Close(t) \/ Wait(t)

Watch(s) ==
    \/ Open(s) \/ Check(s) \/ Skip(s) \/ Capture(s) \/ Copy(s) \/ Notified(s)

\* A read of /dev/kmsg that finds nothing waits for the kernel.
Blocked(s) == loop[s] = "scan" /\ unread[s] = << >>

===============================================================================

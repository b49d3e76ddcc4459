---------------------------- MODULE MonitorProofs ----------------------------
(***************************************************************************)
(* The watchers and the automatic correlation keep their promises for any  *)
(* number of registrations, callers, starts and events, every capacity and *)
(* every choice of the critical events.                                    *)
(***************************************************************************)
EXTENDS Monitor, SequenceTheorems, TLAPS

(* The XID watcher *)

XidStages == {"idle", "available", "close", "wait"}

XidTyped ==
    /\ xRunning \in BOOLEAN
    /\ xThread \in [XidThreads -> XidStages]
    /\ xLoop \in [X!Starts -> X!Alive \union {"none", "done"}]
    /\ xLogged \in 0..XidEvents
    /\ xUnread \in [X!Starts -> Seq(Nat)]
    /\ xEvent \in [X!Starts -> SUBSET X!Events]
    /\ xCalls \in [X!Starts -> Seq(Registrations)]
    /\ xHandlers \in Seq(Registrations)
    /\ xBuffer \in Seq(X!Events)
    /\ Len(xBuffer) <= XidCapacity

XidQuiet == \A s \in X!Starts : xLoop[s] \notin X!Alive

\* running decides a race of two callers: one is inside Start or Stop at a
\* time, and a loop lives from its Start to the end of the Stop that awaits it.
XidTurns ==
    /\ \A t, u \in XidThreads : xThread[t] # "idle" /\ xThread[u] # "idle" => t = u
    /\ \A t \in XidThreads : xThread[t] = "available" => xRunning /\ XidQuiet
    /\ \A t \in XidThreads : xThread[t] \in {"close", "wait"} => ~xRunning
    /\ ~xRunning /\ (\A t \in XidThreads : xThread[t] = "idle") => XidQuiet

OneLoop ==
    \A r, s \in X!Starts : xLoop[r] \in X!Alive /\ xLoop[s] \in X!Alive => r = s

XidStep ==
    \/ \E t \in XidThreads : X!Starting(t) \/ X!Stopping(t)
    \/ \E s \in X!Starts :
        X!Watch(s) \/ X!Fail(s) \/ X!TellStop(s) \/ X!CancelContext(s) \/ X!HandlerReturns(s)
    \/ X!KernelLogs
    \/ \E r \in Registrations : X!RegisterHandler(r)
    \/ UNCHANGED xVars

LEMMA XidInitially == Init => XidTyped /\ XidTurns /\ OneLoop
<1> SUFFICES ASSUME Init PROVE XidTyped /\ XidTurns /\ OneLoop
  OBVIOUS
<1>1. xHandlers = << >> /\ xBuffer = << >> /\ xLogged = 0
  BY DEF Init, X!Init
<1>2. Len(xBuffer) <= XidCapacity /\ 0 \in 0..XidEvents
  BY <1>1, MonitorAssumption DEF MonitorAssumption, X!XidConstants
<1>3. XidTyped
  <2>1. /\ xHandlers \in Seq(Registrations) /\ xBuffer \in Seq(X!Events)
        /\ xUnread \in [X!Starts -> Seq(Nat)]
        /\ xCalls \in [X!Starts -> Seq(Registrations)]
    BY <1>1 DEF Init, X!Init
  <2>2. /\ xRunning \in BOOLEAN
        /\ xThread \in [XidThreads -> XidStages]
        /\ xLoop \in [X!Starts -> X!Alive \union {"none", "done"}]
        /\ xEvent \in [X!Starts -> SUBSET X!Events]
    BY DEF Init, X!Init, XidStages
  <2> QED
    BY <1>1, <1>2, <2>1, <2>2 DEF XidTyped
<1>4. XidTurns /\ OneLoop
  BY DEF Init, X!Init, XidTurns, OneLoop, XidQuiet, X!Alive, X!Starts
<1> QED
  BY <1>3, <1>4

LEMMA NextStepsXid == Next => XidStep
<1> SUFFICES ASSUME Next PROVE XidStep
  OBVIOUS
<1> USE DEF XidStep, xVars, X!Starts
<1>1. CASE \E t \in XidThreads : XidCaller(t)
  BY <1>1 DEF XidCaller
<1>2. CASE \E t \in K8sThreads : K8sCaller(t)
  BY <1>2 DEF K8sCaller
<1>3. CASE \E s \in 1..XidStarts : XidWatching(s) \/ XidFailure(s) \/ XidTeller(s)
  BY <1>3 DEF XidWatching, XidFailure, XidTeller, XidHandler
<1>4. CASE \E s \in 1..K8sStarts : K8sWatching(s) \/ K8sSyncer(s)
  BY <1>4 DEF K8sWatching, K8sSyncer, K8sHandler
<1>5. CASE \E r \in Registrations : Owner(r) \/ CancelParent(r)
  BY <1>5 DEF Owner, RegisterXid, RegisterK8s, Cleanup, CleanupReturns, CancelParent
<1>6. CASE \E i \in DOMAIN work : Work(i)
  BY <1>6 DEF Work, Gather, GiveUp, Verdict, CallbackReturns, Advance
<1>7. CASE XidEnvironment
  BY <1>7 DEF XidEnvironment
<1>8. CASE K8sEnvironment
  BY <1>8 DEF K8sEnvironment
<1> QED
  BY <1>1, <1>2, <1>3, <1>4, <1>5, <1>6, <1>7, <1>8 DEF Next

\* What a step of a loop may do to it: it goes on or ends, and starts nothing.
XidLoops ==
    /\ UNCHANGED X!callerVars
    /\ xLoop' \in [X!Starts -> X!Alive \union {"none", "done"}]
    /\ \A s \in X!Starts : xLoop'[s] \in X!Alive => xLoop[s] \in X!Alive

LEMMA LoopsKeepTurns ==
    ASSUME XidTyped, XidTurns, OneLoop, XidLoops
    PROVE  XidTurns' /\ OneLoop'
BY DEF XidTyped, XidTurns, OneLoop, XidLoops, XidQuiet, X!callerVars

LEMMA WatchIsLoop ==
    ASSUME XidTyped, NEW s \in X!Starts,
           X!Watch(s) \/ X!Fail(s) \/ X!TellStop(s) \/ X!CancelContext(s) \/ X!HandlerReturns(s)
    PROVE  XidLoops
<1> USE DEF XidTyped, XidLoops, X!Alive, X!Go
<1>1. CASE X!Open(s) \/ X!Check(s) \/ X!Skip(s)
  BY <1>1 DEF X!Open, X!Check, X!Skip
<1>2. CASE X!Capture(s) \/ X!Copy(s) \/ X!Notified(s)
  BY <1>2 DEF X!Capture, X!Copy, X!Notified
<1>3. CASE X!Fail(s) \/ X!TellStop(s) \/ X!CancelContext(s) \/ X!HandlerReturns(s)
  BY <1>3 DEF X!Fail, X!TellStop, X!CancelContext, X!HandlerReturns
<1> QED
  BY <1>1, <1>2, <1>3 DEF X!Watch

LEMMA XidKeepsTurns ==
    ASSUME XidTyped, XidTurns, OneLoop, XidStep
    PROVE  XidTurns' /\ OneLoop'
<1> USE DEF XidTyped, XidStages, XidTurns, OneLoop, XidQuiet, X!Move, X!NobodyIn, X!loopVars
<1>1. ASSUME NEW t \in XidThreads, X!StartCAS(t) PROVE XidTurns' /\ OneLoop'
  BY <1>1 DEF X!StartCAS
<1>2. ASSUME NEW t \in XidThreads, X!Unavailable(t) PROVE XidTurns' /\ OneLoop'
  BY <1>2 DEF X!Unavailable
<1>3. ASSUME NEW t \in XidThreads, X!Spawn(t) PROVE XidTurns' /\ OneLoop'
  <2>1. PICK s \in X!Starts :
            /\ X!Move(t, "available", "idle")
            /\ xLoop' = [xLoop EXCEPT ![s] = "open"]
            /\ UNCHANGED xRunning
    BY <1>3 DEF X!Spawn
  <2>2. xRunning /\ XidQuiet /\ \A u \in XidThreads : xThread'[u] = "idle"
    BY <2>1
  <2>3. \A r \in X!Starts : xLoop'[r] \in X!Alive => r = s
    BY <2>1, <2>2
  <2> QED
    BY <2>1, <2>2, <2>3
<1>4. ASSUME NEW t \in XidThreads, X!StopCAS(t) PROVE XidTurns' /\ OneLoop'
  BY <1>4 DEF X!StopCAS
<1>5. ASSUME NEW t \in XidThreads, X!Close(t) PROVE XidTurns' /\ OneLoop'
  BY <1>5 DEF X!Close
<1>6. ASSUME NEW t \in XidThreads, X!Wait(t) PROVE XidTurns' /\ OneLoop'
  BY <1>6 DEF X!Wait, X!LoopsDone
<1>7. CASE \E s \in X!Starts : X!Watch(s) \/ X!Fail(s) \/ X!TellStop(s)
                                 \/ X!CancelContext(s) \/ X!HandlerReturns(s)
  BY <1>7, WatchIsLoop, LoopsKeepTurns
<1>8. CASE X!KernelLogs \/ UNCHANGED xVars \/ \E r \in Registrations : X!RegisterHandler(r)
  BY <1>8, LoopsKeepTurns
     DEF XidLoops, X!KernelLogs, X!RegisterHandler, xVars, X!callerVars
<1> QED
  BY <1>1, <1>2, <1>3, <1>4, <1>5, <1>6, <1>7, <1>8 DEF XidStep, X!Starting, X!Stopping

\* What both watchers do to their buffers.
Push(l, x, capacity) ==
    IF Len(l) < capacity THEN Append(l, x) ELSE Append(Tail(l), x)

LEMMA PushKeepsLast ==
    ASSUME NEW S, NEW l \in Seq(S), NEW x \in S, NEW capacity \in Nat \ {0},
           Len(l) <= capacity
    PROVE  LET p == Push(l, x, capacity) IN
           /\ p \in Seq(S) /\ p # << >>
           /\ Len(p) = IF Len(l) < capacity THEN Len(l) + 1 ELSE capacity
           /\ Last(p) = x
           /\ \A i \in 1..Len(p) - 1 :
                p[i] = IF Len(l) < capacity THEN l[i] ELSE l[i + 1]
<1>1. CASE Len(l) < capacity
  <2>1. /\ Append(l, x) \in Seq(S) /\ Len(Append(l, x)) = Len(l) + 1
        /\ Append(l, x)[Len(l) + 1] = x
        /\ \A i \in 1..Len(l) : Append(l, x)[i] = l[i]
    BY AppendProperties
  <2>2. Append(l, x) # << >>
    BY <2>1, EmptySeq
  <2> QED
    BY <1>1, <2>1, <2>2 DEF Push, Last
<1>2. CASE ~(Len(l) < capacity)
  <2>1. l # << >> /\ Len(l) = capacity
    BY <1>2, EmptySeq
  <2>2. /\ Tail(l) \in Seq(S) /\ Len(Tail(l)) = capacity - 1
        /\ \A i \in 1..capacity - 1 : Tail(l)[i] = l[i + 1]
    BY <2>1, HeadTailProperties
  <2>3. /\ Append(Tail(l), x) \in Seq(S) /\ Len(Append(Tail(l), x)) = capacity
        /\ Append(Tail(l), x)[capacity] = x
        /\ \A i \in 1..capacity - 1 : Append(Tail(l), x)[i] = Tail(l)[i]
    BY <2>2, AppendProperties
  <2>4. Append(Tail(l), x) # << >>
    BY <2>3, EmptySeq
  <2> QED
    BY <1>2, <2>2, <2>3, <2>4 DEF Push, Last
<1> QED
  BY <1>1, <1>2

LEMMA XidKeepsTyped ==
    ASSUME XidTyped, XidStep
    PROVE  XidTyped'
<1> USE DEF XidTyped
<1>1. ASSUME NEW t \in XidThreads, X!Starting(t) \/ X!Stopping(t) PROVE XidTyped'
  <2>1. xThread' \in [XidThreads -> XidStages] /\ xRunning' \in BOOLEAN
    BY <1>1 DEF X!Starting, X!StartCAS, X!Unavailable, X!Spawn, X!Stopping, X!StopCAS,
                X!Close, X!Wait, X!Move, XidStages
  <2>2. xLoop' \in [X!Starts -> X!Alive \union {"none", "done"}]
    BY <1>1 DEF X!Starting, X!StartCAS, X!Unavailable, X!Spawn, X!Stopping, X!StopCAS,
                X!Close, X!Wait, X!loopVars, X!Alive
  <2>3. UNCHANGED <<xLogged, xUnread, xEvent, xCalls, xHandlers, xBuffer>>
    BY <1>1 DEF X!Starting, X!StartCAS, X!Unavailable, X!Spawn, X!Stopping, X!StopCAS,
                X!Close, X!Wait, X!loopVars
  <2> QED
    BY <2>1, <2>2, <2>3
<1>2. ASSUME NEW s \in X!Starts, X!Capture(s) PROVE XidTyped'
  <2>1. /\ xUnread[s] # << >> /\ Head(xUnread[s]) \in X!Events
        /\ xBuffer' = Push(xBuffer, Head(xUnread[s]), XidCapacity)
    BY <1>2 DEF X!Capture, X!Log!Pushed, Push
  <2>2. xBuffer' \in Seq(X!Events) /\ Len(xBuffer') <= XidCapacity
    BY <2>1, PushKeepsLast, MonitorAssumption DEF MonitorAssumption, X!XidConstants
  <2>3. xUnread' \in [X!Starts -> Seq(Nat)]
    BY <1>2, <2>1 DEF X!Capture
  <2>4. xLoop' \in [X!Starts -> X!Alive \union {"none", "done"}]
    BY <1>2, WatchIsLoop DEF X!Watch, XidLoops
  <2>5. xEvent' \in [X!Starts -> SUBSET X!Events]
    BY <1>2, <2>1 DEF X!Capture
  <2> QED
    BY <1>2, <2>2, <2>3, <2>4, <2>5 DEF X!Capture, X!callerVars
<1>3. ASSUME NEW s \in X!Starts,
             X!Open(s) \/ X!Check(s) \/ X!Skip(s) \/ X!Fail(s)
      PROVE  XidTyped'
  <2>1. xUnread' \in [X!Starts -> Seq(Nat)]
    <3>1. \A q \in Seq(Nat) : q # << >> => Tail(q) \in Seq(Nat)
      OBVIOUS
    <3>2. xUnread[s] \in Seq(Nat) /\ << >> \in Seq(Nat)
      OBVIOUS
    <3>3. \/ UNCHANGED xUnread
          \/ xUnread' = [xUnread EXCEPT ![s] = << >>]
          \/ xUnread[s] # << >> /\ xUnread' = [xUnread EXCEPT ![s] = Tail(@)]
      BY <1>3 DEF X!Open, X!Check, X!Skip, X!Fail
    <3> QED
      BY <3>1, <3>2, <3>3
  <2>2. xLoop' \in [X!Starts -> X!Alive \union {"none", "done"}]
    BY <1>3, WatchIsLoop DEF X!Watch, XidLoops
  <2> QED
    BY <1>3, <2>1, <2>2 DEF X!Open, X!Check, X!Skip, X!Fail, X!callerVars
<1>4. ASSUME NEW s \in X!Starts,
             X!Copy(s) \/ X!Notified(s) \/ X!TellStop(s) \/ X!CancelContext(s)
               \/ X!HandlerReturns(s)
      PROVE  XidTyped'
  <2>1. xCalls' \in [X!Starts -> Seq(Registrations)]
    <3>1. \A q \in Seq(Registrations) : q # << >> => Tail(q) \in Seq(Registrations)
      OBVIOUS
    <3>2. \/ UNCHANGED xCalls
          \/ xCalls' = [xCalls EXCEPT ![s] = xHandlers]
          \/ xCalls[s] # << >> /\ xCalls' = [xCalls EXCEPT ![s] = Tail(@)]
      BY <1>4 DEF X!Copy, X!Notified, X!TellStop, X!CancelContext, X!HandlerReturns
    <3>3. xCalls[s] \in Seq(Registrations)
      OBVIOUS
    <3>4. CASE xCalls[s] # << >> /\ xCalls' = [xCalls EXCEPT ![s] = Tail(@)]
      <4>1. Tail(xCalls[s]) \in Seq(Registrations)
        BY <3>1, <3>3, <3>4
      <4> QED
        BY <3>4, <4>1
    <3> QED
      BY <3>2, <3>4
  <2>2. xEvent' \in [X!Starts -> SUBSET X!Events]
    BY <1>4 DEF X!Copy, X!Notified, X!TellStop, X!CancelContext, X!HandlerReturns
  <2>3. xLoop' \in [X!Starts -> X!Alive \union {"none", "done"}]
    BY <1>4, WatchIsLoop DEF X!Watch, XidLoops
  <2> QED
    BY <1>4, <2>1, <2>2, <2>3 DEF X!Copy, X!Notified, X!TellStop, X!CancelContext,
       X!HandlerReturns, X!callerVars
<1>5. CASE X!KernelLogs
  <2>1. PICK m \in {X!Other} \union ({xLogged + 1} \intersect X!Events) :
            /\ xLogged' = IF m = X!Other THEN xLogged ELSE m
            /\ xUnread' = [s \in X!Starts |->
                            IF xLoop[s] \in X!Alive \ {"open"}
                            THEN Append(xUnread[s], m) ELSE xUnread[s]]
    BY <1>5 DEF X!KernelLogs
  <2>2. m \in Nat /\ xLogged' \in 0..XidEvents
    BY <2>1 DEF X!Other, X!Events
  <2>3. xUnread' \in [X!Starts -> Seq(Nat)]
    BY <2>1, <2>2
  <2> QED
    BY <1>5, <2>2, <2>3 DEF X!KernelLogs, X!callerVars
<1>6. ASSUME NEW r \in Registrations, X!RegisterHandler(r) PROVE XidTyped'
  <2>1. xHandlers' \in Seq(Registrations)
    BY <1>6 DEF X!RegisterHandler
  <2> QED
    BY <1>6, <2>1 DEF X!RegisterHandler, X!callerVars, X!loopVars
<1>7. CASE UNCHANGED xVars
  BY <1>7 DEF xVars
<1> QED
  BY <1>1, <1>2, <1>3, <1>4, <1>5, <1>6, <1>7 DEF XidStep, X!Watch

Reading == {s \in X!Starts : xLoop[s] \in X!Alive \ {"open"}}

Telling == {s \in X!Starts : xLoop[s] \in {"notify", "calling"}}

\* The XID error n will not be captured any more, nor an earlier one.
Behind(n) ==
    /\ n <= xLogged
    /\ \A s \in Reading : \A k \in DOMAIN xUnread[s] :
           xUnread[s][k] # X!Other => n < xUnread[s][k]

UnreadInOrder ==
    \A s \in Reading : \A j \in DOMAIN xUnread[s] :
        /\ xUnread[s][j] <= xLogged
        /\ \A i \in DOMAIN xUnread[s] :
               i < j /\ xUnread[s][j] # X!Other => xUnread[s][i] < xUnread[s][j]

\* What the handlers are told is the newest event of the buffer.
EventIsNewest ==
    \A s \in Telling : \A e \in xEvent[s] :
        Behind(e) /\ xBuffer # << >> /\ Last(xBuffer) = e

\* What can have happened to the unread messages of a loop.
Emptied(s) == xUnread'[s] = << >>

Left(s) == s \in Reading /\ xUnread'[s] = xUnread[s]

Consumed(s) ==
    s \in Reading /\ xUnread[s] # << >> /\ xUnread'[s] = Tail(xUnread[s])

Received(s) ==
    /\ s \in Reading
    /\ \E m \in Nat :
        /\ xUnread'[s] = Append(xUnread[s], m)
        /\ m # X!Other => m = xLogged + 1 /\ xLogged' = m

LEMMA UnreadMoves ==
    ASSUME XidTyped, XidStep
    PROVE  /\ xLogged <= xLogged'
           /\ \A s \in Reading' : Emptied(s) \/ Left(s) \/ Consumed(s) \/ Received(s)
<1> DEFINE Goal == /\ xLogged <= xLogged'
                   /\ \A s \in Reading' :
                        Emptied(s) \/ Left(s) \/ Consumed(s) \/ Received(s)
<1> USE DEF XidTyped, Reading, Left, X!callerVars, X!loopVars
<1>1. ASSUME NEW t \in XidThreads, X!Starting(t) \/ X!Stopping(t) PROVE Goal
  <2>1. UNCHANGED <<xUnread, xLogged>>
    BY <1>1 DEF X!Starting, X!StartCAS, X!Unavailable, X!Spawn, X!Stopping, X!StopCAS,
                X!Close, X!Wait
  <2>2. UNCHANGED xLoop \/ \E s \in X!Starts : xLoop' = [xLoop EXCEPT ![s] = "open"]
    BY <1>1 DEF X!Starting, X!StartCAS, X!Unavailable, X!Spawn, X!Stopping, X!StopCAS,
                X!Close, X!Wait
  <2>3. Reading' \subseteq Reading
    BY <2>2 DEF X!Alive
  <2> QED
    BY <2>1, <2>3
<1>2. ASSUME NEW s \in X!Starts, X!Open(s) \/ X!Fail(s) PROVE Goal
  BY <1>2 DEF X!Open, X!Fail, X!Go, Emptied
<1>3. ASSUME NEW s \in X!Starts, X!Check(s) PROVE Goal
  BY <1>3 DEF X!Check, X!Go, X!Alive
<1>4. ASSUME NEW s \in X!Starts, X!Skip(s) \/ X!Capture(s) PROVE Goal
  <2>1. s \in Reading /\ xLogged' = xLogged
    BY <1>4 DEF X!Skip, X!Capture, X!Go, X!Alive
  <2>2. Consumed(s) /\ \A r \in X!Starts \ {s} : xUnread'[r] = xUnread[r] /\ xLoop'[r] = xLoop[r]
    BY <1>4, <2>1 DEF X!Skip, X!Capture, X!Go, Consumed
  <2> QED
    BY <2>1, <2>2
<1>5. ASSUME NEW s \in X!Starts,
             X!Copy(s) \/ X!Notified(s) \/ X!TellStop(s) \/ X!CancelContext(s)
               \/ X!HandlerReturns(s)
      PROVE  Goal
  BY <1>5 DEF X!Copy, X!Notified, X!TellStop, X!CancelContext, X!HandlerReturns, X!Go, X!Alive
<1>6. CASE X!KernelLogs
  <2>1. PICK m \in {X!Other} \union ({xLogged + 1} \intersect X!Events) :
            /\ xLogged' = IF m = X!Other THEN xLogged ELSE m
            /\ xUnread' = [s \in X!Starts |->
                            IF xLoop[s] \in X!Alive \ {"open"}
                            THEN Append(xUnread[s], m) ELSE xUnread[s]]
            /\ xLoop' = xLoop
    BY <1>6 DEF X!KernelLogs
  <2>2. m \in Nat /\ xLogged <= xLogged' /\ (m # X!Other => m = xLogged + 1 /\ xLogged' = m)
    BY <2>1 DEF X!Other, X!Events
  <2>3. \A s \in Reading' : Received(s)
    BY <2>1, <2>2 DEF Received
  <2> QED
    BY <2>2, <2>3
<1>7. CASE UNCHANGED xVars \/ \E r \in Registrations : X!RegisterHandler(r)
  BY <1>7 DEF xVars, X!RegisterHandler
<1> QED
  BY <1>1, <1>2, <1>3, <1>4, <1>5, <1>6, <1>7 DEF XidStep, X!Watch

LEMMA BehindStays ==
    ASSUME XidTyped, XidStep, NEW n \in Nat, Behind(n)
    PROVE  Behind(n)'
<1>1. n <= xLogged'
  BY UnreadMoves, XidKeepsTyped DEF Behind, XidTyped
<1>2. ASSUME NEW s \in Reading', NEW k \in DOMAIN xUnread'[s], xUnread'[s][k] # X!Other
      PROVE  n < xUnread'[s][k]
  <2>1. s \in X!Starts /\ xUnread[s] \in Seq(Nat)
    BY DEF XidTyped, Reading
  <2>2. CASE Emptied(s)
    BY <1>2, <2>2 DEF Emptied
  <2>3. CASE Left(s)
    BY <1>2, <2>3 DEF Left, Behind
  <2>4. CASE Consumed(s)
    <3>1. k + 1 \in DOMAIN xUnread[s] /\ xUnread'[s][k] = xUnread[s][k + 1]
      BY <1>2, <2>1, <2>4, HeadTailProperties DEF Consumed
    <3> QED
      BY <1>2, <2>4, <3>1 DEF Consumed, Behind
  <2>5. CASE Received(s)
    <3>1. PICK m \in Nat :
              /\ xUnread'[s] = Append(xUnread[s], m)
              /\ m # X!Other => m = xLogged + 1
      BY <2>5 DEF Received
    <3>2. CASE k = Len(xUnread[s]) + 1
      <4>1. xUnread'[s][k] = m
        BY <2>1, <3>1, <3>2, AppendProperties
      <4> QED
        BY <1>2, <3>1, <4>1 DEF Behind, XidTyped
    <3>3. CASE k # Len(xUnread[s]) + 1
      <4>1. k \in DOMAIN xUnread[s] /\ xUnread'[s][k] = xUnread[s][k]
        BY <1>2, <2>1, <3>1, <3>3, AppendProperties
      <4> QED
        BY <1>2, <2>5, <4>1 DEF Behind, Received
    <3> QED
      BY <3>2, <3>3
  <2> QED
    BY <2>2, <2>3, <2>4, <2>5, UnreadMoves
<1> QED
  BY <1>1, <1>2 DEF Behind

LEMMA UnreadStaysInOrder ==
    ASSUME XidTyped, XidStep, UnreadInOrder
    PROVE  UnreadInOrder'
<1> SUFFICES ASSUME NEW s \in Reading'
             PROVE  \A j \in DOMAIN xUnread'[s] :
                      /\ xUnread'[s][j] <= xLogged'
                      /\ \A i \in DOMAIN xUnread'[s] :
                           i < j /\ xUnread'[s][j] # X!Other
                             => xUnread'[s][i] < xUnread'[s][j]
  BY DEF UnreadInOrder
<1>1. s \in X!Starts /\ xUnread[s] \in Seq(Nat) /\ xLogged \in Nat /\ xLogged' \in Nat
  BY XidKeepsTyped DEF XidTyped, Reading
<1>2. xLogged <= xLogged'
  BY UnreadMoves
<1>3. CASE Emptied(s)
  BY <1>3 DEF Emptied
<1>4. CASE Left(s)
  BY <1>1, <1>2, <1>4 DEF Left, UnreadInOrder
<1>5. CASE Consumed(s)
  <2>1. \A k \in DOMAIN xUnread'[s] :
            k + 1 \in DOMAIN xUnread[s] /\ xUnread'[s][k] = xUnread[s][k + 1] /\ k \in Nat
    BY <1>1, <1>5, HeadTailProperties DEF Consumed
  <2> QED
    <3> SUFFICES ASSUME NEW j \in DOMAIN xUnread'[s]
                 PROVE  /\ xUnread'[s][j] <= xLogged'
                        /\ \A i \in DOMAIN xUnread'[s] :
                             i < j /\ xUnread'[s][j] # X!Other
                               => xUnread'[s][i] < xUnread'[s][j]
      OBVIOUS
    <3>2. s \in Reading /\ j + 1 \in DOMAIN xUnread[s]
      BY <1>5, <2>1 DEF Consumed
    <3>1. /\ xUnread[s][j + 1] <= xLogged /\ xUnread[s][j + 1] \in Nat
          /\ \A i \in DOMAIN xUnread[s] :
               i < j + 1 /\ xUnread[s][j + 1] # X!Other => xUnread[s][i] < xUnread[s][j + 1]
      BY <1>1, <3>2 DEF UnreadInOrder
    <3> QED
      BY <1>1, <1>2, <2>1, <3>1
<1>6. CASE Received(s)
  <2>1. PICK m \in Nat :
            /\ xUnread'[s] = Append(xUnread[s], m)
            /\ m # X!Other => m = xLogged + 1 /\ xLogged' = m
    BY <1>6 DEF Received
  <2>2. \A k \in DOMAIN xUnread'[s] :
            \/ k \in DOMAIN xUnread[s] /\ xUnread'[s][k] = xUnread[s][k]
            \/ k = Len(xUnread[s]) + 1 /\ xUnread'[s][k] = m
    BY <1>1, <2>1, AppendProperties
  <2>3. m <= xLogged'
    BY <1>1, <2>1 DEF X!Other
  <2>4. \A k \in DOMAIN xUnread[s] : xUnread[s][k] <= xLogged /\ xUnread[s][k] \in Nat /\ k <= Len(xUnread[s])
    BY <1>1, <1>6 DEF Received, UnreadInOrder
  <2>5. ASSUME NEW j \in DOMAIN xUnread'[s] PROVE xUnread'[s][j] <= xLogged'
    BY <1>1, <1>2, <2>2, <2>3, <2>4
  <2>6. ASSUME NEW j \in DOMAIN xUnread'[s], NEW i \in DOMAIN xUnread'[s],
               i < j, xUnread'[s][j] # X!Other
        PROVE  xUnread'[s][i] < xUnread'[s][j]
    <3>1. i \in DOMAIN xUnread[s] /\ xUnread'[s][i] = xUnread[s][i]
      BY <1>1, <2>2, <2>4, <2>6
    <3>2. CASE j \in DOMAIN xUnread[s] /\ xUnread'[s][j] = xUnread[s][j]
      BY <1>6, <2>6, <3>1, <3>2 DEF Received, UnreadInOrder
    <3>3. CASE xUnread'[s][j] = m
      BY <1>1, <2>1, <2>4, <2>6, <3>1, <3>3
    <3> QED
      BY <2>2, <3>2, <3>3
  <2> QED
    BY <2>5, <2>6
<1> QED
  BY <1>3, <1>4, <1>5, <1>6, UnreadMoves

\* A loop that tells handlers either took its event in this step, or goes on
\* with what it had; nobody else writes to the buffer meanwhile.
LEMMA TellingMoves ==
    ASSUME XidTyped, OneLoop, XidStep, NEW s \in Telling'
    PROVE  \/ X!Capture(s)
           \/ s \in Telling /\ UNCHANGED <<xBuffer, xEvent>>
<1> DEFINE Goal == X!Capture(s) \/ (s \in Telling /\ UNCHANGED <<xBuffer, xEvent>>)
<1> USE DEF XidTyped, Telling, X!callerVars, X!loopVars
<1>1. ASSUME NEW t \in XidThreads, X!Starting(t) \/ X!Stopping(t) PROVE Goal
  <2>1. UNCHANGED <<xBuffer, xEvent>>
    BY <1>1 DEF X!Starting, X!StartCAS, X!Unavailable, X!Spawn, X!Stopping, X!StopCAS,
                X!Close, X!Wait
  <2>2. UNCHANGED xLoop \/ \E r \in X!Starts : xLoop' = [xLoop EXCEPT ![r] = "open"]
    BY <1>1 DEF X!Starting, X!StartCAS, X!Unavailable, X!Spawn, X!Stopping, X!StopCAS,
                X!Close, X!Wait
  <2> QED
    BY <2>1, <2>2
<1>2. ASSUME NEW r \in X!Starts, X!Capture(r) PROVE Goal
  <2>1. r \in X!Starts /\ xLoop[r] = "scan" /\ xLoop' = [xLoop EXCEPT ![r] = "notify"]
    BY <1>2 DEF X!Capture, X!Go
  <2>2. s = r \/ xLoop[s] \in {"notify", "calling"}
    BY <2>1
  <2>3. s = r
    BY <2>1, <2>2 DEF OneLoop, X!Alive
  <2> QED
    BY <1>2, <2>3
<1>3. ASSUME NEW r \in X!Starts, X!Notified(r) PROVE Goal
  <2>1. r \in X!Starts /\ xLoop[r] = "calling" /\ xLoop' = [xLoop EXCEPT ![r] = "check"]
    BY <1>3 DEF X!Notified, X!Go
  <2>2. s # r /\ xLoop[s] \in {"notify", "calling"}
    BY <2>1
  <2> QED
    BY <2>1, <2>2 DEF OneLoop, X!Alive
<1>4. ASSUME NEW r \in X!Starts,
             X!Open(r) \/ X!Check(r) \/ X!Skip(r) \/ X!Copy(r) \/ X!Fail(r)
               \/ X!TellStop(r) \/ X!CancelContext(r) \/ X!HandlerReturns(r)
      PROVE  Goal
  BY <1>4 DEF X!Open, X!Check, X!Skip, X!Copy, X!Fail, X!TellStop, X!CancelContext,
              X!HandlerReturns, X!Go
<1>5. CASE X!KernelLogs \/ UNCHANGED xVars \/ \E r \in Registrations : X!RegisterHandler(r)
  BY <1>5 DEF xVars, X!RegisterHandler, X!KernelLogs
<1> QED
  BY <1>1, <1>2, <1>3, <1>4, <1>5 DEF XidStep, X!Watch

\* The event that is captured was the first of those unread: all that were
\* captured before are earlier, all that will be are later.
LEMMA CapturePasses ==
    ASSUME XidTyped, OneLoop, UnreadInOrder, NEW s \in X!Starts, X!Capture(s)
    PROVE  \E e \in X!Events :
              /\ xEvent'[s] = {e} /\ Behind(e)'
              /\ xBuffer' # << >> /\ Last(xBuffer') = e
              /\ \A n \in Nat : Behind(n) => n < e
<1>0. PICK e \in X!Events : e = Head(xUnread[s])
  BY DEF X!Capture
<1>1. /\ s \in Reading /\ e = xUnread[s][1]
      /\ xUnread[s] \in Seq(Nat) /\ xUnread[s] # << >>
      /\ 1 \in DOMAIN xUnread[s] /\ e # X!Other
  BY <1>0, HeadTailProperties, EmptySeq DEF X!Capture, X!Go, Reading, X!Alive, XidTyped, X!Events, X!Other
<1>2. xEvent'[s] = {e} /\ xUnread'[s] = Tail(xUnread[s]) /\ xLogged' = xLogged
  BY <1>0 DEF X!Capture, XidTyped
<1>3. xBuffer' # << >> /\ Last(xBuffer') = e
  <2>1. xBuffer' = Push(xBuffer, e, XidCapacity)
    BY <1>0 DEF X!Capture, X!Log!Pushed, Push
  <2> QED
    BY <1>1, <2>1, PushKeepsLast, MonitorAssumption
       DEF MonitorAssumption, X!XidConstants, XidTyped
<1>4. Reading' \subseteq {s}
  BY <1>1 DEF X!Capture, X!Go, OneLoop, Reading, XidTyped, X!Alive
<1>5. \A k \in DOMAIN xUnread'[s] :
        k + 1 \in DOMAIN xUnread[s] /\ xUnread'[s][k] = xUnread[s][k + 1] /\ 1 < k + 1
  BY <1>1, <1>2, HeadTailProperties
<1>6. Behind(e)'
  BY <1>1, <1>2, <1>4, <1>5 DEF Behind, UnreadInOrder
<1>7. \A n \in Nat : Behind(n) => n < e
  BY <1>1 DEF Behind
<1> QED
  BY <1>1, <1>2, <1>3, <1>6, <1>7

XidInv == XidTyped /\ XidTurns /\ OneLoop /\ UnreadInOrder /\ EventIsNewest

LEMMA XidInvInitially == Init => XidInv
<1> SUFFICES ASSUME Init PROVE XidInv
  OBVIOUS
<1>1. Reading = {} /\ Telling = {}
  BY DEF Init, X!Init, Reading, Telling, X!Alive
<1> QED
  BY <1>1, XidInitially DEF XidInv, UnreadInOrder, EventIsNewest

LEMMA XidKeepsInv ==
    ASSUME XidInv, XidStep
    PROVE  XidInv'
<1> USE DEF XidInv
<1>1. EventIsNewest'
  <2> SUFFICES ASSUME NEW s \in Telling', NEW e \in xEvent'[s]
               PROVE  Behind(e)' /\ xBuffer' # << >> /\ Last(xBuffer') = e
    BY DEF EventIsNewest
  <2>1. CASE X!Capture(s)
    BY <2>1, CapturePasses DEF Telling
  <2>2. CASE s \in Telling /\ UNCHANGED <<xBuffer, xEvent>>
    <3>1. Behind(e) /\ e \in Nat
      BY <2>2 DEF EventIsNewest, XidTyped, Telling, X!Events
    <3> QED
      BY <2>2, <3>1, BehindStays DEF EventIsNewest
  <2> QED
    BY <2>1, <2>2, TellingMoves
<1> QED
  BY <1>1, XidKeepsTyped, XidKeepsTurns, UnreadStaysInOrder

-------------------------------------------------------------------------------
(* The watcher of Kubernetes events *)

K8sStages == {"idle", "create", "unsync", "close", "wait"}

K8sTyped ==
    /\ kRunning \in BOOLEAN
    /\ kThread \in [K8sThreads -> K8sStages]
    /\ kInformer \in [K!Starts -> K!Alive \union {"none", "done"}]
    /\ kEvent \in [K!Starts -> SUBSET RelevantK8s]
    /\ kCalls \in [K!Starts -> Seq(Registrations)]
    /\ kHandlers \in Seq(Registrations)
    /\ kBuffer \in Seq(RelevantK8s)
    /\ Len(kBuffer) <= K8sCapacity

K8sQuiet == \A s \in K!Starts : kInformer[s] \notin K!Alive

\* As for the XID watcher, with one stage more in Stop.
K8sTurns ==
    /\ \A t, u \in K8sThreads : kThread[t] # "idle" /\ kThread[u] # "idle" => t = u
    /\ \A t \in K8sThreads : kThread[t] = "create" => kRunning /\ K8sQuiet
    /\ \A t \in K8sThreads : kThread[t] \in {"unsync", "close", "wait"} => ~kRunning
    /\ ~kRunning /\ (\A t \in K8sThreads : kThread[t] = "idle") => K8sQuiet

OneInformer ==
    \A r, s \in K!Starts : kInformer[r] \in K!Alive /\ kInformer[s] \in K!Alive => r = s

Delivering == {s \in K!Starts : kInformer[s] \in {"notify", "calling"}}

K8sEventIsNewest ==
    \A s \in Delivering : \A e \in kEvent[s] : kBuffer # << >> /\ Last(kBuffer) = e

K8sInv == K8sTyped /\ K8sTurns /\ OneInformer /\ K8sEventIsNewest

K8sStep ==
    \/ \E t \in K8sThreads : K!Starting(t) \/ K!Stopping(t)
    \/ \E s \in K!Starts : K!Inform(s) \/ K!Wait4Sync(s) \/ K!HandlerReturns(s)
    \/ \E e \in K8sEvents : K!Publish(e)
    \/ \E r \in Registrations : K!RegisterHandler(r)
    \/ UNCHANGED kVars

LEMMA K8sInitially == Init => K8sInv
<1> SUFFICES ASSUME Init PROVE K8sInv
  OBVIOUS
<1>1. kHandlers = << >> /\ kBuffer = << >>
  BY DEF Init, K!Init
<1>2. Len(kBuffer) <= K8sCapacity
  BY <1>1, MonitorAssumption DEF MonitorAssumption, K!K8sConstants
<1>3. K8sTyped
  <2>1. /\ kHandlers \in Seq(Registrations) /\ kBuffer \in Seq(RelevantK8s)
        /\ kCalls \in [K!Starts -> Seq(Registrations)]
    BY <1>1 DEF Init, K!Init
  <2>2. /\ kRunning \in BOOLEAN
        /\ kThread \in [K8sThreads -> K8sStages]
        /\ kInformer \in [K!Starts -> K!Alive \union {"none", "done"}]
        /\ kEvent \in [K!Starts -> SUBSET RelevantK8s]
    BY DEF Init, K!Init, K8sStages
  <2> QED
    BY <1>2, <2>1, <2>2 DEF K8sTyped
<1>4. K8sTurns /\ OneInformer /\ K8sEventIsNewest
  BY DEF Init, K!Init, K8sTurns, OneInformer, K8sEventIsNewest, K8sQuiet, Delivering, K!Alive
<1> QED
  BY <1>3, <1>4 DEF K8sInv

LEMMA NextStepsK8s == Next => K8sStep
<1> SUFFICES ASSUME Next PROVE K8sStep
  OBVIOUS
<1> USE DEF K8sStep, kVars, K!Starts
<1>1. CASE \E t \in XidThreads : XidCaller(t)
  BY <1>1 DEF XidCaller
<1>2. CASE \E t \in K8sThreads : K8sCaller(t)
  BY <1>2 DEF K8sCaller
<1>3. CASE \E s \in 1..XidStarts : XidWatching(s) \/ XidFailure(s) \/ XidTeller(s)
  BY <1>3 DEF XidWatching, XidFailure, XidTeller, XidHandler
<1>4. CASE \E s \in 1..K8sStarts : K8sWatching(s) \/ K8sSyncer(s)
  BY <1>4 DEF K8sWatching, K8sSyncer, K8sHandler
<1>5. CASE \E r \in Registrations : Owner(r) \/ CancelParent(r)
  BY <1>5 DEF Owner, RegisterXid, RegisterK8s, Cleanup, CleanupReturns, CancelParent
<1>6. CASE \E i \in DOMAIN work : Work(i)
  BY <1>6 DEF Work, Gather, GiveUp, Verdict, CallbackReturns, Advance
<1>7. CASE XidEnvironment
  BY <1>7 DEF XidEnvironment
<1>8. CASE K8sEnvironment
  BY <1>8 DEF K8sEnvironment
<1> QED
  BY <1>1, <1>2, <1>3, <1>4, <1>5, <1>6, <1>7, <1>8 DEF Next

\* What a step of an informer may do to it: it goes on or ends, and starts
\* nothing.
K8sInformers ==
    /\ UNCHANGED K!callerVars
    /\ kInformer' \in [K!Starts -> K!Alive \union {"none", "done"}]
    /\ \A s \in K!Starts : kInformer'[s] \in K!Alive => kInformer[s] \in K!Alive

LEMMA InformersKeepTurns ==
    ASSUME K8sTyped, K8sTurns, OneInformer, K8sInformers
    PROVE  K8sTurns' /\ OneInformer'
BY DEF K8sTyped, K8sTurns, OneInformer, K8sInformers, K8sQuiet, K!callerVars

LEMMA InformIsInformer ==
    ASSUME K8sTyped, NEW s \in K!Starts,
           K!Inform(s) \/ K!Wait4Sync(s) \/ K!HandlerReturns(s)
    PROVE  K8sInformers
<1> USE DEF K8sTyped, K8sInformers, K!Alive, K!Go, K!informerVars
<1>1. CASE K!List(s) \/ K!Quit(s) \/ K!Filter(s)
  BY <1>1 DEF K!List, K!Quit, K!Filter
<1>2. CASE K!Capture(s) \/ K!Copy(s) \/ K!Notified(s)
  BY <1>2 DEF K!Capture, K!Copy, K!Notified
<1>3. CASE K!Wait4Sync(s) \/ K!HandlerReturns(s)
  BY <1>3 DEF K!Wait4Sync, K!SeeSync, K!StoreSynced, K!HandlerReturns
<1> QED
  BY <1>1, <1>2, <1>3 DEF K!Inform

LEMMA K8sKeepsTurns ==
    ASSUME K8sTyped, K8sTurns, OneInformer, K8sStep
    PROVE  K8sTurns' /\ OneInformer'
<1> USE DEF K8sTyped, K8sStages, K8sTurns, OneInformer, K8sQuiet, K!Move, K!NobodyIn,
            K!informerVars
<1>1. ASSUME NEW t \in K8sThreads, K!StartCAS(t) PROVE K8sTurns' /\ OneInformer'
  BY <1>1 DEF K!StartCAS
<1>2. ASSUME NEW t \in K8sThreads, K!AddEventHandlerFails(t)
      PROVE  K8sTurns' /\ OneInformer'
  BY <1>2 DEF K!AddEventHandlerFails
<1>3. ASSUME NEW t \in K8sThreads, K!Spawn(t) PROVE K8sTurns' /\ OneInformer'
  <2>1. PICK s \in K!Starts :
            /\ K!Move(t, "create", "idle")
            /\ kInformer' = [kInformer EXCEPT ![s] = "list"]
            /\ UNCHANGED kRunning
    BY <1>3 DEF K!Spawn
  <2>2. kRunning /\ K8sQuiet /\ \A u \in K8sThreads : kThread'[u] = "idle"
    BY <2>1
  <2>3. \A r \in K!Starts : kInformer'[r] \in K!Alive => r = s
    BY <2>1, <2>2
  <2> QED
    BY <2>1, <2>2, <2>3
<1>4. ASSUME NEW t \in K8sThreads, K!StopCAS(t) PROVE K8sTurns' /\ OneInformer'
  BY <1>4 DEF K!StopCAS
<1>5. ASSUME NEW t \in K8sThreads, K!Unsync(t) PROVE K8sTurns' /\ OneInformer'
  BY <1>5 DEF K!Unsync
<1>6. ASSUME NEW t \in K8sThreads, K!Close(t) PROVE K8sTurns' /\ OneInformer'
  BY <1>6 DEF K!Close
<1>7. ASSUME NEW t \in K8sThreads, K!Wait(t) PROVE K8sTurns' /\ OneInformer'
  BY <1>7 DEF K!Wait, K!GoroutinesDone
<1>8. CASE \E s \in K!Starts : K!Inform(s) \/ K!Wait4Sync(s) \/ K!HandlerReturns(s)
  BY <1>8, InformIsInformer, InformersKeepTurns
<1>9. CASE \/ \E e \in K8sEvents : K!Publish(e)
           \/ UNCHANGED kVars
           \/ \E r \in Registrations : K!RegisterHandler(r)
  BY <1>9, InformersKeepTurns
     DEF K8sInformers, K!Publish, K!RegisterHandler, kVars, K!callerVars
<1> QED
  BY <1>1, <1>2, <1>3, <1>4, <1>5, <1>6, <1>7, <1>8, <1>9 DEF K8sStep, K!Starting, K!Stopping

LEMMA K8sKeepsTyped ==
    ASSUME K8sTyped, K8sStep
    PROVE  K8sTyped'
<1> USE DEF K8sTyped
<1>1. ASSUME NEW t \in K8sThreads, K!Starting(t) \/ K!Stopping(t) PROVE K8sTyped'
  <2>1. kThread' \in [K8sThreads -> K8sStages] /\ kRunning' \in BOOLEAN
    BY <1>1 DEF K!Starting, K!StartCAS, K!AddEventHandlerFails, K!Spawn, K!Stopping,
                K!StopCAS, K!Unsync, K!Close, K!Wait, K!Move, K8sStages
  <2>2. kInformer' \in [K!Starts -> K!Alive \union {"none", "done"}]
    BY <1>1 DEF K!Starting, K!StartCAS, K!AddEventHandlerFails, K!Spawn, K!Stopping,
                K!StopCAS, K!Unsync, K!Close, K!Wait, K!informerVars, K!Alive
  <2>3. UNCHANGED <<kEvent, kCalls, kHandlers, kBuffer>>
    BY <1>1 DEF K!Starting, K!StartCAS, K!AddEventHandlerFails, K!Spawn, K!Stopping,
                K!StopCAS, K!Unsync, K!Close, K!Wait, K!informerVars
  <2> QED
    BY <2>1, <2>2, <2>3
<1>2. ASSUME NEW s \in K!Starts, K!Capture(s) PROVE K8sTyped'
  <2>1. /\ Head(kQueue[s]) \in RelevantK8s
        /\ kBuffer' = Push(kBuffer, Head(kQueue[s]), K8sCapacity)
    BY <1>2 DEF K!Capture, K!Log!Pushed, Push
  <2>2. kBuffer' \in Seq(RelevantK8s) /\ Len(kBuffer') <= K8sCapacity
    BY <2>1, PushKeepsLast, MonitorAssumption DEF MonitorAssumption, K!K8sConstants
  <2>3. kEvent' \in [K!Starts -> SUBSET RelevantK8s]
    BY <1>2, <2>1 DEF K!Capture
  <2>4. kInformer' \in [K!Starts -> K!Alive \union {"none", "done"}]
    BY <1>2, InformIsInformer DEF K!Inform, K8sInformers
  <2> QED
    BY <1>2, <2>2, <2>3, <2>4 DEF K!Capture, K!callerVars
<1>3. ASSUME NEW s \in K!Starts,
             K!List(s) \/ K!Quit(s) \/ K!Filter(s) \/ K!Wait4Sync(s)
      PROVE  K8sTyped'
  <2>1. kInformer' \in [K!Starts -> K!Alive \union {"none", "done"}]
    BY <1>3, InformIsInformer DEF K!Inform, K8sInformers
  <2> QED
    BY <1>3, <2>1 DEF K!List, K!Quit, K!Filter, K!Wait4Sync, K!SeeSync, K!StoreSynced,
       K!callerVars, K!informerVars
<1>4. ASSUME NEW s \in K!Starts, K!Copy(s) \/ K!Notified(s) \/ K!HandlerReturns(s)
      PROVE  K8sTyped'
  <2>1. kCalls' \in [K!Starts -> Seq(Registrations)]
    <3>1. \A q \in Seq(Registrations) : q # << >> => Tail(q) \in Seq(Registrations)
      OBVIOUS
    <3>2. \/ UNCHANGED kCalls
          \/ kCalls' = [kCalls EXCEPT ![s] = kHandlers]
          \/ kCalls[s] # << >> /\ kCalls' = [kCalls EXCEPT ![s] = Tail(@)]
      BY <1>4 DEF K!Copy, K!Notified, K!HandlerReturns
    <3>3. kCalls[s] \in Seq(Registrations)
      OBVIOUS
    <3>4. CASE kCalls[s] # << >> /\ kCalls' = [kCalls EXCEPT ![s] = Tail(@)]
      <4>1. Tail(kCalls[s]) \in Seq(Registrations)
        BY <3>1, <3>3, <3>4
      <4> QED
        BY <3>4, <4>1
    <3> QED
      BY <3>2, <3>4
  <2>2. kEvent' \in [K!Starts -> SUBSET RelevantK8s]
    BY <1>4 DEF K!Copy, K!Notified, K!HandlerReturns
  <2>3. kInformer' \in [K!Starts -> K!Alive \union {"none", "done"}]
    BY <1>4, InformIsInformer DEF K!Inform, K8sInformers
  <2> QED
    BY <1>4, <2>1, <2>2, <2>3 DEF K!Copy, K!Notified, K!HandlerReturns, K!callerVars
<1>5. ASSUME NEW r \in Registrations, K!RegisterHandler(r) PROVE K8sTyped'
  <2>1. kHandlers' \in Seq(Registrations)
    BY <1>5 DEF K!RegisterHandler
  <2> QED
    BY <1>5, <2>1 DEF K!RegisterHandler, K!callerVars, K!informerVars
<1>6. CASE UNCHANGED kVars \/ \E e \in K8sEvents : K!Publish(e)
  BY <1>6 DEF kVars, K!Publish, K!callerVars
<1> QED
  BY <1>1, <1>2, <1>3, <1>4, <1>5, <1>6 DEF K8sStep, K!Inform

LEMMA K8sKeepsInv ==
    ASSUME K8sInv, K8sStep
    PROVE  K8sInv'
<1> USE DEF K8sInv
<1>1. K8sTyped' /\ K8sTurns' /\ OneInformer'
  BY K8sKeepsTyped, K8sKeepsTurns
<1>2. ASSUME NEW s \in K!Starts, K!Capture(s) PROVE K8sEventIsNewest'
  <2>1. PICK e \in RelevantK8s : e = Head(kQueue[s])
    BY <1>2 DEF K!Capture
  <2>2. kBuffer' = Push(kBuffer, e, K8sCapacity)
    BY <1>2, <2>1 DEF K!Capture, K!Log!Pushed, Push
  <2>3. kBuffer' # << >> /\ Last(kBuffer') = e
    BY <2>2, PushKeepsLast, MonitorAssumption DEF MonitorAssumption, K!K8sConstants, K8sTyped
  <2>4. kEvent'[s] = {e}
    BY <1>2, <2>1 DEF K!Capture, K8sTyped
  <2>5. Delivering' \subseteq {s}
    BY <1>2 DEF K!Capture, K!Go, OneInformer, Delivering, K8sTyped, K!Alive
  <2> QED
    BY <2>3, <2>4, <2>5 DEF K8sEventIsNewest
<1>3. ASSUME NEW r \in K!Starts, K!Notified(r) PROVE K8sEventIsNewest'
  <2>1. Delivering' = {}
    BY <1>3 DEF K!Notified, K!Go, OneInformer, Delivering, K8sTyped, K!Alive
  <2> QED
    BY <2>1 DEF K8sEventIsNewest
<1>4. ASSUME NEW t \in K8sThreads, K!Starting(t) \/ K!Stopping(t)
      PROVE  K8sEventIsNewest'
  <2>1. UNCHANGED <<kBuffer, kEvent>>
    BY <1>4 DEF K!Starting, K!StartCAS, K!AddEventHandlerFails, K!Spawn, K!Stopping,
                K!StopCAS, K!Unsync, K!Close, K!Wait, K!informerVars
  <2>2. UNCHANGED kInformer \/ \E r \in K!Starts : kInformer' = [kInformer EXCEPT ![r] = "list"]
    BY <1>4 DEF K!Starting, K!StartCAS, K!AddEventHandlerFails, K!Spawn, K!Stopping,
                K!StopCAS, K!Unsync, K!Close, K!Wait, K!informerVars
  <2>3. Delivering' \subseteq Delivering
    BY <2>2 DEF Delivering, K8sTyped
  <2> QED
    BY <2>1, <2>3 DEF K8sEventIsNewest
<1>5. ASSUME NEW r \in K!Starts,
             K!List(r) \/ K!Quit(r) \/ K!Filter(r) \/ K!Copy(r) \/ K!Wait4Sync(r)
               \/ K!HandlerReturns(r)
      PROVE  K8sEventIsNewest'
  <2>1. UNCHANGED <<kBuffer, kEvent>> /\ Delivering' \subseteq Delivering
    BY <1>5 DEF K!List, K!Quit, K!Filter, K!Copy, K!Wait4Sync, K!SeeSync, K!StoreSynced,
       K!HandlerReturns, K!Go, K!informerVars, Delivering, K8sTyped
  <2> QED
    BY <2>1 DEF K8sEventIsNewest
<1>6. CASE \/ \E e \in K8sEvents : K!Publish(e)
           \/ UNCHANGED kVars
           \/ \E r \in Registrations : K!RegisterHandler(r)
  <2>1. UNCHANGED <<kBuffer, kEvent, kInformer>>
    BY <1>6 DEF kVars, K!Publish, K!RegisterHandler, K!informerVars
  <2> QED
    BY <1>1, <2>1 DEF K8sEventIsNewest, Delivering
<1> QED
  BY <1>1, <1>2, <1>3, <1>4, <1>5, <1>6 DEF K8sStep, K!Inform

-------------------------------------------------------------------------------
(* Both watchers *)

WatchersInv == XidInv /\ K8sInv

LEMMA WatchersInvariant == Spec => []WatchersInv
<1>1. Init => WatchersInv
  BY XidInvInitially, K8sInitially DEF WatchersInv
<1>2. WatchersInv /\ [Next]_vars => WatchersInv'
  BY XidKeepsInv, K8sKeepsInv, NextStepsXid, NextStepsK8s
     DEF WatchersInv, XidStep, K8sStep, vars
<1> QED
  BY <1>1, <1>2, PTL DEF Spec

\* Stop, and a Start that failed, leave no goroutine behind that reads, captures
\* or calls handlers, however many callers race and however often a watcher is
\* restarted.
THEOREM WatchersStop == Spec => []StoppedIsQuiet
<1>1. WatchersInv => StoppedIsQuiet
  BY DEF WatchersInv, XidInv, K8sInv, XidTyped, K8sTyped, XidTurns, K8sTurns, XidQuiet,
         K8sQuiet, StoppedIsQuiet, X!Starts, K!Starts
<1> QED
  BY <1>1, WatchersInvariant, PTL

-------------------------------------------------------------------------------
(* Lemmas on EvictedOnly *)

LEMMA EvictedByItems ==
    ASSUME NEW S, NEW before \in Seq(S), NEW after \in Seq(S), NEW capacity
    PROVE  EvictedOnly(before, after, capacity) <=>
             \E k \in 0..Len(before) :
                /\ Len(before) - k <= Len(after)
                /\ \A i \in 1..Len(before) - k : after[i] = before[k + i]
                /\ k > 0 => Len(after) = capacity
<1> SUFFICES ASSUME NEW k \in 0..Len(before)
             PROVE  IsPrefix(SubSeq(before, k + 1, Len(before)), after) <=>
                      /\ Len(before) - k <= Len(after)
                      /\ \A i \in 1..Len(before) - k : after[i] = before[k + i]
  BY DEF EvictedOnly
<1> DEFINE n == Len(before) - k
           rest == SubSeq(before, k + 1, Len(before))
<1>1. /\ n \in Nat /\ rest \in Seq(S) /\ Len(rest) = n
      /\ \A i \in 1..n : rest[i] = before[k + i]
  BY SubSeqProperties
<1>2. SubSeq(rest, 1, n) \in Seq(S) /\ Len(SubSeq(rest, 1, n)) = n
      /\ \A i \in 1..n : SubSeq(rest, 1, n)[i] = rest[i]
  BY <1>1, SubSeqProperties
<1>3. ASSUME n <= Len(after)
      PROVE  /\ SubSeq(after, 1, n) \in Seq(S) /\ Len(SubSeq(after, 1, n)) = n
             /\ \A i \in 1..n : SubSeq(after, 1, n)[i] = after[i]
  BY <1>1, <1>3, SubSeqProperties
<1>4. ASSUME n <= Len(after)
      PROVE  SubSeq(rest, 1, n) = SubSeq(after, 1, n)
               <=> \A i \in 1..n : rest[i] = after[i]
  BY <1>1, <1>2, <1>3, <1>4, SeqEqual
<1> QED
  BY <1>1, <1>4 DEF IsPrefix

LEMMA NothingEvicted ==
    ASSUME NEW S, NEW l \in Seq(S), NEW capacity
    PROVE  EvictedOnly(l, l, capacity)
<1>1. /\ 0 \in 0..Len(l) /\ Len(l) - 0 <= Len(l)
      /\ \A i \in 1..Len(l) - 0 : l[i] = l[0 + i]
  BY LenProperties
<1> QED
  BY <1>1, EvictedByItems

LEMMA EvictedByPush ==
    ASSUME NEW S, NEW before \in Seq(S), NEW after \in Seq(S), NEW x \in S,
           NEW capacity \in Nat \ {0}, Len(after) <= capacity,
           EvictedOnly(before, after, capacity)
    PROVE  EvictedOnly(before, Push(after, x, capacity), capacity)
<1> DEFINE p == Push(after, x, capacity)
<1>1. PICK k \in 0..Len(before) :
        /\ Len(before) - k <= Len(after)
        /\ \A i \in 1..Len(before) - k : after[i] = before[k + i]
        /\ k > 0 => Len(after) = capacity
  BY EvictedByItems
<1>2. /\ p \in Seq(S)
      /\ Len(p) = IF Len(after) < capacity THEN Len(after) + 1 ELSE capacity
      /\ \A i \in 1..Len(p) - 1 :
           p[i] = IF Len(after) < capacity THEN after[i] ELSE after[i + 1]
  BY PushKeepsLast
<1>3. Len(before) \in Nat /\ Len(after) \in Nat
  OBVIOUS
<1> HIDE DEF p
<1>4. CASE Len(after) < capacity
  <2>1. /\ Len(before) - k <= Len(p)
        /\ \A i \in 1..Len(before) - k : p[i] = before[k + i]
        /\ k > 0 => Len(p) = capacity
    BY <1>1, <1>2, <1>3, <1>4
  <2> QED
    BY <1>2, <2>1, EvictedByItems DEF p
<1>5. CASE ~(Len(after) < capacity) /\ k < Len(before)
  <2>1. /\ k + 1 \in 0..Len(before)
        /\ Len(before) - (k + 1) <= Len(p)
        /\ k + 1 > 0 => Len(p) = capacity
    BY <1>1, <1>2, <1>3, <1>5
  <2>2. ASSUME NEW i \in 1..Len(before) - (k + 1) PROVE p[i] = before[(k + 1) + i]
    <3>1. i + 1 \in 1..Len(before) - k /\ i \in 1..Len(p) - 1
      BY <1>1, <1>2, <1>3, <1>5
    <3>2. p[i] = after[i + 1] /\ after[i + 1] = before[k + (i + 1)]
      BY <1>1, <1>2, <1>5, <3>1
    <3> QED
      BY <3>2
  <2> QED
    BY <1>2, <2>1, <2>2, EvictedByItems DEF p
<1>6. CASE ~(Len(after) < capacity) /\ k = Len(before)
  <2>1. /\ Len(before) - k <= Len(p) /\ 1..Len(before) - k = {}
        /\ k > 0 => Len(p) = capacity
    BY <1>1, <1>2, <1>3, <1>6
  <2> QED
    BY <1>2, <2>1, EvictedByItems DEF p
<1> QED
  BY <1>3, <1>4, <1>5, <1>6

-------------------------------------------------------------------------------
(* Registrations and correlations *)

Phases == {"none", "xid registered", "registered", "waiting", "returned"}

History == [xid : Seq(X!Events), k8s : Seq(RelevantK8s)]

Correlation ==
    [registration : Registrations, source : Source,
     trigger : X!Events \union RelevantK8s,
     at : {"xid", "k8s", "verdict", "callback", "dropped", "reported"},
     had : History, read : History]

CorrelationsTyped ==
    /\ phase \in [Registrations -> Phases]
    /\ cancelled \in [Registrations -> BOOLEAN]
    /\ work \in Seq(Correlation)

\* What a step may do to a correlation.
Reads(w, v) ==
    \/ /\ w.at = "xid" /\ v.at = "k8s"
       /\ v.read.xid = (IF "xid" \in wired THEN xBuffer ELSE w.read.xid)
       /\ v.read.k8s = w.read.k8s
    \/ /\ w.at = "k8s" /\ v.at = "verdict"
       /\ v.read.k8s = (IF "k8s" \in wired THEN kBuffer ELSE w.read.k8s)
       /\ v.read.xid = w.read.xid

Decides(w, v) ==
    /\ v.read = w.read
    /\ \/ w.at \in {"xid", "k8s"} /\ v.at = "verdict" /\ cancelled[w.registration]
       \/ w.at = "verdict" /\ v.at = "callback" /\ ~cancelled[w.registration]
       \/ w.at = "verdict" /\ v.at = "dropped"
       \/ w.at = "callback" /\ v.at = "reported"

GoesOn(i) ==
    /\ UNCHANGED <<xVars, kVars, wired, phase, cancelled>>
    /\ work' \in Seq(Correlation) /\ Len(work') = Len(work)
    /\ \A j \in DOMAIN work \ {i} : work'[j] = work[j]
    /\ LET w == work[i]  v == work'[i] IN
        /\ v.registration = w.registration /\ v.source = w.source
        /\ v.trigger = w.trigger /\ v.had = w.had
        /\ Reads(w, v) \/ Decides(w, v)

Begun(r, src, e) ==
    [registration |-> r, source |-> src, trigger |-> e,
     at |-> "xid", had |-> Buffers, read |-> NothingRead]

XidBegins(s) ==
    \E e \in xEvent[s] :
        /\ xCalls[s] # << >>
        /\ X!HandlerReturns(s)
        /\ work' = Append(work, Begun(Head(xCalls[s]), "xid", e))
        /\ UNCHANGED <<kVars, wired, phase, cancelled>>

K8sBegins(s) ==
    \E e \in kEvent[s] :
        /\ kCalls[s] # << >>
        /\ K!HandlerReturns(s)
        /\ work' = Append(work, Begun(Head(kCalls[s]), "k8s", e))
        /\ UNCHANGED <<xVars, wired, phase, cancelled>>

LEMMA CorrelationFields ==
    ASSUME NEW w \in Correlation
    PROVE  /\ w.registration \in Registrations /\ w.source \in Source
           /\ w.had.xid \in Seq(X!Events) /\ w.had.k8s \in Seq(RelevantK8s)
           /\ w.read.xid \in Seq(X!Events) /\ w.read.k8s \in Seq(RelevantK8s)
           /\ w.trigger \in X!Events \union RelevantK8s
BY DEF Correlation, History

LEMMA GatherGoesOn ==
    ASSUME CorrelationsTyped, WatchersInv, NEW i \in DOMAIN work,
           Gather(i, "xid", "k8s") \/ Gather(i, "k8s", "verdict")
    PROVE  GoesOn(i)
<1>1. work[i] \in Correlation /\ xBuffer \in Seq(X!Events) /\ kBuffer \in Seq(RelevantK8s)
  BY DEF CorrelationsTyped, WatchersInv, XidInv, XidTyped, K8sInv, K8sTyped
<1>2. CASE Gather(i, "xid", "k8s")
  <2> DEFINE w == work[i]
             v == [w EXCEPT !.at = "k8s",
                            !.read.xid = IF "xid" \in wired THEN xBuffer ELSE @]
  <2>1. w.at = "xid" /\ work' = [work EXCEPT ![i] = v]
    BY <1>2 DEF Gather, Buffers
  <2>2. v \in Correlation
    BY <1>1 DEF Correlation, History
  <2>3. /\ v.at = "k8s" /\ v.registration = w.registration /\ v.source = w.source
        /\ v.trigger = w.trigger /\ v.had = w.had
        /\ v.read.xid = (IF "xid" \in wired THEN xBuffer ELSE w.read.xid)
        /\ v.read.k8s = w.read.k8s
    BY <1>1 DEF Correlation, History
  <2> HIDE DEF v
  <2>4. /\ work' \in Seq(Correlation) /\ Len(work') = Len(work) /\ work'[i] = v
        /\ \A j \in DOMAIN work \ {i} : work'[j] = work[j]
    BY <2>1, <2>2, ExceptSeq DEF CorrelationsTyped
  <2> QED
    BY <1>2, <2>1, <2>3, <2>4 DEF GoesOn, Reads, Gather
<1>3. CASE Gather(i, "k8s", "verdict")
  <2> DEFINE w == work[i]
             v == [w EXCEPT !.at = "verdict",
                            !.read.k8s = IF "k8s" \in wired THEN kBuffer ELSE @]
  <2>1. w.at = "k8s" /\ work' = [work EXCEPT ![i] = v]
    BY <1>3 DEF Gather, Buffers
  <2>2. v \in Correlation
    BY <1>1 DEF Correlation, History
  <2>3. /\ v.at = "verdict" /\ v.registration = w.registration /\ v.source = w.source
        /\ v.trigger = w.trigger /\ v.had = w.had
        /\ v.read.k8s = (IF "k8s" \in wired THEN kBuffer ELSE w.read.k8s)
        /\ v.read.xid = w.read.xid
    BY <1>1 DEF Correlation, History
  <2> HIDE DEF v
  <2>4. /\ work' \in Seq(Correlation) /\ Len(work') = Len(work) /\ work'[i] = v
        /\ \A j \in DOMAIN work \ {i} : work'[j] = work[j]
    BY <2>1, <2>2, ExceptSeq DEF CorrelationsTyped
  <2> QED
    BY <1>3, <2>1, <2>3, <2>4 DEF GoesOn, Reads, Gather
<1> QED
  BY <1>2, <1>3

LEMMA WorkGoesOn ==
    ASSUME CorrelationsTyped, WatchersInv, NEW i \in DOMAIN work, Work(i)
    PROVE  GoesOn(i)
<1>1. CASE Gather(i, "xid", "k8s") \/ Gather(i, "k8s", "verdict")
  BY <1>1, GatherGoesOn
<1>2. ASSUME NEW from \in {"xid", "k8s", "verdict", "callback"},
             NEW to \in {"verdict", "callback", "dropped", "reported"},
             Advance(i, from, to),
             \/ from \in {"xid", "k8s"} /\ to = "verdict" /\ cancelled[work[i].registration]
             \/ from = "verdict" /\ to = "callback" /\ ~cancelled[work[i].registration]
             \/ from = "verdict" /\ to = "dropped"
             \/ from = "callback" /\ to = "reported"
      PROVE  GoesOn(i)
  <2> DEFINE w == work[i]
             v == [w EXCEPT !.at = to]
  <2>1. w \in Correlation
    BY DEF CorrelationsTyped
  <2>2. w.at = from /\ work' = [work EXCEPT ![i] = v]
    BY <1>2 DEF Advance
  <2>3. v \in Correlation
    BY <2>1 DEF Correlation
  <2>4. /\ v.at = to /\ v.registration = w.registration /\ v.source = w.source
        /\ v.trigger = w.trigger /\ v.had = w.had /\ v.read = w.read
    BY <2>1 DEF Correlation
  <2> HIDE DEF v
  <2>5. /\ work' \in Seq(Correlation) /\ Len(work') = Len(work) /\ work'[i] = v
        /\ \A j \in DOMAIN work \ {i} : work'[j] = work[j]
    BY <2>2, <2>3, ExceptSeq DEF CorrelationsTyped
  <2>6. Decides(w, v)
    BY <1>2, <2>2, <2>4 DEF Decides
  <2> QED
    BY <1>2, <2>4, <2>5, <2>6 DEF GoesOn, Advance
<1>3. CASE GiveUp(i)
  BY <1>2, <1>3 DEF GiveUp
<1>4. CASE Verdict(i)
  BY <1>2, <1>4 DEF Verdict, MayReport
<1>5. CASE CallbackReturns(i)
  BY <1>2, <1>5 DEF CallbackReturns
<1> QED
  BY <1>1, <1>3, <1>4, <1>5 DEF Work

LEMMA XidHandlerSteps ==
    ASSUME NEW s \in X!Starts, XidHandler(s)
    PROVE  UNCHANGED <<wired, phase, cancelled, work>> \/ XidBegins(s)
<1>1. PICK e \in xEvent[s] :
          LET r == Head(xCalls[s]) IN
          \/ /\ Ignore(r, "xid", e \in CriticalXids) \/ Correlate(r, "xid", e)
             /\ X!HandlerReturns(s)
          \/ Enter(r, "xid", e \in CriticalXids)
  BY DEF XidHandler
<1>2. CASE Correlate(Head(xCalls[s]), "xid", e) /\ X!HandlerReturns(s)
  BY <1>2 DEF XidHandler, Correlate, XidBegins, Begun
<1>3. CASE Ignore(Head(xCalls[s]), "xid", e \in CriticalXids)
  BY <1>3 DEF Ignore, cVars
<1>4. CASE Enter(Head(xCalls[s]), "xid", e \in CriticalXids)
  BY <1>4 DEF Enter
<1> QED
  BY <1>1, <1>2, <1>3, <1>4

LEMMA K8sHandlerSteps ==
    ASSUME NEW s \in K!Starts, K8sHandler(s)
    PROVE  UNCHANGED <<wired, phase, cancelled, work>> \/ K8sBegins(s)
<1>1. PICK e \in kEvent[s] :
          LET r == Head(kCalls[s]) IN
          \/ /\ Ignore(r, "k8s", e \in CriticalK8s) \/ Correlate(r, "k8s", e)
             /\ K!HandlerReturns(s)
          \/ Enter(r, "k8s", e \in CriticalK8s)
  BY DEF K8sHandler
<1>2. CASE Correlate(Head(kCalls[s]), "k8s", e) /\ K!HandlerReturns(s)
  BY <1>2 DEF K8sHandler, Correlate, K8sBegins, Begun
<1>3. CASE Ignore(Head(kCalls[s]), "k8s", e \in CriticalK8s)
  BY <1>3 DEF Ignore, cVars
<1>4. CASE Enter(Head(kCalls[s]), "k8s", e \in CriticalK8s)
  BY <1>4 DEF Enter
<1> QED
  BY <1>1, <1>2, <1>3, <1>4

\* What a step means to the correlations.
Elsewhere == UNCHANGED <<wired, phase, cancelled, work>>

OwnerMoves == \E r \in Registrations : Owner(r) \/ CancelParent(r)

CorrelationsMove ==
    \/ \E i \in DOMAIN work : GoesOn(i)
    \/ \E s \in X!Starts : XidBegins(s)
    \/ \E s \in K!Starts : K8sBegins(s)

LEMMA MonitorSteps ==
    ASSUME CorrelationsTyped, WatchersInv, [Next]_vars
    PROVE  Elsewhere \/ OwnerMoves \/ CorrelationsMove
<1> USE DEF Elsewhere, cVars
<1>1. CASE \E t \in XidThreads : XidCaller(t)
  BY <1>1 DEF XidCaller
<1>2. CASE \E t \in K8sThreads : K8sCaller(t)
  BY <1>2 DEF K8sCaller
<1>3. CASE \E s \in 1..XidStarts : XidWatching(s) \/ XidFailure(s) \/ XidTeller(s)
  <2>1. ASSUME NEW s \in X!Starts, XidHandler(s) PROVE Elsewhere \/ CorrelationsMove
    BY <2>1, XidHandlerSteps DEF CorrelationsMove
  <2> QED
    BY <1>3, <2>1 DEF XidWatching, XidFailure, XidTeller, X!Starts
<1>4. CASE \E s \in 1..K8sStarts : K8sWatching(s) \/ K8sSyncer(s)
  <2>1. ASSUME NEW s \in K!Starts, K8sHandler(s) PROVE Elsewhere \/ CorrelationsMove
    BY <2>1, K8sHandlerSteps DEF CorrelationsMove
  <2> QED
    BY <1>4, <2>1 DEF K8sWatching, K8sSyncer, K!Starts
<1>5. CASE \E i \in DOMAIN work : Work(i)
  BY <1>5, WorkGoesOn DEF CorrelationsMove
<1>6. CASE XidEnvironment \/ K8sEnvironment
  BY <1>6 DEF XidEnvironment, K8sEnvironment
<1>7. CASE UNCHANGED vars
  BY <1>7 DEF vars
<1>8. CASE \E r \in Registrations : Owner(r) \/ CancelParent(r)
  BY <1>8 DEF OwnerMoves
<1> QED
  BY <1>1, <1>2, <1>3, <1>4, <1>5, <1>6, <1>7, <1>8 DEF Next

\* No step starts a correlation but by appending it, with the newest event of
\* one watcher as its trigger.
LEMMA BegunIsCorrelation ==
    ASSUME WatchersInv, CorrelationsTyped,
           \/ \E s \in X!Starts : XidBegins(s)
           \/ \E s \in K!Starts : K8sBegins(s)
    PROVE  \E r \in Registrations, src \in Source, e \in X!Events \union RelevantK8s :
              /\ Begun(r, src, e) \in Correlation
              /\ work' = Append(work, Begun(r, src, e))
              /\ e = Last(Buffers[src])
              /\ UNCHANGED <<wired, phase, cancelled, xBuffer, kBuffer>>
<1> USE DEF WatchersInv, XidInv, K8sInv, XidTyped, K8sTyped
<1>0. NothingRead \in History /\ Buffers \in History
  BY DEF NothingRead, Buffers, History
<1>1. ASSUME NEW s \in X!Starts, XidBegins(s)
      PROVE  \E r \in Registrations, e \in X!Events :
                /\ work' = Append(work, Begun(r, "xid", e))
                /\ e = Last(xBuffer)
                /\ UNCHANGED <<wired, phase, cancelled, xBuffer, kBuffer>>
  <2>1. PICK e \in xEvent[s] :
          /\ xCalls[s] # << >>
          /\ X!HandlerReturns(s)
          /\ work' = Append(work, Begun(Head(xCalls[s]), "xid", e))
          /\ UNCHANGED <<kVars, wired, phase, cancelled>>
    BY <1>1 DEF XidBegins
  <2>2. s \in Telling /\ UNCHANGED xBuffer
    BY <2>1 DEF X!HandlerReturns, Telling
  <2>3. Head(xCalls[s]) \in Registrations
    <3>1. xCalls[s] \in Seq(Registrations)
      OBVIOUS
    <3> QED
      BY <2>1, <3>1, HeadTailProperties
  <2>4. e \in X!Events /\ e = Last(xBuffer)
    BY <2>2 DEF EventIsNewest
  <2> QED
    BY <2>1, <2>2, <2>3, <2>4 DEF kVars
<1>2. ASSUME NEW s \in K!Starts, K8sBegins(s)
      PROVE  \E r \in Registrations, e \in RelevantK8s :
                /\ work' = Append(work, Begun(r, "k8s", e))
                /\ e = Last(kBuffer)
                /\ UNCHANGED <<wired, phase, cancelled, xBuffer, kBuffer>>
  <2>1. PICK e \in kEvent[s] :
          /\ kCalls[s] # << >>
          /\ K!HandlerReturns(s)
          /\ work' = Append(work, Begun(Head(kCalls[s]), "k8s", e))
          /\ UNCHANGED <<xVars, wired, phase, cancelled>>
    BY <1>2 DEF K8sBegins
  <2>2. s \in Delivering /\ UNCHANGED kBuffer
    BY <2>1 DEF K!HandlerReturns, Delivering
  <2>3. Head(kCalls[s]) \in Registrations
    <3>1. kCalls[s] \in Seq(Registrations)
      OBVIOUS
    <3> QED
      BY <2>1, <3>1, HeadTailProperties
  <2>4. e \in RelevantK8s /\ e = Last(kBuffer)
    BY <2>2 DEF K8sEventIsNewest
  <2> QED
    BY <2>1, <2>2, <2>3, <2>4 DEF xVars
<1>3. \A r \in Registrations, src \in Source, e \in X!Events \union RelevantK8s :
        Begun(r, src, e) \in Correlation
  BY <1>0 DEF Begun, Correlation
<1>4. Buffers["xid"] = xBuffer /\ Buffers["k8s"] = kBuffer /\ "xid" \in Source /\ "k8s" \in Source
  BY DEF Buffers, Source
<1>5. CASE \E s \in X!Starts : XidBegins(s)
  BY <1>1, <1>3, <1>4, <1>5
<1>6. CASE \E s \in K!Starts : K8sBegins(s)
  BY <1>2, <1>3, <1>4, <1>6
<1> QED
  BY <1>5, <1>6

LEMMA CorrelationsStayTyped ==
    ASSUME WatchersInv, CorrelationsTyped, [Next]_vars
    PROVE  CorrelationsTyped'
<1> USE DEF CorrelationsTyped
<1>1. CASE Elsewhere
  BY <1>1 DEF Elsewhere
<1>2. CASE OwnerMoves
  BY <1>2 DEF OwnerMoves, Owner, RegisterXid, RegisterK8s, Cleanup, CleanupReturns,
              CancelParent, Step, Phases
<1>3. ASSUME NEW i \in DOMAIN work, GoesOn(i) PROVE CorrelationsTyped'
  BY <1>3 DEF GoesOn
<1>4. CASE \/ \E s \in X!Starts : XidBegins(s)
           \/ \E s \in K!Starts : K8sBegins(s)
  <2>1. \E w \in Correlation : work' = Append(work, w) /\ UNCHANGED <<phase, cancelled>>
    BY <1>4, BegunIsCorrelation
  <2> QED
    BY <2>1, AppendProperties
<1> QED
  BY <1>1, <1>2, <1>3, <1>4, MonitorSteps DEF CorrelationsMove

-------------------------------------------------------------------------------
(* The cleanup *)

CancelledFirst ==
    \A r \in Registrations : phase[r] \in {"waiting", "returned"} => cancelled[r]

LEMMA CleanupHolds ==
    ASSUME WatchersInv, CorrelationsTyped, CancelledFirst, NoCallbackAfterCleanup,
           [Next]_vars
    PROVE  CancelledFirst' /\ NoCallbackAfterCleanup'
<1> USE DEF CorrelationsTyped, CancelledFirst, NoCallbackAfterCleanup
<1>1. CASE Elsewhere
  BY <1>1 DEF Elsewhere
<1>2. CASE OwnerMoves
  <2>0. \A i \in DOMAIN work : work[i].registration \in Registrations
    BY CorrelationFields
  <2>1. ASSUME NEW r \in Registrations, CleanupReturns(r)
        PROVE  CancelledFirst' /\ NoCallbackAfterCleanup'
    <3>1. CancelledFirst'
      BY <2>1 DEF CleanupReturns, Step
    <3>2. \A i \in DOMAIN work : work[i].registration = r => work[i].at # "callback"
      BY <2>1 DEF CleanupReturns, InFlight, Busy
    <3> QED
      BY <2>0, <2>1, <3>1, <3>2 DEF CleanupReturns, Step
  <2>2. ASSUME NEW r \in Registrations,
               RegisterXid(r) \/ RegisterK8s(r) \/ Cleanup(r) \/ CancelParent(r)
        PROVE  CancelledFirst' /\ NoCallbackAfterCleanup'
    <3>1. CancelledFirst'
      BY <2>2 DEF RegisterXid, RegisterK8s, Cleanup, CancelParent, Step
    <3>2. work' = work /\ \A q \in Registrations : phase'[q] = "returned" => phase[q] = "returned"
      BY <2>2 DEF RegisterXid, RegisterK8s, Cleanup, CancelParent, Step
    <3> QED
      BY <2>0, <3>1, <3>2
  <2> QED
    BY <1>2, <2>1, <2>2 DEF OwnerMoves, Owner
<1>3. ASSUME NEW i \in DOMAIN work, GoesOn(i)
      PROVE  CancelledFirst' /\ NoCallbackAfterCleanup'
  <2>1. CancelledFirst'
    BY <1>3 DEF GoesOn
  <2>2. work'[i].at = "callback" => ~cancelled[work[i].registration]
    BY <1>3 DEF GoesOn, Reads, Decides
  <2>3. work[i].registration \in Registrations /\ DOMAIN work' = DOMAIN work
    BY <1>3, CorrelationFields, LenProperties DEF GoesOn
  <2> QED
    BY <1>3, <2>1, <2>2, <2>3 DEF GoesOn
<1>4. CASE \/ \E s \in X!Starts : XidBegins(s)
           \/ \E s \in K!Starts : K8sBegins(s)
  <2>1. PICK w \in Correlation : /\ work' = Append(work, w) /\ w.at = "xid"
                                 /\ UNCHANGED <<phase, cancelled>>
    BY <1>4, BegunIsCorrelation DEF Begun
  <2>2. \A i \in DOMAIN work' : (i \in DOMAIN work /\ work'[i] = work[i]) \/ work'[i] = w
    BY <2>1, AppendProperties
  <2> QED
    BY <2>1, <2>2
<1> QED
  BY <1>1, <1>2, <1>3, <1>4, MonitorSteps DEF CorrelationsMove

LEMMA CleanupInvariant ==
    Spec => [](WatchersInv /\ CorrelationsTyped /\ CancelledFirst /\ NoCallbackAfterCleanup)
<1> DEFINE Inv == WatchersInv /\ CorrelationsTyped /\ CancelledFirst /\ NoCallbackAfterCleanup
<1>1. Init => Inv
  <2> SUFFICES ASSUME Init PROVE CorrelationsTyped /\ CancelledFirst /\ NoCallbackAfterCleanup
    BY XidInvInitially, K8sInitially DEF WatchersInv
  <2>1. work = << >> /\ work \in Seq(Correlation)
    BY DEF Init
  <2> QED
    BY <2>1 DEF Init, CorrelationsTyped, CancelledFirst, NoCallbackAfterCleanup, Phases
<1>2. Inv /\ [Next]_vars => Inv'
  <2> SUFFICES ASSUME Inv, [Next]_vars PROVE Inv'
    OBVIOUS
  <2>1. WatchersInv'
    BY XidKeepsInv, K8sKeepsInv, NextStepsXid, NextStepsK8s
       DEF WatchersInv, XidStep, K8sStep, vars
  <2> QED
    BY <2>1, CorrelationsStayTyped, CleanupHolds
<1> QED
  BY <1>1, <1>2, PTL DEF Spec

\* After the cleanup function of RegisterAutoCorrelation has returned no callback
\* runs, although handlers that asked for the context before it was cancelled go
\* on to start their correlations afterwards.
THEOREM CleanupSilences == Spec => []NoCallbackAfterCleanup
BY CleanupInvariant, PTL

-------------------------------------------------------------------------------
(* What a report holds *)

\* A watcher that the correlator was not given never starts.
Unwired ==
    /\ "xid" \notin wired => XidQuiet /\ xBuffer = << >>
    /\ "k8s" \notin wired => K8sQuiet /\ kBuffer = << >>

LEMMA UnwiredStays ==
    ASSUME WatchersInv, Unwired, [Next]_vars
    PROVE  Unwired' /\ wired' = wired
<1>1. wired' = wired
  <2>1. CASE \E s \in 1..XidStarts : XidHandler(s)
    BY <2>1, XidHandlerSteps DEF XidBegins, X!Starts
  <2>2. CASE \E s \in 1..K8sStarts : K8sHandler(s)
    BY <2>2, K8sHandlerSteps DEF K8sBegins, K!Starts
  <2>3. CASE \E r \in Registrations : Owner(r) \/ CancelParent(r)
    BY <2>3 DEF Owner, RegisterXid, RegisterK8s, Cleanup, CleanupReturns, CancelParent
  <2>4. CASE \E i \in DOMAIN work : Work(i)
    BY <2>4 DEF Work, Gather, GiveUp, Verdict, CallbackReturns, Advance
  <2> QED
    BY <2>1, <2>2, <2>3, <2>4 DEF Next, XidCaller, K8sCaller, XidWatching, XidFailure, XidTeller,
       K8sWatching, K8sSyncer, XidEnvironment, K8sEnvironment, vars, cVars
<1>2. ASSUME "xid" \notin wired PROVE XidQuiet' /\ xBuffer' = << >>
  <2>1. XidQuiet /\ xBuffer = << >> /\ XidTyped
    BY <1>2 DEF Unwired, WatchersInv, XidInv
  <2>2. \A s \in X!Starts : ~X!Watch(s) /\ ~X!Fail(s) /\ ~X!TellStop(s)
                              /\ ~X!CancelContext(s) /\ ~X!HandlerReturns(s)
    BY <2>1 DEF XidQuiet, X!Watch, X!Open, X!Check, X!Skip, X!Capture, X!Copy, X!Notified,
       X!Fail, X!TellStop, X!CancelContext, X!HandlerReturns, X!Go, X!Alive
  <2>3. UNCHANGED <<xLoop, xBuffer>>
    <3>1. CASE \E t \in XidThreads : XidCaller(t)
      BY <1>2, <3>1 DEF XidCaller
    <3>2. CASE \E t \in K8sThreads : K8sCaller(t)
      BY <3>2 DEF K8sCaller, xVars
    <3>3. CASE \E s \in 1..XidStarts : XidWatching(s) \/ XidFailure(s) \/ XidTeller(s)
      BY <2>2, <3>3 DEF XidWatching, XidFailure, XidTeller, XidHandler, xVars, X!Starts
    <3>4. CASE \E s \in 1..K8sStarts : K8sWatching(s) \/ K8sSyncer(s)
      BY <3>4 DEF K8sWatching, K8sSyncer, K8sHandler, xVars
    <3>5. CASE \E r \in Registrations : Owner(r) \/ CancelParent(r)
      BY <3>5 DEF Owner, RegisterXid, RegisterK8s, Cleanup, CleanupReturns, CancelParent,
         xVars, X!RegisterHandler, X!loopVars
    <3>6. CASE \E i \in DOMAIN work : Work(i)
      BY <3>6 DEF Work, Gather, GiveUp, Verdict, CallbackReturns, Advance, xVars
    <3>7. CASE XidEnvironment
      BY <1>2, <3>7 DEF XidEnvironment
    <3>8. CASE K8sEnvironment
      BY <3>8 DEF K8sEnvironment, xVars
    <3>9. CASE UNCHANGED vars
      BY <3>9 DEF vars, xVars
    <3> QED
      BY <3>1, <3>2, <3>3, <3>4, <3>5, <3>6, <3>7, <3>8, <3>9 DEF Next
  <2> QED
    BY <2>1, <2>3 DEF XidQuiet
<1>3. ASSUME "k8s" \notin wired PROVE K8sQuiet' /\ kBuffer' = << >>
  <2>1. K8sQuiet /\ kBuffer = << >> /\ K8sTyped
    BY <1>3 DEF Unwired, WatchersInv, K8sInv
  <2>2. \A s \in K!Starts : ~K!Inform(s) /\ ~K!HandlerReturns(s)
    BY <2>1 DEF K8sQuiet, K!Inform, K!List, K!Quit, K!Filter, K!Capture, K!Copy, K!Notified,
       K!HandlerReturns, K!Go, K!Alive
  <2>3. UNCHANGED <<kInformer, kBuffer>>
    <3>1. CASE \E t \in XidThreads : XidCaller(t)
      BY <3>1 DEF XidCaller, kVars
    <3>2. CASE \E t \in K8sThreads : K8sCaller(t)
      BY <1>3, <3>2 DEF K8sCaller
    <3>3. CASE \E s \in 1..XidStarts : XidWatching(s) \/ XidFailure(s) \/ XidTeller(s)
      BY <3>3 DEF XidWatching, XidFailure, XidTeller, XidHandler, kVars
    <3>4. CASE \E s \in 1..K8sStarts : K8sWatching(s) \/ K8sSyncer(s)
      BY <2>2, <3>4 DEF K8sWatching, K8sSyncer, K8sHandler, kVars, K!Starts,
         K!Wait4Sync, K!SeeSync, K!StoreSynced, K!informerVars
    <3>5. CASE \E r \in Registrations : Owner(r) \/ CancelParent(r)
      BY <3>5 DEF Owner, RegisterXid, RegisterK8s, Cleanup, CleanupReturns, CancelParent,
         kVars, K!RegisterHandler, K!informerVars
    <3>6. CASE \E i \in DOMAIN work : Work(i)
      BY <3>6 DEF Work, Gather, GiveUp, Verdict, CallbackReturns, Advance, kVars
    <3>7. CASE XidEnvironment
      BY <3>7 DEF XidEnvironment, kVars
    <3>8. CASE K8sEnvironment
      BY <1>3, <3>8 DEF K8sEnvironment
    <3>9. CASE UNCHANGED vars
      BY <3>9 DEF vars, kVars
    <3> QED
      BY <3>1, <3>2, <3>3, <3>4, <3>5, <3>6, <3>7, <3>8, <3>9 DEF Next
  <2> QED
    BY <2>1, <2>3 DEF K8sQuiet
<1> QED
  BY <1>1, <1>2, <1>3 DEF Unwired

\* A step leaves the buffers alone or pushes one event onto one of them.
LEMMA BuffersMove ==
    ASSUME WatchersInv, [Next]_vars
    PROVE  /\ UNCHANGED xBuffer \/ \E e \in X!Events : xBuffer' = Push(xBuffer, e, XidCapacity)
           /\ UNCHANGED kBuffer \/ \E e \in RelevantK8s : kBuffer' = Push(kBuffer, e, K8sCapacity)
<1>1. UNCHANGED xBuffer \/ \E e \in X!Events : xBuffer' = Push(xBuffer, e, XidCapacity)
  <2>1. XidStep
    BY NextStepsXid DEF XidStep, vars
  <2>2. ASSUME NEW s \in X!Starts, X!Capture(s)
        PROVE  \E e \in X!Events : xBuffer' = Push(xBuffer, e, XidCapacity)
    BY <2>2 DEF X!Capture, X!Log!Pushed, Push
  <2>3. CASE \E t \in XidThreads : X!Starting(t) \/ X!Stopping(t)
    BY <2>3 DEF X!Starting, X!StartCAS, X!Unavailable, X!Spawn, X!Stopping, X!StopCAS,
                X!Close, X!Wait
  <2>4. CASE \/ \E s \in X!Starts :
                  X!Open(s) \/ X!Check(s) \/ X!Skip(s) \/ X!Copy(s) \/ X!Notified(s) \/ X!Fail(s)
                    \/ X!TellStop(s) \/ X!CancelContext(s) \/ X!HandlerReturns(s)
             \/ X!KernelLogs
             \/ \E r \in Registrations : X!RegisterHandler(r)
             \/ UNCHANGED xVars
    BY <2>4 DEF X!Open, X!Check, X!Skip, X!Copy, X!Notified, X!Fail, X!TellStop, X!CancelContext,
       X!HandlerReturns, X!KernelLogs, X!RegisterHandler, xVars
  <2> QED
    BY <2>1, <2>2, <2>3, <2>4 DEF XidStep, X!Watch
<1>2. UNCHANGED kBuffer \/ \E e \in RelevantK8s : kBuffer' = Push(kBuffer, e, K8sCapacity)
  <2>1. K8sStep
    BY NextStepsK8s DEF K8sStep, vars
  <2>2. ASSUME NEW s \in K!Starts, K!Capture(s)
        PROVE  \E e \in RelevantK8s : kBuffer' = Push(kBuffer, e, K8sCapacity)
    BY <2>2 DEF K!Capture, K!Log!Pushed, Push
  <2>3. CASE \E t \in K8sThreads : K!Starting(t) \/ K!Stopping(t)
    BY <2>3 DEF K!Starting, K!StartCAS, K!AddEventHandlerFails, K!Spawn, K!Stopping, K!StopCAS,
                K!Unsync, K!Close, K!Wait
  <2>4. CASE \/ \E s \in K!Starts :
                  K!List(s) \/ K!Quit(s) \/ K!Filter(s) \/ K!Copy(s) \/ K!Notified(s)
                    \/ K!Wait4Sync(s) \/ K!HandlerReturns(s)
             \/ \E e \in K8sEvents : K!Publish(e)
             \/ \E r \in Registrations : K!RegisterHandler(r)
             \/ UNCHANGED kVars
    BY <2>4 DEF K!List, K!Quit, K!Filter, K!Copy, K!Notified, K!Wait4Sync, K!SeeSync,
       K!StoreSynced, K!HandlerReturns, K!Publish, K!RegisterHandler, kVars
  <2> QED
    BY <2>1, <2>2, <2>3, <2>4 DEF K8sStep, K!Inform
<1> QED
  BY <1>1, <1>2

\* What was captured when the correlation began is still in the buffers, but for
\* what newer events pushed out.
Remembers(w) ==
    /\ w.trigger = Last(w.had[w.source])
    /\ EvictedOnly(w.had.xid, xBuffer, XidCapacity)
    /\ EvictedOnly(w.had.k8s, kBuffer, K8sCapacity)

XidComplete(w) == EvictedOnly(w.had.xid, w.read.xid, XidCapacity)

K8sComplete(w) == EvictedOnly(w.had.k8s, w.read.k8s, K8sCapacity)

\* How far a correlation has read; the one that was cut short is cancelled.
HasRead(w) ==
    /\ w.at = "xid" => w.read.xid = << >>
    /\ w.at \in {"xid", "k8s"} => w.read.k8s = << >>
    /\ w.at = "k8s" => XidComplete(w)
    /\ w.at = "verdict" => cancelled[w.registration] \/ (XidComplete(w) /\ K8sComplete(w))
    /\ w.at \in {"callback", "reported"} => XidComplete(w) /\ K8sComplete(w)

ReportsInv == \A i \in DOMAIN work : Remembers(work[i]) /\ HasRead(work[i])

LEMMA RemembersStays ==
    ASSUME WatchersInv, [Next]_vars, NEW w \in Correlation, Remembers(w)
    PROVE  Remembers(w)'
<1>1. /\ XidCapacity \in Nat \ {0} /\ K8sCapacity \in Nat \ {0}
      /\ xBuffer \in Seq(X!Events) /\ Len(xBuffer) <= XidCapacity
      /\ kBuffer \in Seq(RelevantK8s) /\ Len(kBuffer) <= K8sCapacity
  BY MonitorAssumption DEF MonitorAssumption, X!XidConstants, K!K8sConstants,
     WatchersInv, XidInv, XidTyped, K8sInv, K8sTyped
<1>2. w.had.xid \in Seq(X!Events) /\ w.had.k8s \in Seq(RelevantK8s)
  BY CorrelationFields
<1>3. EvictedOnly(w.had.xid, xBuffer', XidCapacity)
  BY <1>1, <1>2, BuffersMove, EvictedByPush DEF Remembers
<1>4. EvictedOnly(w.had.k8s, kBuffer', K8sCapacity)
  BY <1>1, <1>2, BuffersMove, EvictedByPush DEF Remembers
<1> QED
  BY <1>3, <1>4 DEF Remembers

LEMMA ReportsHold ==
    ASSUME WatchersInv, CorrelationsTyped, Unwired, ReportsInv, [Next]_vars
    PROVE  ReportsInv'
<1>0. ASSUME NEW i \in DOMAIN work
      PROVE  work[i] \in Correlation /\ Remembers(work[i]) /\ HasRead(work[i])
  BY <1>0 DEF ReportsInv, CorrelationsTyped
<1>1. CASE Elsewhere \/ OwnerMoves
  <2>1. /\ work' = work
        /\ \A r \in Registrations : cancelled[r] => cancelled'[r]
    BY <1>1 DEF Elsewhere, OwnerMoves, Owner, RegisterXid, RegisterK8s, Cleanup,
       CleanupReturns, CancelParent, CorrelationsTyped
  <2>2. ASSUME NEW i \in DOMAIN work PROVE Remembers(work[i])' /\ HasRead(work[i])'
    <3> DEFINE w == work[i]
    <3>1. w \in Correlation /\ Remembers(w) /\ HasRead(w) /\ w.registration \in Registrations
      BY <1>0, CorrelationFields
    <3>2. PICK v : v = w
      OBVIOUS
    <3>3. Remembers(v)'
      BY <3>1, <3>2, RemembersStays
    <3>4. HasRead(v)'
      BY <2>1, <3>1, <3>2 DEF HasRead, XidComplete, K8sComplete
    <3> QED
      BY <2>1, <3>2, <3>3, <3>4
  <2> QED
    BY <2>1, <2>2 DEF ReportsInv
<1>2. ASSUME NEW i \in DOMAIN work, GoesOn(i) PROVE ReportsInv'
  <2> DEFINE w == work[i]
  <2>1. PICK v : v = work'[i]
    OBVIOUS
  <2>2. /\ DOMAIN work' = DOMAIN work /\ UNCHANGED <<xBuffer, kBuffer, cancelled>>
        /\ \A j \in DOMAIN work \ {i} : work'[j] = work[j]
    BY <1>2, LenProperties DEF GoesOn, xVars, kVars, CorrelationsTyped
  <2>3. /\ w \in Correlation /\ Remembers(w) /\ HasRead(w)
        /\ v.registration = w.registration /\ v.source = w.source
        /\ v.trigger = w.trigger /\ v.had = w.had
        /\ Reads(w, v) \/ Decides(w, v)
    BY <1>0, <1>2, <2>1 DEF GoesOn
  <2>4. Remembers(v)
    BY <2>3 DEF Remembers
  <2>5. HasRead(v)
    <3>1. CASE Decides(w, v)
      BY <2>3, <3>1 DEF Decides, HasRead, XidComplete, K8sComplete
    <3>2. CASE Reads(w, v) /\ w.at = "xid"
      <4>1. v.read.xid = xBuffer
        BY <2>3, <3>2 DEF Reads, HasRead, Unwired
      <4> QED
        BY <2>3, <3>2, <4>1 DEF Reads, HasRead, XidComplete, Remembers
    <3>3. CASE Reads(w, v) /\ w.at = "k8s"
      <4>1. v.read.k8s = kBuffer
        BY <2>3, <3>3 DEF Reads, HasRead, Unwired
      <4> QED
        BY <2>3, <3>3, <4>1 DEF Reads, HasRead, XidComplete, K8sComplete, Remembers
    <3> QED
      BY <2>3, <3>1, <3>2, <3>3 DEF Reads
  <2>6. Remembers(v)' /\ HasRead(v)'
    BY <2>2, <2>4, <2>5 DEF Remembers, HasRead, XidComplete, K8sComplete
  <2>7. \A j \in DOMAIN work \ {i} : Remembers(work[j])' /\ HasRead(work[j])'
    BY <1>0, <2>2 DEF Remembers, HasRead, XidComplete, K8sComplete
  <2> QED
    BY <2>1, <2>2, <2>6, <2>7 DEF ReportsInv
<1>3. CASE \/ \E s \in X!Starts : XidBegins(s)
           \/ \E s \in K!Starts : K8sBegins(s)
  <2>1. PICK r \in Registrations, src \in Source, e \in X!Events \union RelevantK8s :
              /\ Begun(r, src, e) \in Correlation
              /\ work' = Append(work, Begun(r, src, e))
              /\ e = Last(Buffers[src])
              /\ UNCHANGED <<cancelled, xBuffer, kBuffer>>
    BY <1>3, BegunIsCorrelation
  <2>2. PICK v \in Correlation : v = Begun(r, src, e)
    BY <2>1
  <2>3. /\ v.trigger = Last(v.had[v.source])
        /\ v.had.xid = xBuffer /\ v.had.k8s = kBuffer
        /\ v.at = "xid" /\ v.read.xid = << >> /\ v.read.k8s = << >>
    BY <2>1, <2>2 DEF Begun, Buffers, NothingRead
  <2>4. Remembers(v) /\ HasRead(v)
    BY <2>3, NothingEvicted DEF Remembers, HasRead, WatchersInv, XidInv, XidTyped, K8sInv, K8sTyped
  <2>5. Remembers(v)' /\ HasRead(v)'
    BY <2>1, <2>4 DEF Remembers, HasRead, XidComplete, K8sComplete
  <2>6. \A j \in DOMAIN work : work'[j] = work[j] => Remembers(work[j])' /\ HasRead(work[j])'
    BY <1>0, <2>1 DEF Remembers, HasRead, XidComplete, K8sComplete
  <2>7. \A j \in DOMAIN work' : (j \in DOMAIN work /\ work'[j] = work[j]) \/ work'[j] = v
    BY <2>1, <2>2, AppendProperties DEF CorrelationsTyped
  <2> QED
    BY <2>5, <2>6, <2>7 DEF ReportsInv
<1> QED
  BY <1>1, <1>2, <1>3, MonitorSteps DEF CorrelationsMove

LEMMA ReportsInvariant ==
    Spec => [](WatchersInv /\ CorrelationsTyped /\ Unwired /\ ReportsInv)
<1> DEFINE Inv == CorrelationsTyped /\ Unwired /\ ReportsInv
<1>1. Init => Inv
  <2> SUFFICES ASSUME Init PROVE Unwired /\ ReportsInv /\ CorrelationsTyped
    OBVIOUS
  <2>1. work = << >> /\ work \in Seq(Correlation)
    BY DEF Init
  <2> QED
    BY <2>1 DEF Init, X!Init, K!Init, CorrelationsTyped, Unwired, XidQuiet, K8sQuiet,
       X!Alive, K!Alive, ReportsInv, Phases
<1>2. WatchersInv /\ Inv /\ [Next]_vars => Inv'
  BY CorrelationsStayTyped, UnwiredStays, ReportsHold
<1> QED
  BY <1>1, <1>2, WatchersInvariant, PTL DEF Spec

\* An incident that is called back holds all that both watchers had captured when
\* its trigger was handled, but for what newer events pushed out; one that a
\* cancelled context cut short is never called back.
THEOREM ReportsComplete == Spec => []ReportsAreComplete
<1>1. ReportsInv => ReportsAreComplete
  BY DEF ReportsInv, Remembers, HasRead, XidComplete, K8sComplete, ReportsAreComplete
<1> QED
  BY <1>1, ReportsInvariant, PTL

-------------------------------------------------------------------------------
(* One incident per XID error *)

\* A registration is registered once, and called once for an event.
RegisteredOnce ==
    /\ \A r \in Registrations : phase[r] = "none" =>
           \A i \in DOMAIN xHandlers : xHandlers[i] # r
    /\ IsInjective(xHandlers)
    /\ \A s \in X!Starts : IsInjective(xCalls[s])

\* The incidents of XID errors are behind what the loops still read, and those of
\* the event that is handled are those of the handlers that were called.
TriggersBehind ==
    \A i \in DOMAIN work : work[i].source = "xid" =>
        /\ work[i].trigger \in X!Events /\ Behind(work[i].trigger)
        /\ \A s \in Telling : \A e \in xEvent[s] :
             /\ work[i].trigger <= e
             /\ work[i].trigger = e =>
                  /\ xLoop[s] = "calling"
                  /\ \A k \in DOMAIN xCalls[s] : xCalls[s][k] # work[i].registration

\* What a step does to the handlers, and to the calls of a loop.
HandlersMove ==
    \/ UNCHANGED xHandlers /\ \A r \in Registrations : phase'[r] = "none" => phase[r] = "none"
    \/ \E r \in Registrations :
        /\ phase[r] = "none"
        /\ phase' = [phase EXCEPT ![r] = "xid registered"]
        /\ xHandlers' = Append(xHandlers, r)

CallsMove(s) ==
    \/ xCalls'[s] = xCalls[s]
    \/ xCalls[s] # << >> /\ xCalls'[s] = Tail(xCalls[s])
    \/ xLoop[s] = "notify" /\ xCalls'[s] = xHandlers

LEMMA HandlersMoves ==
    ASSUME WatchersInv, CorrelationsTyped, [Next]_vars
    PROVE  HandlersMove
<1> USE DEF HandlersMove
<1>1. CASE \E t \in XidThreads : XidCaller(t)
  BY <1>1 DEF XidCaller, X!Starting, X!StartCAS, X!Unavailable, X!Spawn, X!Stopping,
     X!StopCAS, X!Close, X!Wait, cVars
<1>2. CASE \E t \in K8sThreads : K8sCaller(t)
  BY <1>2 DEF K8sCaller, xVars, cVars
<1>3. CASE \E s \in 1..XidStarts : XidWatching(s) \/ XidFailure(s) \/ XidTeller(s)
  <2>1. ASSUME NEW s \in X!Starts, XidHandler(s) PROVE HandlersMove
    <3>1. UNCHANGED xHandlers
      BY <2>1 DEF XidHandler, X!HandlerReturns, xVars
    <3>2. UNCHANGED phase
      BY <2>1, XidHandlerSteps DEF XidBegins
    <3> QED
      BY <3>1, <3>2
  <2>2. ASSUME NEW s \in X!Starts, X!Watch(s) \/ X!Fail(s) \/ X!TellStop(s), UNCHANGED cVars
        PROVE  HandlersMove
    BY <2>2 DEF X!Watch, X!Open, X!Check, X!Skip, X!Capture, X!Copy, X!Notified, X!Fail,
       X!TellStop, cVars
  <2> QED
    BY <1>3, <2>1, <2>2 DEF XidWatching, XidFailure, XidTeller, X!Starts
<1>4. CASE \E s \in 1..K8sStarts : K8sWatching(s) \/ K8sSyncer(s)
  <2>1. ASSUME NEW s \in K!Starts, K8sHandler(s) PROVE HandlersMove
    <3>1. UNCHANGED phase
      BY <2>1, K8sHandlerSteps DEF K8sBegins
    <3> QED
      BY <2>1, <3>1 DEF K8sHandler, xVars
  <2> QED
    BY <1>4, <2>1 DEF K8sWatching, K8sSyncer, xVars, cVars, K!Starts
<1>5. ASSUME NEW r \in Registrations, RegisterXid(r) PROVE HandlersMove
  BY <1>5 DEF RegisterXid, X!RegisterHandler, xVars, Step, CorrelationsTyped
<1>6. ASSUME NEW r \in Registrations,
             RegisterK8s(r) \/ Cleanup(r) \/ CleanupReturns(r) \/ CancelParent(r)
      PROVE  HandlersMove
  BY <1>6 DEF RegisterK8s, Cleanup, CleanupReturns, CancelParent, xVars, Step, CorrelationsTyped
<1>7. CASE \E i \in DOMAIN work : Work(i)
  BY <1>7 DEF Work, Gather, GiveUp, Verdict, CallbackReturns, Advance, xVars
<1>8. CASE XidEnvironment \/ K8sEnvironment \/ UNCHANGED vars
  BY <1>8 DEF XidEnvironment, K8sEnvironment, vars, xVars, cVars, X!KernelLogs, X!CancelContext
<1> QED
  BY <1>1, <1>2, <1>3, <1>4, <1>5, <1>6, <1>7, <1>8 DEF Next, Owner

LEMMA CallsMoves ==
    ASSUME XidTyped, XidStep, NEW s \in X!Starts
    PROVE  CallsMove(s)
<1> USE DEF XidTyped, CallsMove
<1>1. CASE \E t \in XidThreads : X!Starting(t) \/ X!Stopping(t)
  BY <1>1 DEF X!Starting, X!StartCAS, X!Unavailable, X!Spawn, X!Stopping, X!StopCAS,
              X!Close, X!Wait, X!loopVars
<1>2. ASSUME NEW r \in X!Starts, X!Copy(r) PROVE CallsMove(s)
  BY <1>2 DEF X!Copy, X!Go
<1>3. ASSUME NEW r \in X!Starts, X!HandlerReturns(r) PROVE CallsMove(s)
  BY <1>3 DEF X!HandlerReturns
<1>4. CASE \/ \E r \in X!Starts :
                X!Open(r) \/ X!Check(r) \/ X!Skip(r) \/ X!Capture(r) \/ X!Notified(r)
                  \/ X!Fail(r) \/ X!TellStop(r) \/ X!CancelContext(r)
           \/ X!KernelLogs
           \/ \E r \in Registrations : X!RegisterHandler(r)
           \/ UNCHANGED xVars
  BY <1>4 DEF X!Open, X!Check, X!Skip, X!Capture, X!Notified, X!Fail, X!TellStop,
     X!CancelContext, X!KernelLogs, X!RegisterHandler, xVars, X!loopVars
<1> QED
  BY <1>1, <1>2, <1>3, <1>4 DEF XidStep, X!Watch

\* A loop that calls handlers never goes back to copying them for the same event.
LEMMA CallingGoesOn ==
    ASSUME XidTyped, XidStep, NEW s \in X!Starts, xLoop[s] = "calling"
    PROVE  xLoop'[s] # "notify"
<1> USE DEF XidTyped, X!Go, X!loopVars, X!callerVars
<1>1. CASE \E t \in XidThreads : X!Starting(t) \/ X!Stopping(t)
  BY <1>1 DEF X!Starting, X!StartCAS, X!Unavailable, X!Spawn, X!Stopping, X!StopCAS,
              X!Close, X!Wait
<1>2. ASSUME NEW r \in X!Starts,
             X!Open(r) \/ X!Check(r) \/ X!Skip(r) \/ X!Capture(r) \/ X!Copy(r) \/ X!Notified(r)
      PROVE  xLoop'[s] # "notify"
  BY <1>2 DEF X!Open, X!Check, X!Skip, X!Capture, X!Copy, X!Notified
<1>3. ASSUME NEW r \in X!Starts,
             X!Fail(r) \/ X!TellStop(r) \/ X!CancelContext(r) \/ X!HandlerReturns(r)
      PROVE  xLoop'[s] # "notify"
  BY <1>3 DEF X!Fail, X!TellStop, X!CancelContext, X!HandlerReturns
<1>4. CASE X!KernelLogs \/ UNCHANGED xVars \/ \E r \in Registrations : X!RegisterHandler(r)
  BY <1>4 DEF xVars, X!KernelLogs, X!RegisterHandler
<1> QED
  BY <1>1, <1>2, <1>3, <1>4 DEF XidStep, X!Watch

LEMMA RegisteredOnceStays ==
    ASSUME WatchersInv, CorrelationsTyped, RegisteredOnce, [Next]_vars
    PROVE  RegisteredOnce'
<1>0. /\ xHandlers \in Seq(Registrations) /\ XidTyped /\ XidStep
      /\ \A s \in X!Starts : xCalls[s] \in Seq(Registrations)
  BY NextStepsXid DEF XidStep, vars, WatchersInv, XidInv, XidTyped
<1>1. ASSUME NEW s \in X!Starts PROVE IsInjective(xCalls'[s])
  <2>1. CASE xCalls'[s] = xCalls[s] \/ xCalls'[s] = xHandlers
    BY <2>1 DEF RegisteredOnce
  <2>2. CASE xCalls[s] # << >> /\ xCalls'[s] = Tail(xCalls[s])
    <3>1. \A k \in DOMAIN xCalls'[s] :
            k + 1 \in DOMAIN xCalls[s] /\ xCalls'[s][k] = xCalls[s][k + 1] /\ k \in Nat
      BY <1>0, <2>2, HeadTailProperties
    <3>2. IsInjective(xCalls[s])
      BY DEF RegisteredOnce
    <3>3. ASSUME NEW a \in DOMAIN xCalls'[s], NEW b \in DOMAIN xCalls'[s],
                 xCalls'[s][a] = xCalls'[s][b]
          PROVE  a = b
      <4>1. a + 1 = b + 1
        BY <3>1, <3>2, <3>3 DEF IsInjective
      <4> QED
        BY <3>1, <4>1
    <3> QED
      BY <3>3 DEF IsInjective
  <2> QED
    BY <1>0, <2>1, <2>2, CallsMoves DEF CallsMove
<1>2. /\ IsInjective(xHandlers')
      /\ \A r \in Registrations : phase'[r] = "none" =>
            \A i \in DOMAIN xHandlers' : xHandlers'[i] # r
  <2>1. CASE UNCHANGED xHandlers /\ \A r \in Registrations : phase'[r] = "none" => phase[r] = "none"
    BY <2>1 DEF RegisteredOnce
  <2>2. ASSUME NEW r \in Registrations, phase[r] = "none",
               phase' = [phase EXCEPT ![r] = "xid registered"],
               xHandlers' = Append(xHandlers, r)
        PROVE  /\ IsInjective(xHandlers')
               /\ \A q \in Registrations : phase'[q] = "none" =>
                     \A i \in DOMAIN xHandlers' : xHandlers'[i] # q
    <3>0. /\ DOMAIN xHandlers = 1..Len(xHandlers) /\ Len(xHandlers) \in Nat
          /\ DOMAIN xHandlers' = 1..Len(xHandlers) + 1
          /\ xHandlers'[Len(xHandlers) + 1] = r
          /\ \A i \in 1..Len(xHandlers) : xHandlers'[i] = xHandlers[i]
      <4> DEFINE longer == Append(xHandlers, r)
      <4>1. /\ DOMAIN xHandlers = 1..Len(xHandlers) /\ Len(xHandlers) \in Nat
            /\ longer \in Seq(Registrations) /\ Len(longer) = Len(xHandlers) + 1
            /\ longer[Len(xHandlers) + 1] = r
            /\ \A i \in 1..Len(xHandlers) : longer[i] = xHandlers[i]
        BY <1>0, AppendProperties, LenProperties
      <4>2. DOMAIN longer = 1..Len(longer)
        BY <4>1, LenProperties
      <4>3. xHandlers' = longer
        BY <2>2
      <4> HIDE DEF longer
      <4> QED
        BY <4>1, <4>2, <4>3
    <3>1. \A i \in DOMAIN xHandlers' :
            \/ i \in DOMAIN xHandlers /\ xHandlers'[i] = xHandlers[i]
            \/ i = Len(xHandlers) + 1 /\ xHandlers'[i] = r
      BY <3>0
    <3>2. \A i \in DOMAIN xHandlers : xHandlers[i] # r
      BY <2>2 DEF RegisteredOnce
    <3>3. IsInjective(xHandlers')
      BY <3>1, <3>2 DEF RegisteredOnce, IsInjective
    <3>4. ASSUME NEW q \in Registrations, phase'[q] = "none"
          PROVE  phase[q] = "none" /\ q # r
      BY <2>2, <3>4 DEF CorrelationsTyped
    <3>5. ASSUME NEW q \in Registrations, phase'[q] = "none", NEW i \in DOMAIN xHandlers'
          PROVE  xHandlers'[i] # q
      BY <3>1, <3>4, <3>5 DEF RegisteredOnce
    <3> QED
      BY <3>3, <3>5
  <2> QED
    BY <2>1, <2>2, HandlersMoves DEF HandlersMove
<1> QED
  BY <1>1, <1>2 DEF RegisteredOnce

\* Whoever is told of an event is told of none before n, and r not of n again.
WasTold(r, n) ==
    \A s \in Telling : \A e \in xEvent[s] :
       /\ n <= e
       /\ n = e => xLoop[s] = "calling" /\ \A k \in DOMAIN xCalls[s] : xCalls[s][k] # r

\* What is true of the trigger of one incident stays true.
LEMMA TriggerStaysBehind ==
    ASSUME WatchersInv, XidStep, NEW n \in Nat, NEW r, Behind(n), WasTold(r, n)
    PROVE  WasTold(r, n)'
<1> SUFFICES ASSUME NEW s \in Telling', NEW e \in xEvent'[s]
             PROVE  /\ n <= e
                    /\ n = e => /\ xLoop'[s] = "calling"
                                /\ \A k \in DOMAIN xCalls'[s] : xCalls'[s][k] # r
  BY DEF WasTold
<1> USE DEF WatchersInv, XidInv
<1>0. s \in X!Starts /\ xCalls[s] \in Seq(Registrations)
  BY DEF Telling, XidTyped
<1>1. CASE X!Capture(s)
  <2>1. n < e /\ e \in Nat
    BY <1>0, <1>1, CapturePasses DEF X!Events
  <2> QED
    BY <2>1
<1>2. CASE s \in Telling /\ UNCHANGED <<xBuffer, xEvent>>
  <2>1. n <= e /\ (n = e => xLoop[s] = "calling" /\ \A k \in DOMAIN xCalls[s] : xCalls[s][k] # r)
    BY <1>2 DEF WasTold
  <2>2. ASSUME n = e
        PROVE  xLoop'[s] = "calling" /\ \A k \in DOMAIN xCalls'[s] : xCalls'[s][k] # r
    <3>1. xLoop[s] = "calling" /\ \A k \in DOMAIN xCalls[s] : xCalls[s][k] # r
      BY <2>1, <2>2
    <3>2. xLoop'[s] = "calling"
      BY <1>0, <3>1, CallingGoesOn DEF Telling
    <3>3. xCalls'[s] = xCalls[s] \/ (xCalls[s] # << >> /\ xCalls'[s] = Tail(xCalls[s]))
      BY <1>0, <3>1, CallsMoves DEF CallsMove
    <3>4. CASE xCalls[s] # << >> /\ xCalls'[s] = Tail(xCalls[s])
      <4>1. \A k \in DOMAIN xCalls'[s] : k + 1 \in DOMAIN xCalls[s] /\ xCalls'[s][k] = xCalls[s][k + 1]
        BY <1>0, <3>4, HeadTailProperties
      <4> QED
        BY <3>1, <3>2, <4>1
    <3> QED
      BY <3>1, <3>2, <3>3, <3>4
  <2> QED
    BY <2>1, <2>2
<1> QED
  BY <1>0, <1>1, <1>2, TellingMoves

LEMMA BegunTyped ==
    ASSUME WatchersInv, NEW r \in Registrations, NEW e \in X!Events
    PROVE  Begun(r, "xid", e) \in Correlation
<1>1. NothingRead \in History /\ Buffers \in History
  BY DEF WatchersInv, XidInv, K8sInv, XidTyped, K8sTyped, NothingRead, Buffers, History
<1> QED
  BY <1>1 DEF Begun, Correlation, Source

LEMMA K8sBegunTyped ==
    ASSUME WatchersInv, CorrelationsTyped, NEW s \in K!Starts, K8sBegins(s)
    PROVE  \E w \in Correlation : work' = Append(work, w) /\ w.source = "k8s"
<1>1. PICK e \in kEvent[s] :
          kCalls[s] # << >> /\ work' = Append(work, Begun(Head(kCalls[s]), "k8s", e))
  BY DEF K8sBegins
<1>2. kCalls[s] \in Seq(Registrations) /\ e \in RelevantK8s
  BY DEF WatchersInv, K8sInv, K8sTyped
<1>3. Head(kCalls[s]) \in Registrations
  BY <1>1, <1>2, HeadTailProperties
<1>4. NothingRead \in History /\ Buffers \in History
  BY DEF WatchersInv, XidInv, K8sInv, XidTyped, K8sTyped, NothingRead, Buffers, History
<1>5. Begun(Head(kCalls[s]), "k8s", e) \in Correlation
  BY <1>2, <1>3, <1>4 DEF Begun, Correlation, Source
<1>6. Begun(Head(kCalls[s]), "k8s", e).source = "k8s"
  BY DEF Begun
<1> QED
  BY <1>1, <1>5, <1>6

\* The incident that a handler begins is the first of its registration for the
\* event, and the last.
LEMMA XidBeginsOnce ==
    ASSUME WatchersInv, CorrelationsTyped, RegisteredOnce, TriggersBehind,
           NEW s \in X!Starts, XidBegins(s)
    PROVE  \E r \in Registrations, e \in X!Events :
              /\ work' = Append(work, Begun(r, "xid", e))
              /\ Behind(e)'
              /\ \A t \in Telling' : \A f \in xEvent'[t] :
                   /\ f = e /\ xLoop'[t] = "calling"
                   /\ \A k \in DOMAIN xCalls'[t] : xCalls'[t][k] # r
              /\ \A i \in DOMAIN work :
                   ~(work[i].source = "xid" /\ work[i].trigger = e /\ work[i].registration = r)
<1> USE DEF WatchersInv, XidInv
<1>1. PICK e \in xEvent[s] :
          /\ xCalls[s] # << >>
          /\ X!HandlerReturns(s)
          /\ work' = Append(work, Begun(Head(xCalls[s]), "xid", e))
  BY DEF XidBegins
<1>2. xCalls[s] \in Seq(Registrations) /\ e \in X!Events /\ e \in Nat
  BY DEF XidTyped, X!Events
<1>3. PICK r \in Registrations : r = Head(xCalls[s])
  BY <1>1, <1>2, HeadTailProperties
<1>4. s \in Telling /\ xLoop[s] = "calling"
  BY <1>1 DEF X!HandlerReturns, Telling
<1>5. Behind(e)'
  BY <1>1, <1>2, <1>4, BehindStays DEF EventIsNewest, XidStep
<1>6. /\ UNCHANGED <<xLoop, xEvent>>
      /\ xCalls'[s] = Tail(xCalls[s])
  BY <1>1 DEF X!HandlerReturns, XidTyped
<1>7. 1 \in DOMAIN xCalls[s] /\ xCalls[s][1] = r
  BY <1>1, <1>2, <1>3, EmptySeq, HeadTailProperties
<1>8. \A k \in DOMAIN xCalls'[s] : xCalls'[s][k] # r
  <2> SUFFICES ASSUME NEW k \in DOMAIN xCalls'[s], xCalls'[s][k] = r
               PROVE  FALSE
    OBVIOUS
  <2>1. k + 1 \in DOMAIN xCalls[s] /\ xCalls[s][k + 1] = r /\ k + 1 # 1
    BY <1>1, <1>2, <1>6, HeadTailProperties
  <2> QED
    BY <1>7, <2>1 DEF RegisteredOnce, IsInjective
<1>9. Telling' = Telling /\ \A t \in Telling : t = s
  BY <1>4, <1>6 DEF OneLoop, Telling, X!Alive
<1>10. \A f \in xEvent[s] : f = e
  BY <1>4 DEF EventIsNewest
<1>11. \A i \in DOMAIN work :
         ~(work[i].source = "xid" /\ work[i].trigger = e /\ work[i].registration = r)
  BY <1>4, <1>7 DEF TriggersBehind
<1>12. ASSUME NEW t \in Telling', NEW f \in xEvent'[t]
       PROVE  /\ f = e /\ xLoop'[t] = "calling"
              /\ \A k \in DOMAIN xCalls'[t] : xCalls'[t][k] # r
  <2>1. t = s
    BY <1>9
  <2> QED
    BY <1>4, <1>6, <1>8, <1>10, <2>1
<1> QED
  BY <1>1, <1>2, <1>3, <1>5, <1>11, <1>12

LEMMA TriggersHold ==
    ASSUME WatchersInv, CorrelationsTyped, RegisteredOnce, TriggersBehind, XidReportedOnce,
           [Next]_vars
    PROVE  TriggersBehind' /\ XidReportedOnce'
<1> DEFINE Trailing(r, n) ==
             n \in X!Events /\ Behind(n) /\ WasTold(r, n)
<1>0. XidStep
  BY NextStepsXid DEF XidStep, vars
<1>1. ASSUME NEW r, NEW n, Trailing(r, n)
      PROVE  Trailing(r, n)'
  <2>1. n \in Nat
    BY <1>1 DEF X!Events
  <2>2. Behind(n)'
    BY <1>0, <1>1, <2>1, BehindStays DEF WatchersInv, XidInv
  <2>3. WasTold(r, n)'
    BY <1>0, <1>1, <2>1, TriggerStaysBehind
  <2> QED
    BY <1>1, <2>2, <2>3 DEF X!Events
<1>2. TriggersBehind <=> \A i \in DOMAIN work : work[i].source = "xid" =>
                            Trailing(work[i].registration, work[i].trigger)
  BY DEF TriggersBehind, WasTold
<1>3. \A i \in DOMAIN work : work[i].source = "xid" =>
         \E r, n : r = work[i].registration /\ n = work[i].trigger /\ Trailing(r, n)
  BY <1>2
<1> HIDE DEF Trailing
<1>4. \A i \in DOMAIN work : work[i].source = "xid" =>
         \E r, n : r = work[i].registration /\ n = work[i].trigger /\ Trailing(r, n)'
  BY <1>1, <1>3
<1>5. SUFFICES /\ \A i \in DOMAIN work' : work'[i].source = "xid" =>
                     \E r, n : r = work'[i].registration /\ n = work'[i].trigger /\ Trailing(r, n)'
               /\ XidReportedOnce'
  BY DEF Trailing, TriggersBehind, WasTold
<1> DEFINE Kept(i, j) == /\ work'[i].registration = work[j].registration
                         /\ work'[i].source = work[j].source
                         /\ work'[i].trigger = work[j].trigger
<1>6. CASE Elsewhere \/ OwnerMoves
  <2>1. work' = work
    BY <1>6 DEF Elsewhere, OwnerMoves, Owner, RegisterXid, RegisterK8s, Cleanup,
       CleanupReturns, CancelParent
  <2> QED
    BY <1>4, <2>1 DEF XidReportedOnce
<1>7. ASSUME NEW i \in DOMAIN work, GoesOn(i)
      PROVE  /\ \A j \in DOMAIN work' : work'[j].source = "xid" =>
                   \E r, n : r = work'[j].registration /\ n = work'[j].trigger /\ Trailing(r, n)'
             /\ XidReportedOnce'
  <2>1. DOMAIN work' = DOMAIN work /\ \A j \in DOMAIN work : Kept(j, j)
    BY <1>7, LenProperties DEF GoesOn, CorrelationsTyped
  <2> QED
    BY <1>4, <2>1 DEF XidReportedOnce
<1>8. ASSUME NEW w \in Correlation, work' = Append(work, w)
      PROVE  \A j \in DOMAIN work' :
                \/ j \in DOMAIN work /\ work'[j] = work[j]
                \/ j = Len(work) + 1 /\ work'[j] = w
  BY <1>8, AppendProperties DEF CorrelationsTyped
<1>9. ASSUME NEW s \in X!Starts, XidBegins(s)
      PROVE  /\ \A j \in DOMAIN work' : work'[j].source = "xid" =>
                   \E r, n : r = work'[j].registration /\ n = work'[j].trigger /\ Trailing(r, n)'
             /\ XidReportedOnce'
  <2>1. PICK r \in Registrations, e \in X!Events :
              /\ work' = Append(work, Begun(r, "xid", e))
              /\ Behind(e)'
              /\ \A t \in Telling' : \A f \in xEvent'[t] :
                   /\ f = e /\ xLoop'[t] = "calling"
                   /\ \A k \in DOMAIN xCalls'[t] : xCalls'[t][k] # r
              /\ \A i \in DOMAIN work :
                   ~(work[i].source = "xid" /\ work[i].trigger = e /\ work[i].registration = r)
    BY <1>9, XidBeginsOnce
  <2>2. PICK w \in Correlation : w = Begun(r, "xid", e)
    BY <1>9, <2>1, BegunTyped
  <2>3. w.source = "xid" /\ w.registration = r /\ w.trigger = e
    BY <2>2 DEF Begun
  <2>4. Trailing(r, e)'
    BY <2>1 DEF Trailing, WasTold, X!Events
  <2>5. \A j \in DOMAIN work' :
            \/ j \in DOMAIN work /\ work'[j] = work[j]
            \/ j = Len(work) + 1 /\ work'[j] = w
    BY <1>8, <2>1, <2>2
  <2>6. \A j \in DOMAIN work' : work'[j].source = "xid" =>
            \E q, n : q = work'[j].registration /\ n = work'[j].trigger /\ Trailing(q, n)'
    BY <1>4, <2>3, <2>4, <2>5
  <2>7. XidReportedOnce'
    BY <2>1, <2>3, <2>5 DEF XidReportedOnce
  <2> QED
    BY <2>6, <2>7
<1>10. ASSUME NEW s \in K!Starts, K8sBegins(s)
       PROVE  /\ \A j \in DOMAIN work' : work'[j].source = "xid" =>
                   \E r, n : r = work'[j].registration /\ n = work'[j].trigger /\ Trailing(r, n)'
              /\ XidReportedOnce'
  <2>1. PICK w \in Correlation : work' = Append(work, w) /\ w.source = "k8s"
    BY <1>10, K8sBegunTyped
  <2>2. \A j \in DOMAIN work' : work'[j].source = "xid" => j \in DOMAIN work /\ work'[j] = work[j]
    BY <1>8, <2>1
  <2> QED
    BY <1>4, <2>2 DEF XidReportedOnce
<1> QED
  BY <1>6, <1>7, <1>9, <1>10, MonitorSteps DEF CorrelationsMove

LEMMA XidInvariant ==
    Spec => [](WatchersInv /\ CorrelationsTyped /\ RegisteredOnce /\ TriggersBehind /\ XidReportedOnce)
<1> DEFINE Inv == CorrelationsTyped /\ RegisteredOnce /\ TriggersBehind /\ XidReportedOnce
<1>1. Init => Inv
  <2> SUFFICES ASSUME Init PROVE Inv
    OBVIOUS
  <2>1. work = << >> /\ work \in Seq(Correlation) /\ xHandlers = << >>
    BY DEF Init, X!Init
  <2>2. RegisteredOnce
    BY <2>1 DEF Init, X!Init, RegisteredOnce, IsInjective
  <2> QED
    BY <2>1, <2>2 DEF Init, CorrelationsTyped, TriggersBehind, XidReportedOnce, Phases
<1>2. WatchersInv /\ Inv /\ [Next]_vars => Inv'
  BY CorrelationsStayTyped, RegisteredOnceStays, TriggersHold
<1> QED
  BY <1>1, <1>2, WatchersInvariant, PTL DEF Spec

\* However often the watcher is restarted and however many registrations there
\* are, an XID error leads to one incident of a registration at most: no message
\* is read twice and no handler is called twice for it.
THEOREM XidOnce == Spec => []XidReportedOnce
BY XidInvariant, PTL
==============================================================================

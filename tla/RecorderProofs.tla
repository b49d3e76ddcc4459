---------------------------- MODULE RecorderProofs ----------------------------
(***************************************************************************)
(* The flight recorder keeps its promises for any number of callers,       *)
(* devices and starts and every capacity, when no Start overlaps a Stop.   *)
(***************************************************************************)
EXTENDS Recorder, TLAPS

Stages == {"idle"} \union InStart \union InStop

RecorderTyped ==
    /\ running \in BOOLEAN /\ nvml \in BOOLEAN
    /\ stopCh \in 0..MaxStarts
    /\ thread \in [Threads -> Stages]
    /\ loop \in [Starts -> {"none", "done"} \union Alive]
    /\ listens \in [Starts -> 0..MaxStarts]

\* running decides a race of two calls: one is at work at a time, a Start while
\* running is set, a Stop after it took it back.
OneCallAtWork ==
    /\ \A t, u \in Threads : thread[t] # "idle" /\ thread[u] # "idle" => t = u
    /\ \A t \in Threads : thread[t] \in InStart => running
    /\ \A t \in Threads : thread[t] \in InStop => ~running

\* r.stopCh is the channel of the newest start, and no channel is closed before
\* it is made.
NewestChannel ==
    /\ \A s \in Starts : loop[s] # "none" <=> s <= stopCh
    /\ \A c \in closedChs : c \in 1..stopCh

\* Only the newest goroutine samples, it has its NVML, and it waits for the
\* channel that was made for it.
OnlyTheNewest ==
    \A s \in Starts :
        /\ loop[s] \in Alive => s = stopCh /\ nvml
        /\ loop[s] = "select" => listens[s] = s

MustSample == (running /\ Quiet) \/ \E t \in Threads : thread[t] = "close"

MustRest ==
    \/ ~running /\ Quiet
    \/ \E t \in Threads : thread[t] \in InStart \union {"shutdown"}

\* Where the calls are decides whether the goroutine samples; while one waits
\* for it to end, it may or may not.
SamplesWhenItMust ==
    /\ MustSample => stopCh # 0 /\ stopCh \notin closedChs /\ loop[stopCh] \in Alive
    /\ MustRest => Live = {}
    /\ (\E t \in Threads : thread[t] = "spawn") => nvml

RecorderInv ==
    /\ RecorderTyped /\ OneCallAtWork /\ NewestChannel /\ OnlyTheNewest
    /\ SamplesWhenItMust /\ StopNeverPanics

BuffersTyped ==
    /\ buffers \in [GPUs -> Seq(Time)]
    /\ stamp \in [Starts -> Time]
    /\ clock \in Time

NothingFromTheFuture == \A u \in GPUs : \A i \in DOMAIN buffers[u] : buffers[u][i] <= clock

\* The round that samples was stamped no earlier than any item there is.
NoItemAfterTheRound ==
    \A s \in Starts : loop[s] = "sampling" =>
        /\ stamp[s] <= clock
        /\ \A u \in GPUs : \A i \in DOMAIN buffers[u] : buffers[u][i] <= stamp[s]

BuffersInv ==
    BuffersTyped /\ BuffersAreSorted /\ NothingFromTheFuture /\ NoItemAfterTheRound

-------------------------------------------------------------------------------
(* The calls *)

LEMMA RecorderInitially == Init => RecorderInv /\ BuffersInv
<1> SUFFICES ASSUME Init PROVE RecorderInv /\ BuffersInv
  OBVIOUS
<1>1. RecorderTyped
  <2>1. 0 \in 0..MaxStarts
    BY RecorderAssumption DEF RecorderAssumption
  <2>2. loop \in [Starts -> {"none", "done"} \union Alive] /\ thread \in [Threads -> Stages]
    BY DEF Init, Stages
  <2> QED
    BY <2>1, <2>2 DEF Init, RecorderTyped
<1>2. OneCallAtWork /\ NewestChannel /\ OnlyTheNewest /\ StopNeverPanics
  BY DEF Init, OneCallAtWork, NewestChannel, OnlyTheNewest, StopNeverPanics,
         InStart, InStop, Alive, Starts
<1>3. SamplesWhenItMust
  BY DEF Init, SamplesWhenItMust, MustSample, MustRest, Quiet, Live, InStart, Alive
<1>4. BuffersInv
  BY RecorderAssumption DEF Init, BuffersInv, BuffersTyped, BuffersAreSorted,
     NothingFromTheFuture, NoItemAfterTheRound, Time
<1> QED
  BY <1>1, <1>2, <1>3, <1>4 DEF RecorderInv

\* What a step of one call does to the stages, when no other is at work.
LEMMA MoveAlone ==
    ASSUME RecorderInv, NEW t \in Threads, NEW from \in Stages, NEW to \in Stages,
           Move(t, from, to),
           from # "idle" \/ \A u \in Threads : thread[u] = "idle"
    PROVE  /\ thread' \in [Threads -> Stages]
           /\ thread[t] = from /\ thread'[t] = to
           /\ \A u \in Threads \ {t} : thread[u] = "idle" /\ thread'[u] = "idle"
BY DEF RecorderInv, RecorderTyped, OneCallAtWork, Move

LEMMA StartKeeps ==
    ASSUME ~MayOverlap, RecorderInv, NEW t \in Threads, StartStep(t)
    PROVE  RecorderInv'
<1> USE DEF Stages, InStart, InStop
<1>1. CASE StartCAS(t)
  <2>1. \A u \in Threads : thread[u] = "idle"
    BY <1>1 DEF StartCAS, StartWins, NobodyIn, RecorderInv, RecorderTyped, OneCallAtWork
  <2>2. /\ thread' \in [Threads -> Stages] /\ thread'[t] = "init"
        /\ \A u \in Threads \ {t} : thread'[u] = "idle"
    BY <1>1, <2>1, MoveAlone DEF StartCAS
  <2>3. RecorderTyped' /\ OneCallAtWork' /\ StopNeverPanics'
    BY <1>1, <2>2 DEF StartCAS, RecorderInv, RecorderTyped, OneCallAtWork,
                      StopNeverPanics, loopVars
  <2>4. NewestChannel' /\ OnlyTheNewest'
    BY <1>1 DEF StartCAS, RecorderInv, NewestChannel, OnlyTheNewest, loopVars
  <2>5. Live' = {}
    BY <1>1, <2>1 DEF StartCAS, StartWins, RecorderInv, SamplesWhenItMust, MustRest, Quiet, Live, loopVars
  <2>6. SamplesWhenItMust'
    BY <2>2, <2>5 DEF SamplesWhenItMust, MustSample, Quiet
  <2> QED
    BY <2>3, <2>4, <2>6 DEF RecorderInv
<1>2. CASE InitFails(t) \/ InitNvml(t) \/ DiscoverFails(t)
           \/ (\E found \in SUBSET GPUs : Discover(t, found))
           \/ UndoInit(t) \/ StartFails(t)
  <2>1. PICK from \in InStart, to \in Stages \ InStop :
          /\ Move(t, from, to)
          /\ running' = (to # "idle")
          /\ to = "spawn" => nvml'
          /\ UNCHANGED <<stopCh, closedChs, panicked, loopVars>>
          /\ nvml' \in BOOLEAN
    BY <1>2 DEF InitFails, InitNvml, DiscoverFails, Discover, UndoInit, StartFails, RecorderInv, RecorderTyped, OneCallAtWork, Move
  <2>2. /\ thread' \in [Threads -> Stages] /\ thread[t] = from /\ thread'[t] = to
        /\ \A u \in Threads \ {t} : thread'[u] = "idle"
    BY <2>1, MoveAlone
  <2>3. Live = {} /\ Live' = {}
    BY <2>1, <2>2 DEF RecorderInv, SamplesWhenItMust, MustRest, Live, loopVars
  <2>4. RecorderTyped' /\ OneCallAtWork' /\ StopNeverPanics'
    BY <2>1, <2>2 DEF RecorderInv, RecorderTyped, OneCallAtWork, StopNeverPanics, loopVars
  <2>5. NewestChannel' /\ OnlyTheNewest'
    BY <2>1, <2>3 DEF RecorderInv, NewestChannel, OnlyTheNewest, Live, loopVars, Alive
  <2>6. SamplesWhenItMust'
    BY <2>1, <2>2, <2>3 DEF SamplesWhenItMust, MustSample, Quiet
  <2> QED
    BY <2>4, <2>5, <2>6 DEF RecorderInv
<1>3. CASE Spawn(t)
  <2>1. PICK s \in Starts :
          /\ Move(t, "spawn", "idle")
          /\ loop[s] = "none"
          /\ \A r \in Starts : r < s => loop[r] # "none"
          /\ stopCh' = s
          /\ loop' = [loop EXCEPT ![s] = "round"]
          /\ UNCHANGED <<running, closedChs, panicked, nvml, listens>>
    BY <1>3 DEF Spawn
  <2>2. /\ thread' \in [Threads -> Stages] /\ thread[t] = "spawn"
        /\ \A u \in Threads : thread'[u] = "idle"
    BY <2>1, MoveAlone
  <2>3. running /\ Live = {} /\ nvml
    BY <2>2 DEF RecorderInv, OneCallAtWork, SamplesWhenItMust, MustRest
  <2>4. s = stopCh + 1
    <3>1. s \in Nat /\ stopCh \in 0..MaxStarts /\ MaxStarts \in Nat /\ s <= MaxStarts
      BY RecorderAssumption DEF Starts, RecorderInv, RecorderTyped
    <3>2. ~(s <= stopCh)
      BY <2>1 DEF RecorderInv, NewestChannel
    <3>3. ASSUME stopCh + 1 < s PROVE FALSE
      BY <3>1, <3>3, <2>1, stopCh + 1 \in Starts, ~(stopCh + 1 <= stopCh)
         DEF RecorderInv, NewestChannel, Starts
    <3> QED
      BY <3>1, <3>2, <3>3
  <2>5. RecorderTyped' /\ OneCallAtWork' /\ StopNeverPanics'
    BY <2>1, <2>2, <2>3 DEF RecorderInv, RecorderTyped, OneCallAtWork, StopNeverPanics, Starts, Alive
  <2>6. NewestChannel'
    BY <2>1, <2>4, RecorderAssumption DEF RecorderInv, RecorderTyped, NewestChannel, Starts
  <2>7. \A r \in Starts : loop'[r] \in Alive => r = s
    BY <2>1, <2>3 DEF RecorderInv, RecorderTyped, Live
  <2>8. OnlyTheNewest'
    BY <2>1, <2>3, <2>7 DEF RecorderInv, RecorderTyped, OnlyTheNewest, Alive
  <2>9. SamplesWhenItMust'
    <3>1. stopCh' # 0 /\ stopCh' \notin closedChs' /\ loop'[stopCh'] \in Alive
      BY <2>1, <2>4 DEF RecorderInv, RecorderTyped, NewestChannel, Starts, Alive
    <3>2. ~MustRest'
      BY <2>1, <2>2, <2>3 DEF MustRest
    <3> QED
      BY <3>1, <3>2, <2>2 DEF SamplesWhenItMust
  <2> QED
    BY <2>5, <2>6, <2>8, <2>9 DEF RecorderInv
<1> QED
  BY <1>1, <1>2, <1>3 DEF StartStep

LEMMA StopKeeps ==
    ASSUME ~MayOverlap, RecorderInv, NEW t \in Threads, StopStep(t)
    PROVE  RecorderInv'
<1> USE DEF Stages, InStart, InStop
<1>1. CASE StopCAS(t)
  <2>1. Quiet /\ running
    BY <1>1 DEF StopCAS, StopWins, NobodyIn, Quiet, RecorderInv, RecorderTyped, OneCallAtWork
  <2>2. /\ thread' \in [Threads -> Stages] /\ thread'[t] = "close"
        /\ \A u \in Threads \ {t} : thread'[u] = "idle"
    BY <1>1, <2>1, MoveAlone DEF StopCAS, Quiet
  <2>3. RecorderTyped' /\ OneCallAtWork' /\ StopNeverPanics'
    BY <1>1, <2>2 DEF StopCAS, RecorderInv, RecorderTyped, OneCallAtWork,
                      StopNeverPanics, loopVars
  <2>4. NewestChannel' /\ OnlyTheNewest'
    BY <1>1 DEF StopCAS, RecorderInv, NewestChannel, OnlyTheNewest, loopVars
  <2>5. stopCh' # 0 /\ stopCh' \notin closedChs' /\ loop'[stopCh'] \in Alive
    BY <1>1, <2>1 DEF StopCAS, RecorderInv, SamplesWhenItMust, MustSample, loopVars
  <2>6. ~MustRest' /\ ~\E u \in Threads : thread'[u] = "spawn"
    BY <2>2 DEF MustRest, Quiet
  <2>7. SamplesWhenItMust'
    BY <2>5, <2>6 DEF SamplesWhenItMust
  <2> QED
    BY <2>3, <2>4, <2>7 DEF RecorderInv
<1>2. CASE Close(t)
  <2>1. /\ thread' \in [Threads -> Stages] /\ thread[t] = "close" /\ thread'[t] = "wait"
        /\ \A u \in Threads \ {t} : thread'[u] = "idle"
    BY <1>2, MoveAlone DEF Close
  <2>2. /\ stopCh # 0 /\ closedChs' = closedChs \union {stopCh}
        /\ UNCHANGED <<running, stopCh, nvml, loopVars, panicked>>
    BY <1>2, <2>1 DEF Close, RecorderInv, SamplesWhenItMust, MustSample
  <2>3. RecorderTyped' /\ OneCallAtWork' /\ StopNeverPanics'
    BY <2>1, <2>2 DEF RecorderInv, RecorderTyped, OneCallAtWork, StopNeverPanics, loopVars
  <2>4. NewestChannel' /\ OnlyTheNewest'
    BY <2>2, RecorderAssumption
       DEF RecorderInv, RecorderTyped, NewestChannel, OnlyTheNewest, loopVars
  <2>5. ~MustSample' /\ ~MustRest' /\ ~\E u \in Threads : thread'[u] = "spawn"
    BY <2>1, <2>2 DEF MustSample, MustRest, Quiet
  <2>6. SamplesWhenItMust'
    BY <2>5 DEF SamplesWhenItMust
  <2> QED
    BY <2>3, <2>4, <2>6 DEF RecorderInv
<1>3. CASE Wait(t) \/ ShutdownNvml(t)
  <2>1. PICK from \in {"wait", "shutdown"}, to \in {"shutdown", "idle"} :
          /\ Move(t, from, to)
          /\ UNCHANGED <<running, stopCh, closedChs, panicked, loopVars>>
          /\ nvml' \in BOOLEAN
    BY <1>3 DEF Wait, ShutdownNvml, RecorderInv, RecorderTyped
  <2>2. /\ thread' \in [Threads -> Stages] /\ thread[t] = from /\ thread'[t] = to
        /\ \A u \in Threads \ {t} : thread'[u] = "idle"
    BY <2>1, MoveAlone
  <2>3. ~running /\ ~running'
    BY <2>1, <2>2 DEF RecorderInv, OneCallAtWork
  <2>4. Live = {}
    <3>1. CASE Wait(t)
      BY <3>1 DEF Wait, LoopsDone, Live
    <3>2. CASE ShutdownNvml(t)
      BY <3>2 DEF ShutdownNvml, Move, RecorderInv, SamplesWhenItMust, MustRest
    <3> QED
      BY <1>3, <3>1, <3>2
  <2>5. Live' = {}
    BY <2>1, <2>4 DEF Live, loopVars
  <2>6. RecorderTyped' /\ OneCallAtWork' /\ StopNeverPanics'
    BY <2>1, <2>2, <2>3 DEF RecorderInv, RecorderTyped, OneCallAtWork, StopNeverPanics, loopVars
  <2>7. NewestChannel' /\ OnlyTheNewest'
    BY <2>1, <2>4 DEF RecorderInv, NewestChannel, OnlyTheNewest, Live, Alive, loopVars
  <2>8. ~MustSample' /\ ~\E u \in Threads : thread'[u] = "spawn"
    BY <2>2, <2>3 DEF MustSample
  <2>9. SamplesWhenItMust'
    BY <2>5, <2>8 DEF SamplesWhenItMust
  <2> QED
    BY <2>6, <2>7, <2>9 DEF RecorderInv
<1> QED
  BY <1>1, <1>2, <1>3 DEF StopStep

-------------------------------------------------------------------------------
(* The sampling goroutine *)

\* A step that moves one goroutine between its stations while it lives.
LEMMA StaysAlive ==
    ASSUME RecorderInv, NEW s \in Starts, loop[s] \in Alive, NEW where \in Alive,
           loop' = [loop EXCEPT ![s] = where],
           listens' \in [Starts -> 0..MaxStarts],
           \A r \in Starts : loop'[r] = "select" => listens'[r] = r,
           UNCHANGED <<threadVars, nvml>>
    PROVE  RecorderInv'
<1>1. loop' \in [Starts -> {"none", "done"} \union Alive]
      /\ \A r \in Starts : /\ loop'[r] \in Alive <=> loop[r] \in Alive
                           /\ loop'[r] = "none" <=> loop[r] = "none"
  BY DEF RecorderInv, RecorderTyped, Alive
<1>2. RecorderTyped' /\ OneCallAtWork' /\ StopNeverPanics'
  BY <1>1 DEF RecorderInv, RecorderTyped, OneCallAtWork, StopNeverPanics, threadVars
<1>3. NewestChannel' /\ OnlyTheNewest'
  BY <1>1 DEF RecorderInv, NewestChannel, OnlyTheNewest, threadVars
<1>4. Live' = Live
  BY <1>1 DEF Live
<1>5. (MustSample' <=> MustSample) /\ (MustRest' <=> MustRest)
  BY DEF threadVars, MustSample, MustRest, Quiet
<1>6. stopCh # 0 => stopCh \in Starts
  BY RecorderAssumption DEF RecorderAssumption, RecorderInv, RecorderTyped, Starts
<1>7. SamplesWhenItMust'
  BY <1>1, <1>4, <1>5, <1>6 DEF RecorderInv, SamplesWhenItMust, threadVars
<1> QED
  BY <1>2, <1>3, <1>7 DEF RecorderInv

LEMMA LoopKeeps ==
    ASSUME RecorderInv, NEW s \in Starts, Round(s) \/ Tick(s) \/ Quit(s)
    PROVE  RecorderInv'
<1>1. CASE \E present \in SUBSET GPUs : BeginRound(s, present)
  <2>1. /\ loop[s] = "round" /\ loop' = [loop EXCEPT ![s] = "sampling"]
        /\ UNCHANGED <<threadVars, nvml, listens>>
    BY <1>1 DEF BeginRound, At
  <2>2. /\ listens' \in [Starts -> 0..MaxStarts]
        /\ \A r \in Starts : loop'[r] = "select" => listens'[r] = r
    BY <2>1 DEF RecorderInv, RecorderTyped, OnlyTheNewest
  <2> QED
    BY <2>1, <2>2, StaysAlive DEF Alive
<1>2. CASE RoundFails(s) \/ EndRound(s)
  <2>1. /\ loop[s] \in {"round", "sampling"} /\ EnterSelect(s)
        /\ UNCHANGED <<threadVars, nvml>>
    BY <1>2 DEF RoundFails, EndRound, At
  <2>2. s = stopCh
    BY <2>1 DEF RecorderInv, OnlyTheNewest, Alive
  <2>3. /\ listens' \in [Starts -> 0..MaxStarts]
        /\ \A r \in Starts : loop'[r] = "select" => listens'[r] = r
    BY <2>1, <2>2 DEF EnterSelect, RecorderInv, RecorderTyped, OnlyTheNewest
  <2> QED
    BY <2>1, <2>3, StaysAlive DEF EnterSelect, Alive
<1>3. CASE \E u \in GPUs : Capture(s, u) \/ CaptureFails(s, u)
  <2>1. loop[s] = "sampling" /\ loop' = [loop EXCEPT ![s] = "sampling"]
        /\ UNCHANGED <<threadVars, nvml, loop, listens>>
    BY <1>3 DEF Capture, CaptureFails, At, RecorderInv, RecorderTyped
  <2> QED
    BY <2>1, StaysAlive DEF RecorderInv, RecorderTyped, OnlyTheNewest, Alive
<1>4. CASE Tick(s)
  BY <1>4, StaysAlive DEF Tick, At, Alive, RecorderInv, RecorderTyped, OnlyTheNewest
<1>5. CASE Quit(s)
  <2>1. /\ loop[s] = "select" /\ s = stopCh /\ s \in closedChs
        /\ loop' = [loop EXCEPT ![s] = "done"]
        /\ UNCHANGED <<threadVars, nvml, listens>>
    BY <1>5 DEF Quit, At, RecorderInv, OnlyTheNewest, Alive
  <2>2. /\ loop' \in [Starts -> {"none", "done"} \union Alive]
        /\ \A r \in Starts : loop'[r] \in Alive => loop[r] \in Alive /\ loop'[r] = loop[r]
        /\ \A r \in Starts : loop'[r] = "none" <=> loop[r] = "none"
    BY <2>1 DEF RecorderInv, RecorderTyped, Alive
  <2>3. ~MustSample
    BY <2>1 DEF RecorderInv, SamplesWhenItMust
  <2>4. RecorderTyped' /\ OneCallAtWork' /\ StopNeverPanics'
    BY <2>1, <2>2 DEF RecorderInv, RecorderTyped, OneCallAtWork, StopNeverPanics, threadVars
  <2>5. NewestChannel' /\ OnlyTheNewest'
    BY <2>1, <2>2 DEF RecorderInv, NewestChannel, OnlyTheNewest, threadVars, Alive
  <2>6. Live' \subseteq Live
    BY <2>2 DEF Live
  <2>7. (MustSample' <=> MustSample) /\ (MustRest' <=> MustRest)
    BY <2>1 DEF threadVars, MustSample, MustRest, Quiet
  <2>8. SamplesWhenItMust'
    BY <2>1, <2>3, <2>6, <2>7 DEF RecorderInv, SamplesWhenItMust, threadVars
  <2> QED
    BY <2>4, <2>5, <2>8 DEF RecorderInv
<1> QED
  BY <1>1, <1>2, <1>3, <1>4, <1>5 DEF Round

LEMMA RecorderStep ==
    ASSUME ~MayOverlap, RecorderInv, [Next]_vars
    PROVE  RecorderInv'
<1>1. CASE UNCHANGED vars \/ TimePasses
  <2>1. UNCHANGED <<threadVars, nvml, loop, listens>>
    BY <1>1 DEF vars, loopVars, TimePasses
  <2> QED
    BY <2>1 DEF threadVars, RecorderInv, RecorderTyped, OneCallAtWork, NewestChannel,
                OnlyTheNewest, SamplesWhenItMust, MustSample, MustRest, Quiet, Live,
                StopNeverPanics
<1> QED
  BY <1>1, StartKeeps, StopKeeps, LoopKeeps DEF Next

-------------------------------------------------------------------------------
(* The buffers *)

Ordered(l) == \A i, j \in DOMAIN l : i < j => l[i] <= l[j]

UpTo(l, x) == \A i \in DOMAIN l : l[i] <= x

LEMMA ItemsAreTimes ==
    ASSUME NEW l \in Seq(Time)
    PROVE  \A i \in DOMAIN l : l[i] \in Time
OBVIOUS

\* An item that is no less than the others goes to the end of an ordered log.
LEMMA AppendKeepsOrder ==
    ASSUME NEW l \in Seq(Time), NEW x \in Time, Ordered(l), UpTo(l, x)
    PROVE  Append(l, x) \in Seq(Time) /\ Ordered(Append(l, x)) /\ UpTo(Append(l, x), x)
<1> DEFINE m == Append(l, x)
<1>1. Time \subseteq Int
  BY RecorderAssumption DEF RecorderAssumption, Time
<1>2. m \in Seq(Time) /\ DOMAIN m = 1..(Len(l) + 1) /\ DOMAIN l = 1..Len(l) /\ Len(l) \in Nat
  OBVIOUS
<1>3. (\A i \in 1..Len(l) : m[i] = l[i]) /\ m[Len(l) + 1] = x
  OBVIOUS
<1> HIDE DEF m
<1>4. UpTo(m, x)
  BY <1>1, <1>2, <1>3 DEF UpTo
<1>5. Ordered(m)
  BY <1>1, <1>2, <1>3 DEF UpTo, Ordered
<1> QED
  BY <1>2, <1>4, <1>5 DEF m

\* So does the eviction of the oldest.
LEMMA TailKeepsOrder ==
    ASSUME NEW l \in Seq(Time), Len(l) >= 1, NEW x \in Time, Ordered(l), UpTo(l, x)
    PROVE  Tail(l) \in Seq(Time) /\ Ordered(Tail(l)) /\ UpTo(Tail(l), x)
<1> DEFINE m == Tail(l)
<1>1. m \in Seq(Time) /\ DOMAIN m = 1..(Len(l) - 1) /\ DOMAIN l = 1..Len(l) /\ Len(l) \in Nat
  OBVIOUS
<1>2. \A i \in 1..(Len(l) - 1) : m[i] = l[i + 1]
  OBVIOUS
<1> HIDE DEF m
<1>3. \A i \in 1..(Len(l) - 1) : i + 1 \in 1..Len(l)
  BY <1>1
<1>4. UpTo(m, x)
  BY <1>1, <1>2, <1>3 DEF UpTo
<1>5. Ordered(m)
  <2> SUFFICES ASSUME NEW i \in DOMAIN m, NEW j \in DOMAIN m, i < j
               PROVE  m[i] <= m[j]
    BY DEF Ordered
  <2>1. i + 1 \in 1..Len(l) /\ j + 1 \in 1..Len(l) /\ i + 1 < j + 1
    BY <1>1, <1>3
  <2> QED
    BY <1>1, <1>2, <2>1 DEF Ordered
<1> QED
  BY <1>1, <1>4, <1>5 DEF m

\* BoundedLog's Pushed is one or both.
LEMMA PushedKeepsOrder ==
    ASSUME NEW l \in Seq(Time), NEW x \in Time, Ordered(l), UpTo(l, x),
           NEW m, m = IF Len(l) < Capacity THEN Append(l, x) ELSE Append(Tail(l), x)
    PROVE  m \in Seq(Time) /\ Ordered(m) /\ UpTo(m, x)
<1>1. CASE Len(l) < Capacity
  BY <1>1, AppendKeepsOrder
<1>2. CASE ~(Len(l) < Capacity)
  <2>1. Len(l) >= 1
    BY <1>2, RecorderAssumption, Len(l) \in Nat DEF RecorderAssumption
  <2>2. Tail(l) \in Seq(Time) /\ Ordered(Tail(l)) /\ UpTo(Tail(l), x)
    BY <2>1, TailKeepsOrder
  <2> QED
    BY <1>2, <2>2, AppendKeepsOrder
<1> QED
  BY <1>1, <1>2

\* A capture puts the stamp of the round at the end of one buffer.
LEMMA CaptureKeepsOrder ==
    ASSUME RecorderInv, BuffersInv, NEW s \in Starts, NEW u \in GPUs, Capture(s, u)
    PROVE  BuffersInv'
<1> DEFINE l == buffers[u]
           x == stamp[s]
           m == IF Len(l) < Capacity THEN Append(l, x) ELSE Append(Tail(l), x)
<1>1. /\ loop[s] = "sampling"
      /\ buffers' = [buffers EXCEPT ![u] = m]
      /\ UNCHANGED <<loop, stamp, clock>>
  BY DEF Capture, At, Log!Pushed
<1>2. /\ l \in Seq(Time) /\ x \in Time /\ x <= clock
      /\ Ordered(l) /\ UpTo(l, x)
  BY <1>1 DEF Ordered, UpTo, BuffersInv, BuffersTyped, BuffersAreSorted, NoItemAfterTheRound
<1>3. m \in Seq(Time) /\ Ordered(m) /\ UpTo(m, x)
  <2> HIDE DEF m
  <2>1. m = IF Len(l) < Capacity THEN Append(l, x) ELSE Append(Tail(l), x)
    BY DEF m
  <2> HIDE DEF l, x
  <2> QED
    BY <1>2, <2>1, PushedKeepsOrder
<1> HIDE DEF m
<1>4. /\ buffers \in [GPUs -> Seq(Time)] /\ buffers' \in [GPUs -> Seq(Time)]
      /\ buffers'[u] = m
      /\ \A v \in GPUs \ {u} : buffers'[v] = buffers[v]
  BY <1>1, <1>3 DEF BuffersInv, BuffersTyped
<1>5. BuffersTyped' /\ BuffersAreSorted'
  BY <1>1, <1>3, <1>4 DEF Ordered, BuffersInv, BuffersTyped, BuffersAreSorted
<1>6. \A r \in Starts : loop[r] = "sampling" => r = s
  BY <1>1 DEF RecorderInv, OnlyTheNewest, Alive
<1>7. NoItemAfterTheRound'
  BY <1>1, <1>2, <1>3, <1>4, <1>6 DEF UpTo, BuffersInv, NoItemAfterTheRound
<1>8. NothingFromTheFuture'
  <2>1. x \in Int /\ clock \in Int /\ x <= clock /\ \A i \in DOMAIN m : m[i] \in Int
    BY <1>2, <1>3, ItemsAreTimes, RecorderAssumption DEF RecorderAssumption, BuffersInv, BuffersTyped, Time
  <2>2. \A i \in DOMAIN m : m[i] <= clock
    BY <1>3, <2>1 DEF UpTo
  <2> QED
    BY <1>1, <1>4, <2>2 DEF BuffersInv, NothingFromTheFuture
<1> QED
  BY <1>5, <1>7, <1>8 DEF BuffersInv

LEMMA BuffersStep ==
    ASSUME RecorderInv, BuffersInv, [Next]_vars
    PROVE  BuffersInv'
<1> USE RecorderAssumption DEF RecorderAssumption, BuffersInv
<1>1. CASE \E s \in Starts, u \in GPUs : Capture(s, u)
  BY <1>1, CaptureKeepsOrder
<1>2. CASE TimePasses
  <2>1. clock' = clock + 1 /\ clock \in Int /\ clock' \in Time /\ Time \subseteq Int
        /\ UNCHANGED <<buffers, stamp, loop>>
    BY <1>2 DEF TimePasses, loopVars, BuffersTyped, Time
  <2>2. BuffersTyped' /\ BuffersAreSorted'
    BY <2>1 DEF BuffersTyped, BuffersAreSorted
  <2>3. NothingFromTheFuture'
    <3> SUFFICES ASSUME NEW u \in GPUs, NEW i \in DOMAIN buffers[u]
                 PROVE  buffers[u][i] <= clock + 1
      BY <2>1 DEF NothingFromTheFuture
    <3>1. buffers[u] \in Seq(Time) /\ buffers[u][i] <= clock
      BY DEF BuffersTyped, NothingFromTheFuture
    <3>2. buffers[u][i] \in Int
      BY <2>1, <3>1, ItemsAreTimes
    <3> QED
      BY <2>1, <3>1, <3>2
  <2>4. NoItemAfterTheRound'
    <3>1. ASSUME NEW r \in Starts, stamp[r] <= clock PROVE stamp[r] <= clock + 1
      <4>1. stamp[r] \in Int
        BY <2>1 DEF BuffersTyped
      <4> QED
        BY <2>1, <3>1, <4>1
    <3> QED
      BY <2>1, <3>1 DEF NoItemAfterTheRound
  <2> QED
    BY <2>2, <2>3, <2>4
<1>3. CASE \E s \in Starts, present \in SUBSET GPUs : BeginRound(s, present)
  <2>1. PICK s \in Starts :
          /\ stamp' = [stamp EXCEPT ![s] = clock]
          /\ loop' = [loop EXCEPT ![s] = "sampling"]
          /\ UNCHANGED <<buffers, clock>>
          /\ loop[s] = "round"
    BY <1>3 DEF BeginRound, At
  <2>2. \A r \in Starts : loop'[r] = "sampling" => r = s
    BY <2>1 DEF RecorderInv, RecorderTyped, OnlyTheNewest, Alive
  <2>3. BuffersTyped' /\ BuffersAreSorted' /\ NothingFromTheFuture'
    BY <2>1 DEF BuffersTyped, BuffersAreSorted, NothingFromTheFuture
  <2>4. stamp'[s] = clock /\ clock <= clock
    BY <2>1 DEF BuffersTyped, Time
  <2>5. NoItemAfterTheRound'
    BY <2>1, <2>2, <2>4 DEF NothingFromTheFuture, NoItemAfterTheRound
  <2> QED
    BY <2>3, <2>5
<1>4. CASE \E t \in Threads, found \in SUBSET GPUs : Discover(t, found)
  <2>1. /\ \A u \in GPUs : buffers'[u] \in {buffers[u], << >>}
        /\ buffers' \in [GPUs -> Seq(Time)]
        /\ UNCHANGED <<stamp, clock, loop>>
    BY <1>4 DEF Discover, loopVars, BuffersTyped
  <2>2. \A u \in GPUs : \A i \in DOMAIN buffers'[u] : buffers'[u] = buffers[u]
    BY <2>1
  <2>3. BuffersTyped' /\ BuffersAreSorted'
    BY <2>1, <2>2 DEF BuffersTyped, BuffersAreSorted
  <2>4. NothingFromTheFuture' /\ NoItemAfterTheRound'
    BY <2>1, <2>2 DEF NothingFromTheFuture, NoItemAfterTheRound
  <2> QED
    BY <2>3, <2>4
<1>5. CASE UNCHANGED <<buffers, stamp, clock>>
           /\ \A s \in Starts : loop'[s] = "sampling" => loop[s] = "sampling"
  <2>1. BuffersTyped' /\ BuffersAreSorted' /\ NothingFromTheFuture'
    BY <1>5 DEF BuffersTyped, BuffersAreSorted, NothingFromTheFuture
  <2>2. NoItemAfterTheRound'
    BY <1>5 DEF NoItemAfterTheRound
  <2> QED
    BY <2>1, <2>2
<1>6. ASSUME NEW t \in Threads, StartStep(t) \/ StopStep(t)
      PROVE  \/ \E found \in SUBSET GPUs : Discover(t, found)
             \/ /\ UNCHANGED <<buffers, stamp, clock>>
                /\ \A s \in Starts : loop'[s] = "sampling" => loop[s] = "sampling"
  <2>1. CASE Spawn(t)
    BY <2>1 DEF Spawn, RecorderInv, RecorderTyped
  <2>2. CASE StartCAS(t) \/ InitFails(t) \/ InitNvml(t) \/ DiscoverFails(t)
             \/ UndoInit(t) \/ StartFails(t)
    BY <2>2 DEF StartCAS, InitFails, InitNvml, DiscoverFails, UndoInit, StartFails, loopVars
  <2>3. CASE StopStep(t)
    BY <2>3 DEF StopStep, StopCAS, Close, Wait, ShutdownNvml, loopVars
  <2> QED
    BY <1>6, <2>1, <2>2, <2>3 DEF StartStep
<1>7. ASSUME NEW s \in Starts, RoundFails(s) \/ EndRound(s) \/ Tick(s) \/ Quit(s)
             \/ \E u \in GPUs : CaptureFails(s, u)
      PROVE  UNCHANGED <<buffers, stamp, clock>>
             /\ \A r \in Starts : loop'[r] = "sampling" => loop[r] = "sampling"
  BY <1>7 DEF RoundFails, EndRound, Tick, Quit, CaptureFails, EnterSelect, RecorderInv, RecorderTyped
<1>8. CASE UNCHANGED vars
  BY <1>8, <1>5 DEF vars, loopVars
<1> QED
  BY <1>1, <1>2, <1>3, <1>4, <1>5, <1>6, <1>7, <1>8 DEF Next, Round

-------------------------------------------------------------------------------
(* The promises *)

LEMMA RecorderInvariant == ~MayOverlap => (Spec => [](RecorderInv /\ BuffersInv))
<1> SUFFICES ASSUME ~MayOverlap PROVE Spec => [](RecorderInv /\ BuffersInv)
  OBVIOUS
<1>1. RecorderInv /\ BuffersInv /\ [Next]_vars => (RecorderInv /\ BuffersInv)'
  BY RecorderStep, BuffersStep
<1> QED
  BY <1>1, RecorderInitially, PTL DEF Spec

\* Start and Stop leave what IsRunning says: a recorder that runs has its one
\* goroutine, an open channel that reaches it and its NVML; one that does not
\* has none, whichever step of Start failed.
THEOREM RunningRecorderSamples == ~MayOverlap => (Spec => []RunningIsSampling)
<1> SUFFICES ASSUME ~MayOverlap PROVE Spec => []RunningIsSampling
  OBVIOUS
<1>1. RecorderInv => RunningIsSampling
  <2> SUFFICES ASSUME RecorderInv, Quiet PROVE RunningIsSampling
    BY DEF RunningIsSampling
  <2>1. CASE running
    <3>1. stopCh # 0 /\ stopCh \notin closedChs /\ loop[stopCh] \in Alive
      BY <2>1 DEF RecorderInv, SamplesWhenItMust, MustSample
    <3>2. stopCh \in Starts
      BY <3>1, RecorderAssumption DEF RecorderAssumption, RecorderInv, RecorderTyped, Starts
    <3>3. Live = {stopCh} /\ nvml
      BY <3>1, <3>2 DEF RecorderInv, OnlyTheNewest, Live
    <3> QED
      BY <2>1, <3>1, <3>3 DEF RunningIsSampling
  <2>2. CASE ~running
    BY <2>2 DEF RunningIsSampling, RecorderInv, SamplesWhenItMust, MustRest
  <2> QED
    BY <2>1, <2>2
<1> QED
  BY <1>1, RecorderInvariant, PTL

\* No round reads devices after nvmlClient.Shutdown.
THEOREM SamplingHasNvml == ~MayOverlap => (Spec => []NoUseAfterShutdown)
<1> SUFFICES ASSUME ~MayOverlap PROVE Spec => []NoUseAfterShutdown
  OBVIOUS
<1>1. RecorderInv => NoUseAfterShutdown
  BY DEF RecorderInv, OnlyTheNewest, NoUseAfterShutdown, Live
<1> QED
  BY <1>1, RecorderInvariant, PTL

\* Every buffer is in the order of its timestamps, over restarts and hotplug.
THEOREM HistoryIsOrdered == ~MayOverlap => (Spec => []BuffersAreSorted)
<1> SUFFICES ASSUME ~MayOverlap PROVE Spec => []BuffersAreSorted
  OBVIOUS
<1>1. BuffersInv => BuffersAreSorted
  BY DEF BuffersInv
<1> QED
  BY <1>1, RecorderInvariant, PTL
===============================================================================

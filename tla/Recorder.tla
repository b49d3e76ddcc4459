------------------------------- MODULE Recorder -------------------------------
(***************************************************************************)
(* The flight recorder (pkg/blackbox/recorder.go): Start and Stop, which   *)
(* any goroutine may call, the sampling goroutine between them, and the    *)
(* NVML client they share (pkg/nvml/real.go: Init and Shutdown are         *)
(* idempotent and count no users).                                         *)
(*                                                                         *)
(* The fields running (atomic), stopCh and wg are not under one lock: each *)
(* access to them is a step.  The buffer of a GPU is a BoundedLog of the   *)
(* times its snapshots were taken (RingBuffer implements it).              *)
(***************************************************************************)
EXTENDS Integers, Sequences, FiniteSets

CONSTANTS
    Threads,      \* goroutines that call Start and Stop
    GPUs,         \* UUIDs
    Capacity,     \* config.BufferCapacity()
    MaxStarts,    \* bound of the model: successful starts
    MaxTime,      \* bound of the model: the clock
    MayOverlap    \* whether a Start and a Stop may run at once; two Starts
                  \* and two Stops always may

ASSUME RecorderAssumption ==
    /\ Capacity \in Nat \ {0}
    /\ MaxStarts \in Nat /\ MaxTime \in Nat
    /\ MayOverlap \in BOOLEAN

VARIABLES
    running,    \* r.running
    stopCh,     \* r.stopCh: the number of the start that made it, 0 for nil
    closedChs,  \* the channels that were closed
    thread,     \* where each caller is
    nvml,       \* the NVML client is initialized
    loop,       \* where the sampling goroutine of each start is
    listens,    \* the channel its select statement is waiting on
    stamp,      \* the time of its current round
    left,       \* the devices of the round it has not captured yet
    buffers,    \* r.gpuBuffers, by UUID
    tracked,    \* the keys of r.gpuBuffers
    clock,
    panicked

threadVars == <<running, stopCh, closedChs, thread, panicked>>
loopVars == <<loop, listens, stamp, left>>
vars == <<threadVars, nvml, loopVars, buffers, tracked, clock>>

Starts == 1..MaxStarts
Time == 0..MaxTime

InStart == {"init", "discover", "undo", "failed", "spawn"}
InStop == {"close", "wait", "shutdown"}
Alive == {"round", "sampling", "select"}

Log(u) == INSTANCE BoundedLog WITH Items <- Time, log <- buffers[u]

Init ==
    /\ running = FALSE
    /\ stopCh = 0
    /\ closedChs = {}
    /\ thread = [t \in Threads |-> "idle"]
    /\ nvml = FALSE
    /\ loop = [s \in Starts |-> "none"]
    /\ listens = [s \in Starts |-> 0]
    /\ stamp = [s \in Starts |-> 0]
    /\ left = [s \in Starts |-> {}]
    /\ buffers = [u \in GPUs |-> << >>]
    /\ tracked = {}
    /\ clock = 0
    /\ panicked = FALSE

\* A panic ends the process: no goroutine takes another step.
Move(t, from, to) ==
    /\ ~panicked
    /\ thread[t] = from
    /\ thread' = [thread EXCEPT ![t] = to]

NobodyIn(phase) == MayOverlap \/ \A t \in Threads : thread[t] \notin phase

-------------------------------------------------------------------------------
(* Start *)

\* A fault: two Starts may win.
StartWinsAlways == TRUE

\* CompareAndSwap(false, true); the loser returns ErrAlreadyStarted.
StartWins == ~running

StartCAS(t) ==
    /\ Move(t, "idle", "init")
    /\ NobodyIn(InStop)
    /\ Cardinality({s \in Starts : loop[s] # "none"}) < MaxStarts
    /\ StartWins
    /\ running' = TRUE
    /\ UNCHANGED <<stopCh, closedChs, panicked, nvml, loopVars, buffers, tracked,
                   clock>>

\* nvmlClient.Init fails: Start takes back running and returns.
InitFails(t) ==
    /\ Move(t, "init", "idle")
    /\ running' = FALSE
    /\ UNCHANGED <<stopCh, closedChs, panicked, nvml, loopVars, buffers, tracked,
                   clock>>

InitNvml(t) ==
    /\ Move(t, "init", "discover")
    /\ nvml' = TRUE
    /\ UNCHANGED <<running, stopCh, closedChs, panicked, loopVars, buffers,
                   tracked, clock>>

\* GetDeviceCount fails.
DiscoverFails(t) ==
    /\ Move(t, "discover", "undo")
    /\ UNCHANGED <<running, stopCh, closedChs, panicked, nvml, loopVars, buffers,
                   tracked, clock>>

\* A new buffer for every device that can be read now; a GPU that was tracked
\* before loses its history, the others keep theirs.
Discover(t, found) ==
    /\ Move(t, "discover", "spawn")
    /\ nvml
    /\ buffers' = [u \in GPUs |-> IF u \in found THEN << >> ELSE buffers[u]]
    /\ tracked' = tracked \union found
    /\ UNCHANGED <<running, stopCh, closedChs, panicked, nvml, loopVars, clock>>

\* Shutdown refuses to work under the context of Start once that is cancelled,
\* which may be why the discovery failed: NVML then stays initialized.
UndoInit(t) ==
    /\ Move(t, "undo", "failed")
    /\ nvml' \in {FALSE, nvml}
    /\ UNCHANGED <<running, stopCh, closedChs, panicked, loopVars, buffers,
                   tracked, clock>>

StartFailsStillRunning(t) ==
    /\ Move(t, "failed", "idle")
    /\ UNCHANGED <<running, stopCh, closedChs, panicked, nvml, loopVars, buffers, tracked, clock>>

StartFails(t) ==
    /\ Move(t, "failed", "idle")
    /\ running' = FALSE
    /\ UNCHANGED <<stopCh, closedChs, panicked, nvml, loopVars, buffers, tracked,
                   clock>>

\* stopCh = make, wg.Add(1), go sampleLoop.
Spawn(t) ==
    \E s \in Starts :
        /\ Move(t, "spawn", "idle")
        /\ loop[s] = "none"
        /\ \A r \in Starts : r < s => loop[r] # "none"
        /\ stopCh' = s
        /\ loop' = [loop EXCEPT ![s] = "round"]
        /\ UNCHANGED <<running, closedChs, panicked, nvml, listens, stamp, left,
                       buffers, tracked, clock>>

-------------------------------------------------------------------------------
(* Stop *)

\* CompareAndSwap(true, false); the loser returns at once, even while the
\* winner still waits for the sampling goroutine.
StopWins == running

StopCAS(t) ==
    /\ Move(t, "idle", "close")
    /\ NobodyIn(InStart)
    /\ StopWins
    /\ running' = FALSE
    /\ UNCHANGED <<stopCh, closedChs, panicked, nvml, loopVars, buffers, tracked,
                   clock>>

\* close(r.stopCh): closing a nil channel or a closed one panics.
Close(t) ==
    /\ Move(t, "close", "wait")
    /\ IF stopCh = 0 \/ stopCh \in closedChs
       THEN panicked' = TRUE /\ UNCHANGED closedChs
       ELSE closedChs' = closedChs \union {stopCh} /\ UNCHANGED panicked
    /\ UNCHANGED <<running, stopCh, nvml, loopVars, buffers, tracked, clock>>

LoopsDoneUnawaited == TRUE

\* wg.Wait returns.
LoopsDone == \A s \in Starts : loop[s] \notin Alive

Wait(t) ==
    /\ Move(t, "wait", "shutdown")
    /\ LoopsDone
    /\ UNCHANGED <<running, stopCh, closedChs, panicked, nvml, loopVars, buffers,
                   tracked, clock>>

ShutdownNvml(t) ==
    /\ Move(t, "shutdown", "idle")
    /\ nvml' = FALSE
    /\ UNCHANGED <<running, stopCh, closedChs, panicked, loopVars, buffers,
                   tracked, clock>>

-------------------------------------------------------------------------------
(* sampleLoop *)

At(s, where) == ~panicked /\ loop[s] = where

EnterSelectNil(s) ==
    /\ loop' = [loop EXCEPT ![s] = "select"]
    /\ UNCHANGED listens

\* The select statement is entered: r.stopCh is read once, now.
EnterSelect(s) ==
    /\ loop' = [loop EXCEPT ![s] = "select"]
    /\ listens' = [listens EXCEPT ![s] = stopCh]

\* sampleAllGPUs reads the time and asks for the devices, which may have
\* changed since Discover.
BeginRound(s, present) ==
    /\ At(s, "round")
    /\ nvml
    /\ stamp' = [stamp EXCEPT ![s] = clock]
    /\ left' = [left EXCEPT ![s] = present]
    /\ loop' = [loop EXCEPT ![s] = "sampling"]
    /\ UNCHANGED <<threadVars, nvml, listens, buffers, tracked, clock>>

\* GetDeviceCount fails: the round is skipped.
RoundFails(s) ==
    /\ At(s, "round")
    /\ EnterSelect(s)
    /\ UNCHANGED <<threadVars, nvml, stamp, left, buffers, tracked, clock>>

\* A device is captured, and tracked if it was not (hotplug).
Capture(s, u) ==
    /\ At(s, "sampling")
    /\ u \in left[s]
    /\ nvml
    /\ left' = [left EXCEPT ![s] = @ \ {u}]
    /\ buffers' = [buffers EXCEPT ![u] = Log(u)!Pushed(@, stamp[s])]
    /\ tracked' = tracked \union {u}
    /\ UNCHANGED <<threadVars, nvml, loop, listens, stamp, clock>>

\* It cannot be read: the round goes on with the next.
CaptureFails(s, u) ==
    /\ At(s, "sampling")
    /\ u \in left[s]
    /\ left' = [left EXCEPT ![s] = @ \ {u}]
    /\ UNCHANGED <<threadVars, nvml, loop, listens, stamp, buffers, tracked, clock>>

EndRound(s) ==
    /\ At(s, "sampling")
    /\ left[s] = {}
    /\ EnterSelect(s)
    /\ UNCHANGED <<threadVars, nvml, stamp, left, buffers, tracked, clock>>

Tick(s) ==
    /\ At(s, "select")
    /\ loop' = [loop EXCEPT ![s] = "round"]
    /\ UNCHANGED <<threadVars, nvml, listens, stamp, left, buffers, tracked, clock>>

Quit(s) ==
    /\ At(s, "select")
    /\ listens[s] \in closedChs
    /\ loop' = [loop EXCEPT ![s] = "done"]
    /\ UNCHANGED <<threadVars, nvml, listens, stamp, left, buffers, tracked, clock>>

TimePasses ==
    /\ clock < MaxTime
    /\ clock' = clock + 1
    /\ UNCHANGED <<threadVars, nvml, loopVars, buffers, tracked>>

-------------------------------------------------------------------------------
StartStep(t) ==
    \/ StartCAS(t) \/ InitFails(t) \/ InitNvml(t) \/ DiscoverFails(t)
    \/ \E found \in SUBSET GPUs : Discover(t, found)
    \/ UndoInit(t) \/ StartFails(t) \/ Spawn(t)

StopStep(t) == StopCAS(t) \/ Close(t) \/ Wait(t) \/ ShutdownNvml(t)

Round(s) ==
    \/ \E present \in SUBSET GPUs : BeginRound(s, present)
    \/ RoundFails(s)
    \/ \E u \in GPUs : Capture(s, u) \/ CaptureFails(s, u)
    \/ EndRound(s)

Next ==
    \/ \E t \in Threads : StartStep(t) \/ StopStep(t)
    \/ \E s \in Starts : Round(s) \/ Tick(s) \/ Quit(s)
    \/ TimePasses

\* A call that was begun goes on and a round ends: every NVML call has a
\* deadline.  A select with a closed channel and a due tick picks either at
\* random, so a loop that is told to quit again and again does.
Fairness ==
    /\ \A t \in Threads : WF_vars(thread[t] # "idle" /\ (StartStep(t) \/ StopStep(t)))
    /\ \A s \in Starts : WF_vars(Round(s)) /\ SF_vars(Quit(s))

Spec == Init /\ [][Next]_vars

FairSpec == Spec /\ Fairness

-------------------------------------------------------------------------------
(* Properties *)

Quiet == \A t \in Threads : thread[t] = "idle"

Live == {s \in Starts : loop[s] \in Alive}

\* "IsRunning returns true if the recorder is actively sampling": while no
\* Start or Stop is under way, a running recorder has exactly one sampling
\* goroutine, which a Stop can reach, and an initialized NVML; one that is not
\* running has none, after a Stop and after a Start that failed half way.
RunningIsSampling ==
    Quiet =>
        IF running
        THEN Live = {stopCh} /\ stopCh \notin closedChs /\ nvml
        ELSE Live = {}

\* NVML is not shut down under a goroutine that is reading devices: Stop waits
\* for the sampling to end first, and a failing Start undoes only its own Init.
NoUseAfterShutdown == \A s \in Live : nvml

\* The items of every buffer are in the order of their timestamps, across
\* restarts and hotplug: what the scan of RingBuffer.Query relies on.
BuffersAreSorted ==
    \A u \in GPUs : \A i, j \in DOMAIN buffers[u] :
        i < j => buffers[u][i] <= buffers[u][j]

\* "Safe to call multiple times or if not started" (recorder.go:148): no call
\* of Stop closes a channel that is nil or closed.  When no Start is under way
\* this is so (RecorderInv of RecorderProofs has it); but running is set at
\* recorder.go:117 and stopCh is made at recorder.go:134, and a Stop in between
\* closes the channel of the previous start, or none (MayOverlap).
StopNeverPanics == ~panicked

\* Every Stop that begins to stop returns.
StopReturns == \A t \in Threads : thread[t] = "close" ~> thread[t] = "idle"
===============================================================================

------------------------------ MODULE DcgmEmbedded ------------------------------
(***************************************************************************)
(* The embedded DCGM engine (pkg/dcgm/embedded.go): Init starts an         *)
(* nv-hostengine process and a goroutine that watches it; Shutdown kills   *)
(* it.  The process may die at any time.                                   *)
(*                                                                         *)
(* Engines, their monitors and the stop channels are numbered in the order *)
(* in which Init makes them; 0 is nil.                                     *)
(***************************************************************************)
EXTENDS Integers, FiniteSetsExt

CONSTANTS Callers,     \* goroutines that call Init and Shutdown
          MaxStarts    \* bound on the engines

ASSUME EmbeddedAssumption == MaxStarts \in Nat

Starts == 1..MaxStarts

VARIABLES initialized,
          mu,          \* the callers that hold e.mu: at most one
          stopCh,      \* the current channel
          closed,      \* the channels that are closed
          hostengine,  \* the current engine
          alive,       \* the engines that run
          monitors,    \* [pc, on]: the monitors and the engine each waits for
          calls        \* what each caller is about to do

vars == <<initialized, mu, stopCh, closed, hostengine, alive, monitors, calls>>
engine == <<stopCh, closed, hostengine, alive, monitors>>

Init ==
    /\ initialized = FALSE
    /\ mu = {}
    /\ stopCh = 0 /\ closed = {}
    /\ hostengine = 0 /\ alive = {}
    /\ monitors = [m \in Starts |-> [pc |-> "none", on |-> 0]]
    /\ calls = [c \in Callers |-> "idle"]

At(c, pc) == calls[c] = pc
Continue(c, pc) == calls' = [calls EXCEPT ![c] = pc]

\* Only the calls of one kind overlap: the owner of the engine does not start
\* it while it shuts it down.
Only(pcs) == \A c \in Callers : calls[c] \in {"idle"} \cup pcs
Initialising == {"initialise", "ready", "available"}
ShuttingDown == {"cleanup", "wait"}
--------------------------------------------------------------------------------
\* A fault: the channel is made by the first Init only.
makeStopChOnce == IF stopCh = 0 THEN 1 ELSE stopCh

makeStopCh == stopCh + 1

Unstarted == {m \in Starts : monitors[m].pc = "none"}

\* Init takes the lock; it is done when there is an engine or no binary.
CallInit(c) ==
    /\ At(c, "idle") /\ Only(Initialising)
    /\ Continue(c, "initialise")
    /\ UNCHANGED <<initialized, mu, engine>>

InitStarts(c) ==
    /\ At(c, "initialise") /\ mu = {}
    /\ ~initialized /\ stopCh < MaxStarts
    /\ stopCh' = makeStopCh
    /\ \/ /\ Unstarted # {}
          /\ hostengine' = Min(Unstarted)
          /\ alive' = alive \cup {hostengine'}
          /\ monitors' = [monitors EXCEPT ![hostengine'].pc = "starting"]
          /\ mu' = {c}
          /\ Continue(c, "ready")
       \/ /\ hostengine' = 0                 \* Start failed
          /\ Continue(c, "idle")
          /\ UNCHANGED <<alive, monitors, mu>>
    /\ UNCHANGED <<initialized, closed>>

InitRefuses(c) ==
    /\ At(c, "initialise") /\ mu = {}
    /\ Continue(c, "idle")
    /\ UNCHANGED <<initialized, mu, engine>>

\* cleanup closes the channel, kills the engine and waits for its end.
cleanup ==
    /\ closed' = closed \cup {stopCh}
    /\ alive' = alive \ {hostengine}
    /\ UNCHANGED <<stopCh, hostengine, monitors>>

\* The placeholder client connects whether the engine is up or not; only the
\* context ends the wait.  cleanup does not wait for the monitor.
waitForReady(c) ==
    /\ At(c, "ready")
    /\ \/ Continue(c, "available") /\ UNCHANGED <<mu, engine>>
       \/ cleanup /\ mu' = {} /\ Continue(c, "idle")
    /\ UNCHANGED initialized

InitSucceeds(c) ==
    /\ At(c, "available")
    /\ initialized' = TRUE
    /\ mu' = {}
    /\ Continue(c, "idle")
    /\ UNCHANGED engine
--------------------------------------------------------------------------------
\* Shutdown claims the engine by compare-and-swap, before the lock.
Shutdown(c) ==
    /\ At(c, "idle") /\ Only(ShuttingDown)
    /\ initialized /\ initialized' = FALSE
    /\ Continue(c, "cleanup")
    /\ UNCHANGED <<mu, engine>>

ShutdownCleansUp(c) ==
    /\ At(c, "cleanup") /\ mu = {}
    /\ mu' = {c}
    /\ cleanup
    /\ Continue(c, "wait")
    /\ UNCHANGED initialized

\* wg.Wait, with the lock held: for the monitors of all the engines.
ShutdownWaits(c) ==
    /\ At(c, "wait")
    /\ \A m \in Starts : monitors[m].pc \in {"none", "done"}
    /\ mu' = {}
    /\ Continue(c, "idle")
    /\ UNCHANGED <<initialized, engine>>
--------------------------------------------------------------------------------
\* A monitor reads e.hostengine without the lock when it is scheduled, so it
\* may wait for a later engine.
monitorHostengine(m) ==
    /\ monitors[m].pc = "starting"
    /\ monitors' = [monitors EXCEPT ![m] =
         [pc |-> IF hostengine = 0 THEN "done" ELSE "waiting", on |-> hostengine]]
    /\ UNCHANGED <<initialized, mu, stopCh, closed, hostengine, alive, calls>>

\* The channel it looks at is the current one too.
Exited(m) ==
    /\ monitors[m].pc = "waiting" /\ monitors[m].on \notin alive
    /\ monitors' = [monitors EXCEPT ![m] = [pc |-> "done", on |-> 0]]
    /\ initialized' = (initialized /\ stopCh \in closed)
    /\ UNCHANGED <<mu, stopCh, closed, hostengine, alive, calls>>

Crash(h) ==
    /\ h \in alive
    /\ alive' = alive \ {h}
    /\ UNCHANGED <<initialized, mu, stopCh, closed, hostengine, monitors, calls>>

Next ==
    \/ \E c \in Callers :
          \/ CallInit(c) \/ InitStarts(c) \/ InitRefuses(c)
          \/ waitForReady(c) \/ InitSucceeds(c)
          \/ Shutdown(c) \/ ShutdownCleansUp(c) \/ ShutdownWaits(c)
    \/ \E m \in Starts : monitorHostengine(m) \/ Exited(m)
    \/ \E h \in Starts : Crash(h)

\* Goroutines are scheduled; nothing is assumed of the callers or the engine.
Fairness == \A m \in Starts : WF_vars(monitorHostengine(m)) /\ WF_vars(Exited(m))

Spec == Init /\ [][Next]_vars /\ Fairness
--------------------------------------------------------------------------------
(***************************************************************************)
(* The engine does not stay available once it is dead, as long as some     *)
(* monitor still has to see it: neither the channel of an earlier start    *)
(* nor the lock in Init hides the crash (embedded.go:163).                 *)
(***************************************************************************)
Watched ==
    \E m \in Starts : \/ monitors[m].pc = "starting"
                      \/ monitors[m].pc = "waiting" /\ monitors[m].on = hostengine
CrashIsNoticed == (initialized /\ hostengine \notin alive /\ Watched) ~> ~initialized
================================================================================

----------------------------- MODULE ProcessMapper -----------------------------
(***************************************************************************)
(* The process mapper (pkg/events/process_mapper.go): from the PID of a    *)
(* GPU process to its pod, with a cache of PIDs and a cache of containers. *)
(* Several goroutines look up PIDs and refresh the second cache while      *)
(* processes die and their PIDs are used again.                            *)
(*                                                                         *)
(* A container stands for the information about its pod.                   *)
(***************************************************************************)
EXTENDS Integers, FiniteSets

CONSTANTS Callers,     \* goroutines that call the mapper
          Pids,
          Containers,
          staleTTL,
          maxCache,
          MaxTime      \* bound on the clock

Dead == "dead"         \* no such process
Host == "host"         \* a process outside every container
Nil == "nil"           \* no pod
Error == "error"

ASSUME MapperAssumption ==
    /\ staleTTL \in Nat \ {0} /\ maxCache \in Nat \ {0} /\ MaxTime \in Nat
    /\ {Nil, Dead, Host, Error} \cap (Pids \cup Containers) = {}

None == [info |-> Nil, at |-> 0]    \* not cached

VARIABLES cache,       \* PID -> [info, at]
          podCache,    \* the containers that are mapped to pods
          calls,       \* what each goroutine is about to do, and its locals
          answer,      \* what GetPodForPID returned in the last step, if it did
          proc,        \* /proc: what runs with a PID, and since when
          clock

vars == <<cache, podCache, calls, answer, proc, clock>>

\* pid is Nil in a refresh that no lookup asked for.
Call(pc, pid, asked, stale) ==
    [pc |-> pc, pid |-> pid, asked |-> asked, stale |-> stale,
     container |-> Nil, pods |-> {}]
Idle == Call("idle", Nil, 0, Nil)
NoAnswer == [pid |-> Nil, asked |-> 0, info |-> Nil, failed |-> FALSE]
NoCache == [p \in {} |-> None]

Init ==
    /\ cache = NoCache
    /\ podCache = {}
    /\ calls = [c \in Callers |-> Idle]
    /\ answer = NoAnswer
    /\ proc = [p \in Pids |-> [runs |-> Dead, since |-> 0]]
    /\ clock = 0

At(c, pc) == calls[c].pc = pc
Continue(c, pc) ==
    calls' = [calls EXCEPT ![c].pc = pc] /\ answer' = NoAnswer
Answer(c, info, failed) ==
    /\ calls' = [calls EXCEPT ![c] = Idle]
    /\ answer' = [pid |-> calls[c].pid, asked |-> calls[c].asked,
                  info |-> info, failed |-> failed]

\* A read or a request failed: the caller gets its cached pod, however old.
AnswerStale(c) ==
    Answer(c, IF calls[c].stale # Nil THEN calls[c].stale ELSE Error, TRUE)

Valid(cached, now) == cached.info # Nil /\ now - cached.at < staleTTL
--------------------------------------------------------------------------------
\* GetPodForPID reads the cache before the clock; an entry that is valid by
\* then is the answer.
GetPodForPID(c, pid) ==
    LET cached == IF pid \in DOMAIN cache THEN cache[pid] ELSE None
    IN  /\ At(c, "idle")
        /\ \/ /\ Valid(cached, clock)
              /\ answer' = [pid |-> pid, asked |-> clock, info |-> cached.info,
                            failed |-> FALSE]
              /\ UNCHANGED calls
           \/ /\ ~Valid(cached, clock)
              /\ calls' = [calls EXCEPT ![c] = Call("cgroup", pid, clock, cached.info)]
              /\ answer' = NoAnswer
        /\ UNCHANGED <<cache, podCache, proc, clock>>

\* A dead process, whose /proc directory is gone, is known by its last answer,
\* however old.  So is one whose cgroup file cannot be opened or read to its end,
\* whether it lives or not (no permission, no descriptor left, an I/O error, a
\* process that ends between the two).
parseCgroup(c) ==
    LET runs == proc[calls[c].pid].runs
    IN  /\ At(c, "cgroup")
        /\ \/ AnswerStale(c)
           \/ runs = Dead /\ Answer(c, calls[c].stale, FALSE)
           \/ runs = Host /\ Answer(c, Nil, FALSE)
           \/ /\ runs \in Containers
              /\ answer' = NoAnswer
              /\ calls' = [calls EXCEPT ![c].pc = "lookup", ![c].container = runs]
        /\ UNCHANGED <<cache, podCache, proc, clock>>

lookupPodByContainerID(c) ==
    /\ At(c, "lookup")
    /\ Continue(c, IF calls[c].container \in podCache THEN "store" ELSE "list")
    /\ UNCHANGED <<cache, podCache, proc, clock>>

\* RefreshPodCache of a lookup asks the API server without a lock; the server
\* knows some of the containers.
List(c) ==
    /\ At(c, "list")
    /\ \/ /\ \E pods \in SUBSET Containers :
                calls' = [calls EXCEPT ![c].pc = "swap", ![c].pods = pods]
          /\ answer' = NoAnswer
       \/ AnswerStale(c)
    /\ UNCHANGED <<cache, podCache, proc, clock>>

\* The cache is replaced by what was listed, even if a newer list is in it.
Swap(c) ==
    /\ At(c, "swap")
    /\ podCache' = calls[c].pods
    /\ calls' = [calls EXCEPT ![c] =
         IF @.pid # Nil THEN [@ EXCEPT !.pc = "retry", !.pods = {}] ELSE Idle]
    /\ answer' = NoAnswer
    /\ UNCHANGED <<cache, proc, clock>>

Retry(c) ==
    /\ At(c, "retry")
    /\ IF calls[c].container \in podCache THEN Continue(c, "store") ELSE Answer(c, Nil, FALSE)
    /\ UNCHANGED <<cache, podCache, proc, clock>>

\* RefreshPodCache called for itself, as from a ticker.
RefreshPodCache(c) ==
    /\ At(c, "idle")
    /\ \E pods \in SUBSET Containers :
          calls' = [calls EXCEPT ![c].pc = "swap", ![c].pods = pods]
    /\ answer' = NoAnswer
    /\ UNCHANGED <<cache, podCache, proc, clock>>

\* A fault: a tenth of a small cache is nothing.
toEvictTenth(n) == n \div 10

toEvict(n) == IF n < 10 THEN 1 ELSE n \div 10

\* What may be left: the order of entries of the same age is not defined.
evictOldest(entries) ==
    LET size == Cardinality(DOMAIN entries)
        Oldest(old) ==
            /\ Cardinality(old) = toEvict(size)
            /\ \A o \in old, p \in DOMAIN entries \ old : entries[o].at <= entries[p].at
    IN  {[p \in DOMAIN entries \ old |-> entries[p]] :
            old \in {o \in SUBSET DOMAIN entries : Oldest(o)}}

\* A fault: an entry is as old as its answer.
CachedAtStore(c) == clock

\* An entry is as old as its question.
CachedAt(c) == calls[c].asked

Store(c) ==
    LET entry == [info |-> calls[c].container, at |-> CachedAt(c)]
        entries == [p \in DOMAIN cache \cup {calls[c].pid} |->
                      IF p = calls[c].pid THEN entry ELSE cache[p]]
    IN  /\ At(c, "store")
        /\ IF Cardinality(DOMAIN entries) > maxCache
           THEN cache' \in evictOldest(entries) ELSE cache' = entries
        /\ Answer(c, calls[c].container, FALSE)
        /\ UNCHANGED <<podCache, proc, clock>>

ClearCache ==
    /\ cache # NoCache
    /\ cache' = NoCache
    /\ answer' = NoAnswer
    /\ UNCHANGED <<podCache, calls, proc, clock>>
--------------------------------------------------------------------------------
\* A process starts or ends; the PIDs are few, so they are used again.
Change(pid, runs) ==
    /\ (proc[pid].runs = Dead) # (runs = Dead)
    /\ proc' = [proc EXCEPT ![pid] =
        [runs |-> runs, since |-> IF runs = Dead THEN 0 ELSE clock]]
    /\ answer' = NoAnswer
    /\ UNCHANGED <<cache, podCache, calls, clock>>

Tick ==
    /\ clock < MaxTime
    /\ clock' = clock + 1
    /\ answer' = NoAnswer
    /\ UNCHANGED <<cache, podCache, calls, proc>>

Next ==
    \/ \E c \in Callers :
          \/ \E pid \in Pids : GetPodForPID(c, pid)
          \/ parseCgroup(c) \/ lookupPodByContainerID(c)
          \/ List(c) \/ Swap(c) \/ Retry(c) \/ Store(c)
          \/ RefreshPodCache(c)
    \/ ClearCache
    \/ \E pid \in Pids, runs \in Containers \cup {Host, Dead} : Change(pid, runs)
    \/ Tick

Spec == Init /\ [][Next]_vars
--------------------------------------------------------------------------------
(***************************************************************************)
(* The cache of PIDs never outgrows its bound, whatever calls insert       *)
(* beside each other (process_mapper.go:230).                              *)
(***************************************************************************)
CacheIsBounded ==
    /\ IsFiniteSet(DOMAIN cache) /\ Cardinality(DOMAIN cache) <= maxCache
    /\ DOMAIN cache \subseteq Pids
    /\ \A p \in DOMAIN cache : cache[p].info \in Containers /\ cache[p].at \in 0..clock

(***************************************************************************)
(* A process that has run for at least the TTL when it is asked about is   *)
(* never taken for the one that had its PID before, unless its cgroup file *)
(* could not be read or the API server failed (process_mapper.go:188 and   *)
(* :205 then return the expired entry): neither a cached answer nor one    *)
(* that is being computed lives longer (process_mapper.go:181).            *)
(***************************************************************************)
MapsTheLivingProcess ==
    answer # NoAnswer /\ ~answer.failed =>
        LET now == proc[answer.pid]
        IN  now.runs # Dead /\ now.since + staleTTL <= answer.asked
                => answer.info \in {now.runs, Nil}
================================================================================

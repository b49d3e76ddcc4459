-------------------------- MODULE ProcessMapperProofs --------------------------
(***************************************************************************)
(* Theorems about ProcessMapper, for any number of callers, PIDs and       *)
(* containers, any TTL and any bound of the cache.                         *)
(***************************************************************************)
EXTENDS ProcessMapper, FiniteSetTheorems, TLAPS

\* Only a process that came later than `at` may contradict the information.
Fresh(p, info, at) == proc[p].runs \in {Dead, info} \/ proc[p].since >= at

Knows(call) ==
    \/ call.pc \in {"lookup", "list", "retry", "store"}
    \/ call.pc = "swap" /\ call.pid # Nil

CallRecords ==
    [pc : {"idle", "cgroup", "lookup", "list", "swap", "retry", "store"},
     pid : Pids \cup {Nil}, asked : Nat, stale : Containers \cup {Nil},
     container : Containers \cup {Nil}, pods : SUBSET Containers]

CallOk(call) ==
    /\ call \in CallRecords
    /\ call.asked <= clock
    /\ call.pc = "idle" => call.pid = Nil
    /\ call.pc = "cgroup" \/ Knows(call) => call.pid \in Pids
    /\ Knows(call) => call.container \in Containers
                      /\ Fresh(call.pid, call.container, call.asked)

CallsOk == calls \in [Callers -> CallRecords] /\ \A c \in Callers : CallOk(calls[c])

ProcOk ==
    /\ clock \in Nat
    /\ proc \in [Pids -> [runs : Containers \cup {Host, Dead}, since : Nat]]
    /\ \A p \in Pids : proc[p].since <= clock

CacheOk == \A p \in DOMAIN cache : Fresh(p, cache[p].info, cache[p].at)

\* The strengthening: what every cached and every half-computed answer may claim.
MapperInv == CallsOk /\ ProcOk /\ CacheIsBounded /\ CacheOk
--------------------------------------------------------------------------------
LEMMA IdleOk == ProcOk => CallOk(Idle)
  BY DEF ProcOk, CallOk, CallRecords, Idle, Call, Knows

LEMMA FreshKept ==
    ASSUME NEW p, NEW info, NEW at, Fresh(p, info, at), UNCHANGED proc
    PROVE  Fresh(p, info, at)'
  BY DEF Fresh

(* What one goroutine's step leaves of the others. *)
LEMMA OneCallMoves ==
    ASSUME MapperInv, NEW c \in Callers, NEW call,
           calls' = [calls EXCEPT ![c] = call], CallOk(call), UNCHANGED <<proc, clock>>
    PROVE  CallsOk' /\ ProcOk'
<1>1. calls'[c] = call /\ \A d \in Callers \ {c} : calls'[d] = calls[d]
  BY DEF MapperInv, CallsOk
<1>2. \A d \in Callers : CallOk(calls'[d])
  BY <1>1 DEF MapperInv, CallsOk
<1>3. \A d \in Callers : CallOk(calls[d])'
  BY <1>2 DEF CallOk, CallRecords, Fresh, Knows
<1> QED
  BY <1>1, <1>3 DEF MapperInv, CallsOk, ProcOk, CallOk

(* The same for a step that leaves the cache alone. *)
LEMMA OnlyACallMoves ==
    ASSUME MapperInv, NEW c \in Callers, NEW call,
           calls' = [calls EXCEPT ![c] = call], CallOk(call), UNCHANGED <<proc, clock, cache>>
    PROVE  MapperInv'
<1>1. CallsOk' /\ ProcOk'
  BY OneCallMoves
<1>2. CacheIsBounded' /\ CacheOk'
  BY DEF MapperInv, CacheIsBounded, CacheOk, Fresh
<1> QED
  BY <1>1, <1>2 DEF MapperInv
--------------------------------------------------------------------------------
LEMMA AnswerKeeps ==
    ASSUME MapperInv, NEW c \in Callers, NEW info, NEW failed, Answer(c, info, failed),
           UNCHANGED <<proc, clock, cache>>
    PROVE  MapperInv'
<1>1. CallOk(Idle)
  BY IdleOk DEF MapperInv
<1> QED
  BY <1>1, OnlyACallMoves DEF Answer

LEMMA GetPodForPIDKeeps ==
    ASSUME MapperInv, NEW c \in Callers, NEW pid \in Pids, GetPodForPID(c, pid)
    PROVE  MapperInv'
<1> DEFINE cached == IF pid \in DOMAIN cache THEN cache[pid] ELSE None
           call == Call("cgroup", pid, clock, cached.info)
<1>1. cached.info \in Containers \cup {Nil}
  BY DEF None, MapperInv, CacheIsBounded
<1>2. CallOk(call)
  BY <1>1 DEF CallOk, CallRecords, Call, Knows, MapperInv, ProcOk
<1>3. UNCHANGED <<proc, clock, cache>>
  BY DEF GetPodForPID
<1>4. CASE Valid(cached, clock)
  <2>1. UNCHANGED calls
    BY <1>4 DEF GetPodForPID
  <2> QED
    BY <1>3, <2>1
    DEF MapperInv, CallsOk, CallOk, ProcOk, CacheIsBounded, CacheOk, Fresh, Knows
<1>5. CASE ~Valid(cached, clock)
  <2>1. calls' = [calls EXCEPT ![c] = call]
    BY <1>5 DEF GetPodForPID
  <2> QED
    BY <1>2, <1>3, <2>1, OnlyACallMoves
<1> QED
  BY <1>4, <1>5

LEMMA ParseCgroupKeeps ==
    ASSUME MapperInv, NEW c \in Callers, parseCgroup(c)
    PROVE  MapperInv'
<1> DEFINE runs == proc[calls[c].pid].runs
<1>1. UNCHANGED <<proc, clock, cache>>
  BY DEF parseCgroup
<1>2. ASSUME NEW info, NEW failed, Answer(c, info, failed) PROVE MapperInv'
  BY <1>1, <1>2, AnswerKeeps
<1>3. CASE runs \in Containers
           /\ calls' = [calls EXCEPT ![c].pc = "lookup", ![c].container = runs]
  <2> DEFINE call == [calls[c] EXCEPT !.pc = "lookup", !.container = runs]
  <2>1. calls' = [calls EXCEPT ![c] = call]
    BY <1>3 DEF MapperInv, CallsOk
  <2>2. calls[c] \in CallRecords /\ CallOk(calls[c]) /\ calls[c].pc = "cgroup"
    BY DEF MapperInv, CallsOk, parseCgroup, At
  <2>3. CallOk(call)
    BY <1>3, <2>2 DEF CallOk, CallRecords, Knows, Fresh
  <2> QED
    BY <1>1, <2>1, <2>3, OnlyACallMoves
<1> QED
  BY <1>2, <1>3 DEF parseCgroup, AnswerStale

(* The steps that move a call on and keep what it knows. *)
LEMMA LookupKeeps ==
    ASSUME MapperInv, NEW c \in Callers,
           lookupPodByContainerID(c) \/ List(c) \/ Swap(c) \/ Retry(c) \/ RefreshPodCache(c)
    PROVE  MapperInv'
<1>1. UNCHANGED <<proc, clock, cache>>
  BY DEF lookupPodByContainerID, List, Swap, Retry, RefreshPodCache
<1>2. calls[c] \in CallRecords /\ CallOk(calls[c])
  BY DEF MapperInv, CallsOk
<1>3. ASSUME NEW pc \in {"lookup", "list", "swap", "retry", "store"},
             calls' = [calls EXCEPT ![c].pc = pc], Knows(calls[c])
      PROVE  MapperInv'
  <2> DEFINE call == [calls[c] EXCEPT !.pc = pc]
  <2>1. calls' = [calls EXCEPT ![c] = call]
    BY <1>3 DEF MapperInv, CallsOk
  <2>2. CallOk(call)
    BY <1>2, <1>3 DEF CallOk, CallRecords, Knows, Fresh
  <2> QED
    BY <1>1, <2>1, <2>2, OnlyACallMoves
<1>4. ASSUME NEW pods \in SUBSET Containers,
             calls' = [calls EXCEPT ![c].pc = "swap", ![c].pods = pods],
             Knows(calls[c]) \/ calls[c].pc = "idle"
      PROVE  MapperInv'
  <2> DEFINE call == [calls[c] EXCEPT !.pc = "swap", !.pods = pods]
  <2>1. calls' = [calls EXCEPT ![c] = call]
    BY <1>4 DEF MapperInv, CallsOk
  <2>2. CallOk(call)
    BY <1>2, <1>4 DEF CallOk, CallRecords, Knows, Fresh
  <2> QED
    BY <1>1, <2>1, <2>2, OnlyACallMoves
<1>5. CASE lookupPodByContainerID(c)
  <2>1. Knows(calls[c])
    BY <1>5 DEF lookupPodByContainerID, At, Knows
  <2>2. PICK pc \in {"store", "list"} : calls' = [calls EXCEPT ![c].pc = pc]
    BY <1>5 DEF lookupPodByContainerID, Continue
  <2> QED
    BY <1>3, <2>1, <2>2
<1>6. CASE List(c)
  <2>1. Knows(calls[c])
    BY <1>6 DEF List, At, Knows
  <2>2. ASSUME NEW pods \in SUBSET Containers,
               calls' = [calls EXCEPT ![c].pc = "swap", ![c].pods = pods]
        PROVE  MapperInv'
    BY <1>4, <2>1, <2>2
  <2>3. ASSUME NEW info, NEW failed, Answer(c, info, failed) PROVE MapperInv'
    BY <1>1, <2>3, AnswerKeeps
  <2> QED
    BY <1>6, <2>2, <2>3 DEF List, AnswerStale
<1>7. CASE Swap(c)
  <2>1. CASE calls[c].pid # Nil
    <3>1. Knows(calls[c])
      BY <1>7, <2>1 DEF Swap, At, Knows
    <3> DEFINE call == [calls[c] EXCEPT !.pc = "retry", !.pods = {}]
    <3>2. calls' = [calls EXCEPT ![c] = call]
      BY <1>7, <2>1 DEF Swap, MapperInv, CallsOk
    <3>3. CallOk(call)
      BY <1>2, <3>1 DEF CallOk, CallRecords, Knows, Fresh
    <3> QED
      BY <1>1, <3>2, <3>3, OnlyACallMoves
  <2>2. CASE calls[c].pid = Nil
    <3>1. calls' = [calls EXCEPT ![c] = Idle]
      BY <1>7, <2>2 DEF Swap, MapperInv, CallsOk
    <3> QED
      BY <1>1, <3>1, IdleOk, OnlyACallMoves DEF MapperInv
  <2> QED
    BY <2>1, <2>2
<1>8. CASE Retry(c)
  <2>1. Knows(calls[c])
    BY <1>8 DEF Retry, At, Knows
  <2>2. CASE Continue(c, "store")
    BY <1>3, <2>1, <2>2 DEF Continue
  <2>3. CASE Answer(c, Nil, FALSE)
    BY <1>1, <2>3, AnswerKeeps
  <2> QED
    BY <1>8, <2>2, <2>3 DEF Retry
<1>9. CASE RefreshPodCache(c)
  <2>1. PICK pods \in SUBSET Containers :
           calls' = [calls EXCEPT ![c].pc = "swap", ![c].pods = pods]
    BY <1>9 DEF RefreshPodCache
  <2>2. calls[c].pc = "idle"
    BY <1>9 DEF RefreshPodCache, At
  <2> QED
    BY <1>4, <2>1, <2>2
<1> QED
  BY <1>5, <1>6, <1>7, <1>8, <1>9
--------------------------------------------------------------------------------
(* What an eviction leaves: fewer entries, each as it was. *)
LEMMA EvictionShrinks ==
    ASSUME NEW entries, IsFiniteSet(DOMAIN entries), NEW left \in evictOldest(entries)
    PROVE  /\ DOMAIN left \subseteq DOMAIN entries
           /\ \A p \in DOMAIN left : left[p] = entries[p]
           /\ IsFiniteSet(DOMAIN left)
           /\ Cardinality(DOMAIN left) < Cardinality(DOMAIN entries)
<1> DEFINE size == Cardinality(DOMAIN entries)
<1>1. PICK old \in SUBSET DOMAIN entries :
         /\ Cardinality(old) = toEvict(size)
         /\ left = [p \in DOMAIN entries \ old |-> entries[p]]
  BY DEF evictOldest
<1>2. size \in Nat
  BY FS_CardinalityType
<1>3. toEvict(size) >= 1 /\ toEvict(size) \in Nat
  BY <1>2 DEF toEvict
<1>4. DOMAIN left = DOMAIN entries \ old /\ DOMAIN entries \cap old = old
  BY <1>1
<1>5. IsFiniteSet(DOMAIN left) /\ Cardinality(DOMAIN left) = size - Cardinality(old)
  BY <1>4, FS_Difference
<1> QED
  BY <1>1, <1>2, <1>3, <1>4, <1>5

LEMMA StoreKeeps ==
    ASSUME MapperInv, NEW c \in Callers, Store(c)
    PROVE  MapperInv'
<1> DEFINE pid == calls[c].pid
           entry == [info |-> calls[c].container, at |-> CachedAt(c)]
           entries == [p \in DOMAIN cache \cup {pid} |-> IF p = pid THEN entry ELSE cache[p]]
<1>1. UNCHANGED <<proc, clock>> /\ Answer(c, calls[c].container, FALSE)
  BY DEF Store
<1>2. CallOk(calls[c]) /\ Knows(calls[c])
  BY DEF MapperInv, CallsOk, Store, At, Knows
<1>3. /\ pid \in Pids /\ entry.info \in Containers /\ entry.at \in 0..clock
      /\ Fresh(pid, entry.info, entry.at)
  BY <1>2 DEF CallOk, CallRecords, CachedAt, MapperInv, ProcOk
<1>4. IsFiniteSet(DOMAIN cache) /\ Cardinality(DOMAIN cache) <= maxCache
  BY DEF MapperInv, CacheIsBounded
<1>5. DOMAIN entries = DOMAIN cache \cup {pid}
  OBVIOUS
<1>6. /\ IsFiniteSet(DOMAIN entries)
      /\ Cardinality(DOMAIN entries) \in Nat /\ Cardinality(DOMAIN cache) \in Nat
      /\ Cardinality(DOMAIN entries) <= Cardinality(DOMAIN cache) + 1
  <2>1. /\ IsFiniteSet(DOMAIN cache \cup {pid})
        /\ Cardinality(DOMAIN cache \cup {pid}) =
             IF pid \in DOMAIN cache THEN Cardinality(DOMAIN cache)
             ELSE Cardinality(DOMAIN cache) + 1
    BY <1>4, FS_AddElement
  <2>2. Cardinality(DOMAIN cache) \in Nat
    BY <1>4, FS_CardinalityType
  <2> HIDE DEF entries
  <2> QED
    BY <1>5, <2>1, <2>2
<1>7. /\ DOMAIN entries \subseteq Pids
      /\ \A p \in DOMAIN entries : /\ entries[p].info \in Containers
                                   /\ entries[p].at \in 0..clock
                                   /\ Fresh(p, entries[p].info, entries[p].at)
  BY <1>3 DEF MapperInv, CacheIsBounded, CacheOk
<1>8. /\ DOMAIN cache' \subseteq DOMAIN entries
      /\ \A p \in DOMAIN cache' : cache'[p] = entries[p]
      /\ IsFiniteSet(DOMAIN cache') /\ Cardinality(DOMAIN cache') <= maxCache
  <2>1. CASE Cardinality(DOMAIN entries) > maxCache
    <3>1. cache' \in evictOldest(entries)
      BY <2>1 DEF Store
    <3>2. /\ DOMAIN cache' \subseteq DOMAIN entries
          /\ \A p \in DOMAIN cache' : cache'[p] = entries[p]
          /\ IsFiniteSet(DOMAIN cache')
          /\ Cardinality(DOMAIN cache') < Cardinality(DOMAIN entries)
      BY <1>6, <3>1, EvictionShrinks
    <3>3. Cardinality(DOMAIN cache') \in Nat
      BY <3>2, FS_CardinalityType
    <3> QED
      BY <1>4, <1>6, <3>2, <3>3, MapperAssumption
  <2>2. CASE ~(Cardinality(DOMAIN entries) > maxCache)
    <3>1. cache' = entries
      BY <2>2 DEF Store
    <3> QED
      BY <1>6, <2>2, <3>1, MapperAssumption
  <2> QED
    BY <2>1, <2>2
<1>9. CacheIsBounded' /\ CacheOk'
  BY <1>1, <1>7, <1>8 DEF CacheIsBounded, CacheOk, Fresh
<1>10. CallsOk' /\ ProcOk'
  BY <1>1, IdleOk, OneCallMoves DEF Answer, MapperInv
<1> QED
  BY <1>9, <1>10 DEF MapperInv
--------------------------------------------------------------------------------
LEMMA ChangeKeeps ==
    ASSUME MapperInv, NEW pid \in Pids, NEW runs \in Containers \cup {Host, Dead},
           Change(pid, runs)
    PROVE  MapperInv'
<1>1. ProcOk'
  BY DEF Change, MapperInv, ProcOk
<1>2. UNCHANGED <<cache, calls, clock>>
  BY DEF Change
<1>3. ASSUME NEW p \in Pids, NEW info, NEW at \in Nat, at <= clock, Fresh(p, info, at)
      PROVE  Fresh(p, info, at)'
  BY <1>3 DEF Change, Fresh, MapperInv, ProcOk
<1>4. CacheIsBounded' /\ CacheOk'
  BY <1>2, <1>3 DEF MapperInv, CacheIsBounded, CacheOk
<1>5. \A c \in Callers : CallOk(calls[c])'
  BY <1>2, <1>3 DEF MapperInv, CallsOk, CallOk, CallRecords, Knows
<1> QED
  BY <1>1, <1>2, <1>4, <1>5 DEF MapperInv, CallsOk

LEMMA OthersKeep ==
    ASSUME MapperInv, ClearCache \/ Tick \/ UNCHANGED vars
    PROVE  MapperInv'
<1>1. CASE ClearCache
  <2>1. UNCHANGED <<calls, proc, clock>> /\ DOMAIN cache' = {}
    BY <1>1 DEF ClearCache, NoCache
  <2>2. CacheIsBounded' /\ CacheOk'
    BY <2>1, FS_EmptySet, MapperAssumption DEF CacheIsBounded, CacheOk
  <2> QED
    BY <2>1, <2>2 DEF MapperInv, CallsOk, CallOk, Knows, ProcOk, Fresh
<1>2. CASE Tick
  <2>1. UNCHANGED <<cache, calls, proc>> /\ clock' = clock + 1 /\ clock \in Nat
    BY <1>2 DEF Tick, MapperInv, ProcOk
  <2>2. CacheIsBounded' /\ CacheOk' /\ ProcOk'
    BY <2>1 DEF MapperInv, CacheIsBounded, CacheOk, ProcOk, Fresh
  <2>3. CallsOk'
    BY <2>1 DEF MapperInv, CallsOk, CallOk, CallRecords, Knows, Fresh
  <2> QED
    BY <2>2, <2>3 DEF MapperInv
<1>3. CASE UNCHANGED vars
  BY <1>3 DEF vars, MapperInv, CallsOk, CallOk, ProcOk, CacheIsBounded, CacheOk, Fresh, Knows
<1> QED
  BY <1>1, <1>2, <1>3

LEMMA InvInit == Init => MapperInv
<1> SUFFICES ASSUME Init PROVE MapperInv
  OBVIOUS
<1>1. ProcOk
  BY DEF Init, ProcOk
<1>2. CallsOk
  BY <1>1, IdleOk DEF Init, CallsOk, CallOk
<1>3. CacheIsBounded /\ CacheOk
  BY FS_EmptySet, MapperAssumption DEF Init, NoCache, CacheIsBounded, CacheOk
<1> QED
  BY <1>1, <1>2, <1>3 DEF MapperInv

LEMMA InvKept == MapperInv /\ [Next]_vars => MapperInv'
  BY GetPodForPIDKeeps, ParseCgroupKeeps, LookupKeeps, StoreKeeps, ChangeKeeps, OthersKeep
  DEF Next

(***************************************************************************)
(* GetPodForPID inserts and evicts under one lock: the cache stays within  *)
(* its bound and holds only pods that were found (process_mapper.go:224).  *)
(***************************************************************************)
THEOREM CacheBounded == Spec => []CacheIsBounded
<1>1. MapperInv => CacheIsBounded
  BY DEF MapperInv
<1> QED
  BY InvInit, InvKept, <1>1, PTL DEF Spec
--------------------------------------------------------------------------------
(* The two ways a lookup may answer. *)
LEMMA AnswerIsRight ==
    ASSUME MapperInv, NEW c \in Callers, NEW info, NEW failed, Answer(c, info, failed),
           UNCHANGED proc, calls[c].pid \in Pids,
           failed \/ info = Nil \/ Fresh(calls[c].pid, info, calls[c].asked)
    PROVE  MapsTheLivingProcess'
<1> DEFINE now == proc[calls[c].pid]
<1>1. /\ answer'.pid = calls[c].pid /\ answer'.asked = calls[c].asked
      /\ answer'.info = info /\ answer'.failed = failed
  BY DEF Answer
<1>2. calls[c].asked \in Nat /\ now.since \in Nat
  BY DEF MapperInv, CallsOk, CallRecords, ProcOk
<1>3. CASE failed
  BY <1>1, <1>3 DEF MapsTheLivingProcess
<1>4. CASE info = Nil \/ Fresh(calls[c].pid, info, calls[c].asked)
  <2>1. now.runs # Dead /\ now.since + staleTTL <= calls[c].asked => info \in {now.runs, Nil}
    BY <1>2, <1>4, MapperAssumption DEF Fresh
  <2> QED
    BY <1>1, <2>1 DEF MapsTheLivingProcess
<1> QED
  BY <1>3, <1>4

LEMMA CachedIsRight ==
    ASSUME MapperInv, NEW c \in Callers, NEW pid \in Pids, GetPodForPID(c, pid)
    PROVE  MapsTheLivingProcess'
<1> DEFINE cached == IF pid \in DOMAIN cache THEN cache[pid] ELSE None
<1>1. CASE Valid(cached, clock)
  <2>1. /\ answer' = [pid |-> pid, asked |-> clock, info |-> cached.info, failed |-> FALSE]
        /\ proc' = proc
    BY <1>1 DEF GetPodForPID
  <2>2. pid \in DOMAIN cache /\ clock - cached.at < staleTTL
    BY <1>1 DEF Valid, None
  <2>3. /\ cached.at \in Nat /\ clock \in Nat /\ proc[pid].since \in Nat
        /\ Fresh(pid, cached.info, cached.at)
    BY <2>2 DEF MapperInv, CacheIsBounded, CacheOk, ProcOk
  <2>4. proc[pid].runs # Dead /\ proc[pid].since + staleTTL <= clock
          => cached.info = proc[pid].runs
    BY <2>2, <2>3, MapperAssumption DEF Fresh
  <2> QED
    BY <2>1, <2>4 DEF MapsTheLivingProcess
<1>2. CASE ~Valid(cached, clock)
  BY <1>2 DEF GetPodForPID, MapsTheLivingProcess
<1> QED
  BY <1>1, <1>2

LEMMA LookupIsRight ==
    ASSUME MapperInv, NEW c \in Callers,
           \/ parseCgroup(c) \/ lookupPodByContainerID(c) \/ List(c) \/ Swap(c)
           \/ Retry(c) \/ Store(c) \/ RefreshPodCache(c)
    PROVE  MapsTheLivingProcess'
<1>1. CallOk(calls[c])
  BY DEF MapperInv, CallsOk
<1>2. ASSUME answer' = NoAnswer PROVE MapsTheLivingProcess'
  BY <1>2 DEF MapsTheLivingProcess
<1>3. CASE parseCgroup(c)
  <2>1. calls[c].pid \in Pids
    BY <1>1, <1>3 DEF CallOk, parseCgroup, At
  <2>2. UNCHANGED proc
    BY <1>3 DEF parseCgroup
  <2>3. \/ answer' = NoAnswer
        \/ \E info, failed : /\ Answer(c, info, failed)
                             /\ failed \/ info = Nil \/ proc[calls[c].pid].runs = Dead
    BY <1>3 DEF parseCgroup, AnswerStale
  <2> QED
    BY <1>2, <2>1, <2>2, <2>3, AnswerIsRight DEF Fresh
<1>4. CASE List(c) \/ Retry(c)
  <2>1. calls[c].pid \in Pids
    BY <1>1, <1>4 DEF CallOk, Knows, List, Retry, At
  <2>2. UNCHANGED proc
    BY <1>4 DEF List, Retry
  <2>3. \/ answer' = NoAnswer
        \/ \E info, failed : Answer(c, info, failed) /\ (failed \/ info = Nil)
    BY <1>4 DEF List, Retry, Continue, AnswerStale
  <2> QED
    BY <1>2, <2>1, <2>2, <2>3, AnswerIsRight
<1>5. CASE Store(c)
  <2>1. /\ calls[c].pid \in Pids
        /\ Fresh(calls[c].pid, calls[c].container, calls[c].asked)
    BY <1>1, <1>5 DEF CallOk, Knows, Store, At
  <2>2. UNCHANGED proc /\ Answer(c, calls[c].container, FALSE)
    BY <1>5 DEF Store
  <2> QED
    BY <2>1, <2>2, AnswerIsRight
<1>6. CASE lookupPodByContainerID(c) \/ Swap(c) \/ RefreshPodCache(c)
  BY <1>2, <1>6 DEF lookupPodByContainerID, Continue, Swap, RefreshPodCache
<1> QED
  BY <1>3, <1>4, <1>5, <1>6

LEMMA StepIsRight ==
    MapperInv /\ MapsTheLivingProcess /\ [Next]_vars => MapsTheLivingProcess'
<1> SUFFICES ASSUME MapperInv, MapsTheLivingProcess, [Next]_vars
             PROVE  MapsTheLivingProcess'
  OBVIOUS
<1>1. ASSUME answer' = NoAnswer PROVE MapsTheLivingProcess'
  BY <1>1 DEF MapsTheLivingProcess
<1>2. CASE ClearCache \/ Tick \/ \E pid \in Pids, runs \in Containers \cup {Host, Dead} :
                                   Change(pid, runs)
  BY <1>1, <1>2 DEF ClearCache, Tick, Change
<1>3. CASE UNCHANGED vars
  BY <1>3 DEF vars, MapsTheLivingProcess
<1> QED
  BY <1>2, <1>3, CachedIsRight, LookupIsRight DEF Next

(***************************************************************************)
(* However lookups, refreshes, evictions and the deaths of processes       *)
(* interleave: a process older than the TTL is never taken for the one     *)
(* that had its PID before, unless its cgroup file could not be read or    *)
(* the API server failed (process_mapper.go:181).                          *)
(***************************************************************************)
THEOREM LivingProcessMapped == Spec => []MapsTheLivingProcess
<1>1. Init => MapsTheLivingProcess
  BY DEF Init, MapsTheLivingProcess
<1> QED
  BY InvInit, InvKept, StepIsRight, <1>1, PTL DEF Spec
================================================================================

# A formal model of k8s-gpu-mcp-server

k8s-gpu-mcp-server answers questions about the GPUs of a Kubernetes cluster for
an MCP client. An *agent* runs on every GPU node and reads the hardware through
NVML; a *gateway* fans a tool call out to all agents and aggregates what they
return. Next to the tools, the repository holds the parts of a flight recorder:
samplers and watchers that keep the recent past in ring buffers, and a
correlator that explains a failure from them.

This directory holds TLA+ modules translated from that code, TLC configurations
that check them on small instances, and TLAPS proofs of the properties that
matter most for instances of any size.

| file | what it is |
|---|---|
| `CircuitBreaker.tla` | the per-node circuit breaker and its gauges |
| `Router.tla` | the fan-out over the breakers: loop, workers, closer, collector |
| `MCRouter.tla`, `MCRouter*.cfg` | instances of `Router` |
| `BoundedLog.tla` | abstract: the log of the last *Capacity* items |
| `RingBuffer.tla`, `MCRingBuffer*.cfg` | the circular buffer, which implements it |
| `Recorder.tla`, `MCRecorder*.cfg` | the flight recorder: start, stop, sampling, NVML |
| `XidWatcher.tla` | the watcher of XID errors over the kernel log |
| `K8sWatcher.tla` | the watcher of Kubernetes events over an informer |
| `Monitor.tla`, `MCMonitor.tla`, `MCMonitor*.cfg` | both watchers and the automatic correlation registered with them |
| `ProcessMapper.tla`, `MCMapper.tla`, `MCMapper.cfg` | the mapping of PIDs to pods and its two caches |
| `DcgmEmbedded.tla`, `MCDcgm.cfg` | the embedded DCGM engine: process, monitors, `Init`, `Shutdown` |
| `CertReloader.tla` | the TLS certificate reloader |
| `Serving.tla`, `MCServing.cfg` | the agent process and its three transports, over the reloader |
| `GpuHealth.tla` | `get_gpu_health`: from readings to a verdict |
| `Proxy.tla` | what the gateway makes of the agents' answers: framing, parsing, aggregation |
| `Correlation.tla` | one correlation: window, timeline, affected pods, causality |
| `Analysis.tla` | pattern scoring and the data of an explanation |
| `FailureTools.tla` | `explain_failure`, `get_incident_report`, failure detection |
| `NodeTools.tla` | `get_gpu_timeline`, `describe_gpu_node` |
| `Reports.tla`, `MCReports.tla`, `MCReports*.cfg` | these six composed: questions and answers over bounded observations |
| `CircuitBreakerProofs.tla`, `RouterProofs.tla`, `RingBufferProofs.tla`, `RecorderProofs.tla`, `MonitorProofs.tla`, `ProcessMapperProofs.tla`, `ServingProofs.tla`, `ReportsProofs.tla` | theorems and proofs about the module of that name |
| `PROJECT.json` | components, runs, mutants, the map from definitions to lines, findings, hazards, theorems |

To check one instance: `tlc -config MCRouterFanOut.cfg MCRouter` (`MCRingBuffer`,
`MCRecorder*`, `MCDcgm` and `MCServing` configure `RingBuffer`, `Recorder`,
`DcgmEmbedded` and `Serving` themselves). To check the proofs:
`tlapm RouterProofs.tla`. Definitions whose comment begins with "A fault" are
mutants: no run uses them unless one is put in the place of the definition
behind it.

## 1. Inventory

### Gateway (`pkg/gateway`)

| component | state | operations | interacts with |
|---|---|---|---|
| **Circuit breaker** `circuit_breaker.go` | per node: `failures`, `lastFailure`, `state`; all under `mu` | `Allow`, `RecordSuccess`, `RecordFailure`, `Reset`, `State` | called by the loop and by every worker of every fan-out of its handler; sets the process-wide gauges |
| **Router** `router.go` | none of its own between calls; per call: results channel, semaphore, wait group, results | `RouteToAllNodes`, `routeToGPUNode`, `RouteToNode` (not called) | lists pods through the Kubernetes client, sends through HTTP or exec |
| **Agent HTTP client** `http_client.go` | none | `CallMCP`: up to four attempts with backoff, 60 s each | the agents |
| **Proxy handler** `proxy.go` | a rate limiter, a router (so a breaker of its own) | `Handle`: limit, build, route, aggregate | five of them are created by the MCP server |
| **Framing** `framing.go` | none (pure) | building and parsing of MCP messages, `SplitJSONObjects` | proxy handler |
| **Kubernetes client** `pkg/k8s` | none | `ListGPUNodes`, `ExecInPod`, `GetPod`... | the API server |

*Hard*: several calls overlap and share a breaker; a worker asks the breaker
after it may have waited for a slot; an answer can be recorded long after the
circuit it belongs to changed; a call's context can end at any time; the results
channel is closed by a goroutine that runs beside its senders.
*Correct means*: no send on a closed channel, no leaked slot, every call
returns, exactly one result for every ready pod, an answer is never reported as
a failure of the whole call, a circuit agrees with its failure counter, a node
that recovered is readmitted.

### Flight recorder (`pkg/blackbox`)

| component | state | operations | interacts with |
|---|---|---|---|
| **Ring buffer** `ring.go` | `data`, `head`, `size`, `full` under `mu` | `Add`, `Clear`, `Latest`, `All`, `Query`, `QueryFunc`, `FindNearest` | recorder, event buffer, XID watcher |
| **Recorder** `recorder.go` | `running` (atomic), `stopCh`, `wg`; `gpuBuffers` under `mu` | `Start`, `Stop`, the sampling goroutine, queries | the NVML client, one ring buffer per GPU |
| **NVML client** `pkg/nvml` | `initialized` under a lock | `Init`, `Shutdown` (idempotent, no user count), device queries | the driver |

*Hard*: the wrap of the ring; `running`, `stopCh` and `wg` are changed in
separate steps by any goroutine; a start can fail half way; GPUs come and go.
*Correct means*: the buffer is the log of the last items whatever its position;
one sampling goroutine while running and none otherwise; NVML is not shut down
under it; timelines are ordered; `Stop` returns and never panics.

### Watchers and correlation (`pkg/xid`, `pkg/events`, `pkg/incidents`)

| component | state | operations | interacts with |
|---|---|---|---|
| **XID watcher** `xid/watcher.go`, `kmsg.go` | `running`, `stopCh`, `wg`, `handlers`, a ring buffer | `Start`, `Stop`, the watch loop, `RegisterHandler`, queries | `/dev/kmsg`; calls handlers, with recovery |
| **Kubernetes watcher** `events/k8s_watcher.go`, `buffer.go` | `running`, `synced`, `stopCh`, `wg`, `handlers`, a ring buffer | `Start`, `Stop`, the informer's callbacks, the sync goroutine | the API server through a shared informer; calls handlers |
| **Correlator** `events/correlator.go` | none; per registration: a context and a wait group | `Correlate`, `DetectCausality`, `RegisterAutoCorrelation` and its cleanup | both watchers and the recorder |
| **Process mapper** `events/process_mapper.go` | a PID cache and a pod cache under `mu` | `GetPodForPID`, `RefreshPodCache`, eviction | `/proc`, the API server |
| **Analyzer, explainer** `pkg/incidents` | none (pure) | pattern matching and scoring, texts | correlator's incidents |

*Hard*: a loop that ends by itself leaves `running` set; a read of `/dev/kmsg`
blocks; a sync that is noticed after the stop; events delivered again; a
correlation started while the cleanup runs; a PID that is used again while an
answer about it is cached or under way; entries of equal time in any order.
*Correct means*: no handler or callback runs after the stop or cleanup
returned, every critical event yields one incident, an incident holds all that
is recorded around its trigger and blames only what it holds, a process that
has run for a TTL is not taken for its predecessor.

### Engines, server, tools (`pkg/dcgm`, `pkg/mcp`, `pkg/tools`, `cmd/agent`)

| component | state | operations | interacts with |
|---|---|---|---|
| **DCGM embedded engine** `dcgm/embedded.go` | `initialized`, `stopCh`, `cmd`, `wg` | `Init`, `Shutdown`, the monitor goroutine | the `nv-hostengine` process |
| **MCP server** `mcp/server.go`, `oneshot.go`, `http.go` | the HTTP server, counters | `Run` over stdio, HTTP or oneshot, `Shutdown` | the client, the tools, signals |
| **Certificate reloader** `mcp/tls.go` | certificate and modification times under `mu` | `GetCertificate`, reload | files that are replaced while it runs |
| **Health tool** `tools/gpu_health.go` | none (pure) | checks, score, status | NVML |
| **Node tools** `tools/get_gpu_timeline.go`, `describe_gpu_node.go` | none (pure) | timeline with events and statistics; node with GPUs and pods | the recorder, the XID watcher, NVML, Kubernetes |
| **Failure tools** `tools/pod_failure.go`, `explain_failure.go`, `get_incident_report.go` | an unbounded incident cache in one tool | detect, correlate, analyse, report | Kubernetes, the correlator, the analyzer |
| **Other tools, prompts** | none | query, convert, format | NVML, Kubernetes |
| **Agent command** `cmd/agent/main.go` | the context, a channel of signals | start, wait, shut down | the server, NVML |

*Hard*: the engine dies while it is being initialized or after a restart; a
file replaced between two reads; a signal beside an error or a slow request; a
reader of standard input that nobody waits for; limits that the device reports;
sums over nodes of which some are unknown.
*Correct means*: a crash is noticed, a complete renewal is served, a signal ends
the agent, answers follow the input, a worse reading never looks better, free
GPUs exist.

Which of these are modelled is in section 5 and, file by file, in
`PROJECT.json` under `components`; the places where each can go wrong are under
`hazards`.

## 2. Modules and how they correspond to the code

### CircuitBreaker

One entry per handler and node. Every method holds `cb.mu` throughout, so each
is one action: `Allow`, `RecordSuccess`, `RecordFailure`, `Reset`.
`Admits` is what `Allow` returns. Absent map entries read as Go's zero values:
`failures` 0, `state` closed. The clock is reduced to the question the code asks,
`time.Since(lastFailure) > resetTimeout`: `elapsed` becomes false when a failure
is recorded and true again by `Elapse`, at any later time. `failures` saturates
at `FailureCap` (at least `Threshold`): the code only compares it with the
threshold. `gauge` is the cell of the process-wide metric, shared by all handlers.

### Router

| code in `RouteToAllNodes` and `routeToGPUNode` | action |
|---|---|
| `ListGPUNodes`, the locals | `Start`, `ListFails` |
| the loop body: context check, readiness, `Allow` | `SkipUnready`, `VisitRefused`, `VisitAdmitted` |
| `resultsCh <- "circuit open"` in the loop | `ReportRefused` |
| end of the loop, or its `break` | `EndVisits` |
| worker: `select` on semaphore and context | `Acquire`, `Abandon` |
| worker: second `Allow`, the request | `Refuse`, `Request` |
| transport returns | `Answer` |
| `RecordSuccess` / `RecordFailure` | `Record` |
| `resultsCh <- result`; deferred `<-sem`, `wg.Done` | `Report`, `Release` |
| closer goroutine | `CloseResults` |
| `for result := range resultsCh`, the return | `Collect`, `Return` |

A step ends where another goroutine can observe it: at a channel operation, at
a breaker operation, at the network. The order of the pods is the API server's,
so the loop picks any unvisited one. Several pods of one node may be listed, as
during a rolling update. A call that returned can be made again under the same
identity, so behaviours are infinite while states are finite. `probes` is a
history variable: the requests sent since a circuit half-opened. The retries of
`CallMCP` are within `Answer`: they have no effect on the gateway's state.

Agents crash and restart (`CrashOrRestart`), contexts are cancelled (`Cancel`).
A request whose agent went down and came back may still be answered, and one
whose context was cancelled may still have been answered before.

### RingBuffer and BoundedLog

Every method holds `r.mu`: writes are actions, reads are operators (`All`,
`Latest`, `Query`, `QueryFunc`, `FindNearest`), each computing its slots as the
code does. An item is its timestamp. `BoundedLog` says what a user may rely on;
`LastItems` instantiates it with `log <- All`.

### Recorder

`Start` and `Stop` are split at every access to `running`, `stopCh`, `wg` and
NVML. The sampling goroutine re-reads `r.stopCh` each time it enters its
`select` (`EnterSelect`): it does not keep the channel it was started with.
Buffers are the pure operator of `BoundedLog`, which `RingBuffer` implements. A
GPU found by a restart gets a new buffer, one that is not found keeps its old
one, a hotplugged one is added by the sampling round (`Capture`). `UndoInit`
may leave NVML initialized, because `Shutdown` refuses a cancelled context and
the discovery may have failed for that very reason.

`MayOverlap` says whether a `Start` may run beside a `Stop`; two concurrent
`Start`s or two concurrent `Stop`s are always allowed. Nothing in the code keeps
them apart, and outside the tests nothing starts a recorder yet: what holds when
they are kept apart is checked with `MayOverlap = FALSE`, what happens when they
are not is the run `recorder_overlap`.

### XidWatcher, K8sWatcher and Monitor

Both watchers have the shape of the recorder (`StartCAS`, a failing start,
`Spawn`, `StopCAS`, `Close`, `Wait`), and handlers that run in the watcher's own
goroutine: `Capture` adds to the buffer (`handleMessage`, `handleEvent`), `Copy`
takes the handlers under the lock, `HandlerReturns` is the end of one of them.
A `Start` beside a `Stop` is left out of both, a premise that nothing in the code
enforces: it does there what it does to the recorder.

`XidWatcher`: `Check` is the only place where `Watch` asks for its context, and
a scan that finds nothing waits for the kernel (`Blocked`): Go's `os.OpenFile`
hands `/dev/kmsg` to the runtime's poller, so a read does not fail with `EAGAIN`
as the code expects. `TellStop` is the small goroutine that turns `stopCh` into a
cancelled context. A loop ends by itself when the log cannot be opened or read
(`Fail`) or the caller's context ends (`CancelContext`).

`K8sWatcher`: client-go's informer is external. What is relied on: it lists what
exists in any order, goes on with what is created or updated, delivers one at a
time, and after its stop channel closed finishes the delivery under way, drops the
others and returns. The filters of `handleEvent` are the set `Relevant`.

`Monitor` instantiates both and adds `RegisterAutoCorrelation`. A handler is two
steps, because the context is asked before the wait group is raised (`Enter`,
`Correlate`). A correlation reads one buffer after the other (`Gather`), gives up
when its context is cancelled (`GiveUp`), and asks once more before it calls back
(`Verdict`). `wired` says which watchers the correlator was given: both may be
nil in `NewCorrelator`. `had` is a history variable: the buffers at the moment the
trigger was handled. GPU snapshots and the width of the window are left out: every
event is in the window of every other (`Correlation` has them).

### ProcessMapper

`GetPodForPID` is split at its locks and its I/O: the look into the cache
(`GetPodForPID`), the cgroup file (`parseCgroup`, which may fail for a living
process too: no permission, no descriptor left, a failing read), the pod cache
(`lookupPodByContainerID`), the API server (`List`), the replaced pod cache
(`Swap`), the second look (`Retry`) and the insertion with its eviction (`Store`).
`AnswerStale` is what both failures lead to: the cached pod, however old.
`RefreshPodCache` alone is the ticker's. The environment starts and ends
processes (`Change`) and advances the clock (`Tick`). `evictOldest` gives the
caches that may be left, because the order of entries of equal age is not
defined. The clock is the code's `now`, read before the lookup: `asked`.

### DcgmEmbedded

Engines, monitors and stop channels are numbered by the `Init` that makes them,
so that a monitor that reads `e.hostengine` and `e.stopCh` late can be seen to
read those of a later start. `waitForReady` succeeds at once, because the client
is a placeholder that connects to nothing; its context may end first. Calls of
one kind may overlap (`Only`): a test starts several `Init`s at once.

### CertReloader and Serving

`CertReloader`: content and modification time of a file are its version; every
read of a file, every `Stat` and every lock is a step. `Renew` replaces both
files or one of them at any time. `raced` remembers whether that was between a
load and the stats behind it.

`Serving` extends it by the agent: `Signal` and `Main` (the `select`, the wait
for `Run` after a signal), standard input (`StartStdio`, `Receive`, `ServeStdio`,
`runStdio`), one-shot (`Scan` and `Send` are the goroutine that reads ahead, which
a line that cannot be read ends too, `Run` the select of the loop,
`processRequest` the end of a request it has taken), HTTP (`StartHTTP`, `Listen`, `Serve`, `ListenAndServe`,
`Connect`, `Respond`; `GraceEnds` is the end of its ten seconds). `Reload` takes
the reloader's steps while the server runs.

### Reports and the modules under it

The tools keep no state, so an answer is an operator of what was observed:

* `GpuHealth!Handle`: the checks, their penalties, score, status, the verdict on
  the node, the points at which the context is asked. Percentages are whole
  numbers; temperatures wrap at `Word` as `uint32` does.
* `Proxy!Handle`: rate limit, route, aggregation. A message is a kind with a
  value; only `SplitJSONObjects` sees characters, which are named, `"x"` being all
  that it does not tell apart.
* An event has a reason and a message, each a word: the correlator reads the
  reason alone, the analyzer both.
* `Correlation!Correlate`: the set of incidents a correlation may return. It is
  a set because `sort.Slice` leaves entries of equal time in any order and the
  recorder's map is iterated in any order. `cut` is where the context ended.
* `Analysis!Analyze`, `GenerateExplanation`: the indicators, the pattern with
  the highest score, and the data of the explanation.
* `NodeTools!Timeline`, `Describe`; `FailureTools!ExplainFailure`,
  `IncidentReport`.

`Reports` asks one question about one observation (`AskHealth`, `DescribeNode`,
`AskAgents`, `ReadAgent`, `AskTimeline`, `AutoCorrelate`, `ExplainPod`,
`ReportPod`) and, as `get_incident_report` remembers its incidents, one by the
identifier of an earlier answer (`ReportID`). The properties say what must hold
of an answer without the code's own way of gathering it.

## 3. Runs

### Runs that pass

| run | instance | asks |
|---|---|---|
| `fanout` | one call at a time, three pods on two nodes (two pods share a node), two slots, one node crashes, contexts are cancelled | `TypeOK`, `SlotsAreHeld`, `NoSendAfterClose`, `OneResultPerReadyPod`, `AnswersAreReturned`, `CounterMatchesState`, `GaugeSpeaksForOne`, `EveryCallReturns`, `RecoveredIsReadmitted` |
| `ring` | four slots, three timestamps in any order | `ReadersAgree`, `QueryMissesNothing`, `NearestIsNearest`, `ImplementsBoundedLog` |
| `recorder` | two callers, two GPUs, three starts, a clock of three instants, no `Start` beside a `Stop` | `RunningIsSampling`, `NoUseAfterShutdown`, `BuffersAreSorted`, `StopReturns` |
| `monitor` | one registration; both watchers, or one that is started twice; two kernel events, two cluster events | `StoppedIsQuiet`, `NoCallbackAfterCleanup`, `ReportsAreComplete`, `XidReportedOnce` |
| `monitor_stop` | one watcher of either kind, an updated cluster event | `CleanupTerminates`, `StopReturns`, `CriticalEventsAreReported` |
| `reports` | lists of up to three GPUs; answers of up to three agents over two nodes; all outputs of two objects; a recording of two GPUs; up to two XIDs, two cluster events and two snapshots, three in all | `HarmIsMonotone`, `DangerIsReported`, `SplitInvertsFraming`, `AvailabilityIsReal`, `ThrottlingReplays`, `TimelineIsFaithful`, `CausalityFollowsTime`, `BlameIsSupported`, `CleanOomIsTheCode` |
| `mapper` | two callers, two PIDs, two containers, a cache of one entry, a TTL of one tick | `CacheIsBounded`, `MapsTheLivingProcess` |
| `dcgm` | two callers, three engines | `CrashIsNoticed` |
| `serving` | each transport; three lines of input, a limit of two; two handshakes, two renewals, two requests in flight | `OnlyTheStatRaceLosesARenewal`, `AnswersFollowTheInput`, `SignalStopsTheAgent` |

*Why the bounds are enough.* `fanout`: three pods and two slots are the least at
which a worker waits for a slot while two hold one; two pods on one node let the
first worker open the circuit that the second asks; threshold 2 is the least
that tells "one failure" from "open". Calls follow one another without bound, so
circuits are met in every state. The two pods of one node are also what it takes
for an answer to be recorded in a period its request was not sent in, and for a
failure to be recorded after a success; `half_open` lets two calls overlap. There
is one handler in each run: a second one multiplies the states by those of its
breakers, which the first never reads, and what they share, the gauge, is covered
by `GatewayGaugeIsSomebodys` for any number. `ring`: with four slots and three
values every content occurs at every position of the head, before and after the
wrap; three values give an item before, at and after any bound.
`recorder`: the third start is the first that can meet a buffer older than
the previous start; a capacity of 2 evicts. `monitor`: the second start lists the
events again and is the first that a goroutine of the one before could disturb;
the first kernel event is not critical, so an incident has something to be
complete about, and the Kubernetes buffer of one evicts it. With both watchers,
`MayStop` leaves the stops to the instances with one (a bound of the model).

`reports`: the readings lie on either side of every bound of the health checks,
with limits reported and not, one of them below the margin that is subtracted;
`Worse` steps over each bound. Two objects are the first that a wrong brace can
join. Two snapshots, a trigger and one event make every pair whose order
matters, on both sides of the window and of `Lookback`; the third item is what
may stand between them. `Small` keeps the questions with many arguments to
worlds of one item. The events are such that a reason and a message may disagree.
`mapper`: one entry makes every second insertion evict; a
second caller is what it takes to store an old answer after a PID was used
again. The symmetry of callers, PIDs and containers is sound, for none of them
is named anywhere and both properties are invariants. `dcgm`: the third engine is
the first that a monitor of one before the previous could disturb. `serving`:
three lines are one more than the limit, two renewals are one during a reload
and one after it.

*What they show.* The gateway's accounting is exact on every return path; the
buffer of `len(nodes)` results is what keeps a call from blocking itself; the
breaker recovers under any interleaving of stale answers once no call is
cancelled any more; the recorder is sound as long as a `Start` and a `Stop` do
not overlap. A handler that passes its context check just before the cleanup
starts a correlation that the cleanup does not wait for, against the comment of
`RegisterAutoCorrelation`; but such a correlation finds its context cancelled and
never calls back. A reading that is
worse in one respect never looks better to either health tool. The dating of
cached pods by the moment of the question is what bounds their age, and the
order "load, then stat" loses a renewal in one case only. A signal ends the
agent in every transport, even when nobody is left to read standard input: over
HTTP whatever its tools do, on standard input unless a tool never returns.

### Runs that find a divergence

Each checks one sentence of the repository against the code.

| run | sentence | what happens |
|---|---|---|
| `half_open` | "CircuitHalfOpen allows one test request through" | a half-open circuit admits every request until one of them is recorded |
| `recorder_overlap` | "Safe to call multiple times or if not started." (of `Stop`) | `running` is set before `stopCh` is made: a `Stop` in between closes a nil or closed channel and panics |
| `chain` | "temp elevated → throttle → XID → pod failure" | the two links are looked for one by one: an idle throttling, an XID, then heat with its throttling is a thermal cascade |

### Divergences without a run

Met while modelling, in the state spaces of the runs above or in what they
leave out. The repository is explicit about few of them.

* *Gateway.* The end of the caller's own context counts as a failure of the node
  (`router.go:188`): calls that their clients cancel open, and keep opening, the
  circuit of an agent that always answers, though "CircuitOpen blocks requests
  (node is unhealthy)" (`circuit_breaker.go:18`). `RecoveredIsReadmitted` holds
  only of calls that are not cancelled for ever. Each of the five proxied tools
  (`server.go:144-199`) has a handler, a router and breakers of its own, and all
  write one gauge for a node: a node that one of them refuses is shown with the
  state another gave it, though "CircuitBreakerState tracks circuit breaker state
  per node" (`metrics.go:41`). Two agents on one node, as
  during a rolling update, count its capacity twice in the inventory.
  When the pods of a node cannot be listed, what is not allocatable is taken for
  allocated, and more may be allocated than is left: `available` can be negative.
* *Ring buffer.* `Query` returns everything behind its first match; Kubernetes
  events are not added in the order of their timestamps.
* *Recorder and watchers.* Both watchers share what `recorder_overlap` shows of
  the recorder. A watch loop that ends by itself leaves
  `IsRunning` true. A stop of the XID watcher waits for the next kernel message.
  `IsSynced` may become true after a stop.
* *Correlator.* A threshold below the margin of 10 makes no temperature high
  (`uint32` underflow). A trigger whose entry has the words of an older event is
  deduplicated away, and the report counts from the older one. The comment
  speaks of "consecutive entries", the code compares all. Any bit of the throttle
  mask counts as throttling in a cascade, that of an idle GPU too.
* *Explanations.* "Signature: temp > threshold, hw_thermal throttle active, often
  XID 79" (`patterns.go:101`), but any bit of the throttle mask satisfies the
  indicator (`analyzer.go:401`): an XID 13 on an idle, cool GPU is a thermal
  cascade and "not your code". A pod whose phase is `Failed` is reported with its phase's
  reason, which hides that a container was `OOMKilled`. The analyzer scores
  indicators, the explainer looks at the causality alone: one report may name a
  hardware cause and say "unknown". The correlator takes `OOMKilled` from the
  reason of an event, the analyzer from its message as well. The pod of a report is the alphabetically
  first of the affected ones.
* *Process mapper.* When the API server fails, or the cgroup file of a living
  process cannot be read, an entry that expired long ago is the answer: of a PID
  that was reused, the pod of the dead process. So it is of a process that is gone:
  "DefaultStaleTTL is how long to retain cached data for dead processes"
  (`process_mapper.go:25`), but nothing drops an entry for its age. A refresh that
  took longer overwrites a newer list.
* *Node tools.* `describe_gpu_node` counts the GPUs of completed pods as
  allocated, which the gateway's inventory does not, so that available GPUs may
  be negative. It ignores throttling and averages over GPUs: a node that
  `get_gpu_health` calls critical may be healthy here. Cancelled between two
  GPUs it answers "partial" with those it has. `get_gpu_health` cancelled at the
  last GPU's metrics calls that GPU "unknown" and the node "healthy". A timeline
  without samples is named after GPU 0.
* *DCGM.* An engine that dies between "ready" and `initialized = true` is not
  noticed. `Shutdown` beside `Init` may wait for a new engine's monitor, with
  the lock held; nothing in the repository calls both.
* *Serving.* "Wait for ServeStdio to return (with timeout)" (`server.go:329`), but
  the `select` has no timeout: a tool that never returns keeps the agent after a
  signal. Nor does the one-shot loop look at its context while it handles a
  request. After the end of standard input, `Run` waits for a signal, because
  only an error is sent to it. A one-shot run that was cancelled may return no
  error, and lines that are not JSON do not count as requests. After a signal,
  NVML's deferred `Shutdown` gets a cancelled context and refuses.
* *Certificates.* A renewal between the load and the stats is not loaded until
  the files change again.

### Fairness

* The Go scheduler runs every goroutine that can take a step: weak fairness of
  the loop and the closer of each call and of each worker.
* A request ends: the HTTP client (`http_client.go`) and the exec stream
  (`k8s/client.go`) have timeouts of 60 seconds. So `Answer` is part of the
  worker's fair steps.
* The clock advances, so a reset timeout passes: weak fairness of `Timeout`.
* In the recorder, a call that began goes on, and a sampling round ends, since it
  has a deadline (`sampleAllGPUs`). When both a tick and the stop channel are
  ready, Go's `select` picks one at random; the goroutine is not kept from
  quitting for ever: strong fairness of `Quit`.
* In `Monitor`, every goroutine of the watchers and every correlation runs, a
  call that began goes on, handlers and callbacks return. A failing read is not
  forced by fairness (`XidFailure` is outside it), and neither is a kernel
  message: `StopReturns` says so in its premise.
* In `DcgmEmbedded`, each monitor runs, and notices the end of the process it
  waits for. Nothing is assumed of the callers, nor that an engine dies.
* In `Serving`, the goroutines of the agent run and files can be read; a closed
  input wakes its reader, which is what `runStdio` relies on: `ServeStdio` is
  fair once its input is closed, and only when no request is in flight, because
  it waits for those. Tools need never answer (`Respond` and `processRequest` are
  not fair), no input need come, and the scanner of the one-shot transport need
  never finish (`Scan` and `Send` are not fair). What `SignalStopsTheAgent` says of
  standard input has the premise that the agent is without a request again and
  again; of HTTP it has none, for weak fairness of `ListenAndServe` includes the
  end of the ten seconds.
* Nothing is assumed of the environment: no call, cancel, crash, restart, start,
  stop or signal has to happen. `RecoveredIsReadmitted` states its own premises
  (from some time on the agent answers and no call under way is cancelled; calls
  keep visiting the pod).

## 4. Proofs

TLAPS checks the following for every value of the constants that meets the named
assumptions (`BreakerAssumption`, `RouterAssumption`, `RingAssumption`,
`RecorderAssumption`, `MonitorAssumption`, `MapperAssumption`,
`ReloaderAssumption`, `ServingAssumption`, `ReportsAssumption`): numbers of
calls, pods, callers, starts, registrations, events, slots and capacities are
arbitrary. The only other hypothesis is the one in the table, of the recorder.

| theorem | says |
|---|---|
| `BreakerConsistent` | `CBSpec => [](CBTypeOK /\ CounterMatchesState)`, for callers in any order |
| `GaugeIsSomebodys` | `CBSpec => []GaugeSpeaksForOne`: a gauge that says closed is right for one of the handlers that share it |
| `RouterTyped` | `Spec => []TypeOK` of the gateway |
| `SlotsAccounted` | `Spec => []SlotsAreHeld` |
| `ChannelOutlivesSenders` | `Spec => []NoSendAfterClose` |
| `OneResultEach` | `Spec => []OneResultPerReadyPod` |
| `AnswersComeBack` | `Spec => []AnswersAreReturned` |
| `UsesBreaker` | `Spec => CBSpec`: the gateway implements its breakers |
| `CircuitsConsistent`, `GatewayGaugeIsSomebodys` | `Spec => []CounterMatchesState`, `Spec => []GaugeSpeaksForOne` of the gateway |
| `Typed`, `Shaped` | types and shape of the ring buffer, for every capacity |
| `Implements` | the ring buffer implements `BoundedLog`, for every capacity and every set of timestamps |
| `ReadersSeeAll`, `QueryIsExact`, `NearestIsFound` | `[]ReadersAgree`, `[]QueryMissesNothing`, `[]NearestIsNearest` |
| `RunningRecorderSamples` | if no `Start` overlaps a `Stop`: `[]RunningIsSampling` |
| `SamplingHasNvml`, `HistoryIsOrdered` | likewise: `[]NoUseAfterShutdown`, `[]BuffersAreSorted` |
| `WatchersStop` | `Spec => []StoppedIsQuiet` of both watchers |
| `CleanupSilences` | `Spec => []NoCallbackAfterCleanup` |
| `ReportsComplete` | `Spec => []ReportsAreComplete` |
| `XidOnce` | `Spec => []XidReportedOnce` |
| `CacheBounded` | `Spec => []CacheIsBounded` of the process mapper, for any number of callers and any bound |
| `LivingProcessMapped` | `Spec => []MapsTheLivingProcess`, for any TTL: of answers that no failing read and no failing API server made |
| `UsesReloader` | `Spec => ReloaderSpec`: the agent, in every transport, implements its reloader |
| `RenewalServed` | `Spec => []OnlyTheStatRaceLosesARenewal`, for any number of handshakes and renewals |
| `LinesAreAnswered` | `Spec => []AnswersFollowTheInput`, for any input and request limit |
| `HarmNeverHelps` | `Spec => []HarmIsMonotone`, for readings of any values |
| `DangerIsSeen` | `Spec => []DangerIsReported`, for any number of GPUs |
| `TimelinesAreFaithful`, `LinksFollowTime` | `Spec => []TimelineIsFaithful`, `Spec => []CausalityFollowsTime` (each link of a causality by itself; `CascadeIsAChain` is refuted), for logs of any length and any window |
| `BlameHasSupport`, `CleanOomIsBlamedOnTheCode` | `Spec => []BlameIsSupported`, `Spec => []CleanOomIsTheCode`, likewise |
| `FreeGPUsAreReal` | `Spec => []AvailabilityIsReal`, for any number of nodes, pods and GPUs |
| `TimelinesReplay` | `Spec => []ThrottlingReplays`, for recordings of any length and any duration |
| `FramingIsInverted` | `Spec => []SplitInvertsFraming`, for any number of objects of any length |

**Gateway.** The inductive invariant is

    IInv == TypeOK /\ CounterMatchesState /\ UnvisitedHasNoWorker
            /\ SlotsAreHeld /\ NoSendAfterClose

`TypeOK` alone is not inductive: `Release` subtracts one from `sem`, and only
`SlotsAreHeld` (the slots taken are exactly the workers that hold one) says that
there is one to give back. `SlotsAreHeld` is not inductive either: starting a
worker for a pod whose worker holds a slot would change the count, which
`UnvisitedHasNoWorker` excludes. `NoSendAfterClose` needs both ends of the
protocol: the loop has ended, and no worker is between start and end. The
proof has one lemma per group of actions: `StartIInv`, `VisitIInv`,
`ReportRefusedIInv`, `CollectIInv`, `WorkIInv`, `EnvironmentIInv`. `MoveIn`,
`MoveOut` and `MoveWithin` say once what the move of a worker does to the set of
holders; `QuietIInv` covers the steps that move none.

What a call returns rests on a second invariant, `Accounted(c)` for every call
`c`: each ready pod is still to be visited, is refused and not yet reported, has
a worker that has not reported, or has exactly one result in what was delivered,
that is, in the results collected followed by those in the channel. Collecting
moves a result within that sequence, so only a send changes it. The calls do
not touch each other (`CallsAreSeparate`).

**Breaker.** `CounterMatchesState` is inductive together with the types.
`UsesBreaker` carries it to the gateway: every step of `Router` is a step of
`CircuitBreaker` or leaves it alone. That a node whose gauge says closed is closed
for every handler is false of handlers that share the gauge. What is inductive for
any number of them is `GaugeSpeaksForOne`: when the gauge of a node says closed, the circuit of that
node is closed for some handler.

**Ring buffer.** `Shape` is inductive with the types. For the refinement, `Add`
is split on the three cases of the code: room left (`AddToRoom`), the item that
fills the buffer, and a full buffer (`AddToFull`); in each the sequence `All`
after the step is computed index by index. The readers add `Filled` (slots in
use hold items that were added) and `WrapOnce` (an index below twice the
capacity wraps at most once). `FindNearest` is a loop: a least round at which
its claim fails, were there one, has a predecessor at which it holds
(`LoopHasResult`, `ClosestSoFar`).

**Recorder.** `RecorderInv` says that at most one caller is at work on the
recorder's fields (`OneCallAtWork`), that only the newest stop channel can be
open (`NewestChannel`) and only the newest goroutine can be awake
(`OnlyTheNewest`), and when one has to be (`SamplesWhenItMust`). All of them are
false as soon as a `Start` runs beside a `Stop`, which the code does not
prevent (run `recorder_overlap`): `~MayOverlap` is a discipline that a caller
would have to bring, and the theorems state it as a hypothesis. Under it no `Stop`
panics either, which is a part of `RecorderInv` and no theorem of its own. For the order of the buffers, `BuffersInv`
adds that no sample is younger than the clock or follows the last time of the
round under way.

**Watchers and correlation.** `WatchersInv` has the same shape for both watchers:
one caller at a time between its compare-and-swap and its end, therefore one
loop alive, therefore events read in the order in which the kernel wrote them
(`UnreadInOrder`) and an event that is being told is the newest of the buffer
(`EventIsNewest`, `K8sEventIsNewest`). No hypothesis is stated here, since the
premise that no `Start` runs beside a `Stop` is part of both modules.
`NoCallbackAfterCleanup` follows from `CancelledFirst`: whoever waits for the
correlations has cancelled their contexts before.
`ReportsAreComplete` compares what an incident holds with buffers of an earlier
moment. `ReportsInv` bridges the time: whatever was in a buffer then is there now
but for evicted items (`Remembers`), and what was read is what was there when it
was read (`HasRead`). Both rest on `Push` evicting nothing but the oldest
(`EvictedByItems`, `EvictedByPush`).
`XidReportedOnce` needs that a handler is registered once (`RegisteredOnce`) and
that the triggers of all correlations lie behind what is still to be read
(`TriggersBehind`), across restarts of the watcher.

**Process mapper.** The inductive invariant is

    MapperInv == CallsOk /\ ProcOk /\ CacheIsBounded /\ CacheOk

`MapsTheLivingProcess` speaks of an answer, which is one step old and not
inductive. What is, is a claim about everything an answer can be made of: each
cached entry and each half-finished lookup is `Fresh`, that is, the PID runs
what was found, runs nothing, or runs something that began no earlier than the
question was asked. `Fresh` survives the reuse of a PID because a new process
begins now, and no question is younger than now. `StepIsRight` then shows that
a step from `MapperInv` that answers, answers rightly: the entry is younger than
the TTL, so a process that began after it has not run for one. An answer after a
failing read or request is none of these and is marked (`failed`). `CacheBounded`
rests on `EvictionShrinks`: from a finite cache that is one entry over, any
choice of at least one oldest entry leads back below the bound.

**Serving.** `AgentStepsReloader` shows that every step of the agent is one of
the reloader or leaves it alone, so `UsesReloader` gives a behaviour of
`ReloaderSpec`, and what holds of the reloader by itself holds in the agent. Its
invariant

    ReloaderInv == Typed /\ TimesPassed /\ LoadedIsOnDisk /\ ServedIsRecorded

adds that recorded times are never ahead of the files (so that a renewal always
makes them differ) and that what a thread has loaded is still on disk when it
stores, unless it was raced. For the one-shot transport,

    OneshotInv == ReadsAhead /\ AnsweredInOrder /\ CountsRequests

says how far the scanner is ahead of the loop, that the lines answered are those
below the next one that can be answered, and that `processed` counts the
requests among them.

**Health.** The answers are operators, so the invariant is small
(`AboutObserved`: the answer is `Handle` of what is observed) and the argument
is about them. `FirstOfThree` reads a switch of the code as a chain of conditions;
from it each component costs no less when its reading is worse
(`ThermalNoCheaper`, `MemoryNoCheaper`, `PowerNoCheaper`, `ThrottlingNoCheaper`,
`ECCNoCheaper`), whatever limits the device reports. `WorseVerdict` is more than
the run asks: a reading at least as bad in *every* respect has no better score
and no milder status. `OneCriticalIsEnough` needs no more than that the set of
critical GPUs is finite and not empty.

**Incidents.** The invariant `AboutWorld` says that the incident of a correlation
that was not cut short is one that `Correlate` makes of what is observed, for
some trigger, and that the report carries the analyzer's verdict on it; every
action is shown to keep it, `buildTriggerEvent` to make a trigger of any pod's
failure. The properties then follow from what `Correlate` returns (`IncidentIs`):

* `EventsGathered`, `SnapshotsGathered`: the loops of the gathering, against the
  window stated as a set;
* `OrdersAre`, `FirstsAre`: any order that `sort.Slice` may leave is sorted and
  complete, and dropping the entries that repeat an earlier key keeps it sorted and
  loses no key;
* `EntriesTell`: each entry stands for an event near the trigger or a sign of a
  snapshot near it, so a sequence of entries is one of things that happened;
* `ConfidenceIs`, `VerdictConcludes`: a pattern's confidence is the sum of the
  weights that match, and the verdict is the first of the strongest.

They rest on `ReportsAssumption`: XID events are in the order of the kernel log
and each GPU's snapshots in the order of sampling (`HistoryIsOrdered` says so of
the recorder); Kubernetes events come in any order, which is why the timeline may
then tell of events older than the window. Recursive functions are reasoned
about with `RecursionHasResult` (one exists, whatever its rules) and
`ReachedByCounting` (what is handed on from each index to the next holds of the
last), both from `LeastNumber`.

**Inventory.** What a node requests and what a cluster has free are sums over
sets, which the library defines by recursion over subsets. `FoldHasResult` says
that such a recursion has a result and `OneFold` that it has only one; from them
`SumIs` makes of a sum a function that adds one member after the other, and
`SumNoLess` compares sums member by member. `NodeWithinBounds` does the
arithmetic of one node and `ClusterWithinBounds` adds the nodes up;
`DescribedWithinBounds` is the other tool, with its own rules. The invariant
`AboutCluster` says that an inventory is the answer about the cluster that is
observed. From the API server it is assumed that counts are natural numbers and
that a node has finitely many pods (`IsNode`).

**Timelines.** `ReplayIs` says what a reader knows after a prefix of the events
(`PrefixFold`): it is the state at the last change so far. Of samples no two of
which share a second, the seconds are in the order of the samples
(`SecondsGrow`), so a replay up to a sample ends with the latest change among
the samples up to it (`ReplayEndsAtSample`). `TimelineEntriesAre` and
`TimelineTells` find the changes and the XIDs in whatever order `sort.Slice` may
leave. Samples and XIDs are in the order of time (`IsRecording`). The proof
corrected the property: it once promised the XIDs since the first sample
*shown*, whose time is rounded down to a second, so that an XID within that
second, before the time asked for, was promised and rightly left out.

**Framing.** `SplitJSONObjects` is a loop over characters with the state of a
reader: depth, in a string or not, behind a backslash or not. The objects it is
given are described without such a reader (`IsObject`): a character is `Escaped`
behind an odd number of backslashes in a row, `Quoted` behind an odd number of
quotes that are not escaped, and its `Depth` counts the braces that are not
quoted. An object begins with a brace, is closed by its last character and no
earlier, and has backslashes in its strings only. That is what JSON says of one, as
far as braces go, and `ReportsAssumption` asks it of the texts. `ObjectIsRead`
shows that in the midst of an object the reader knows just that (`Midway`), one
character after the other (`EscapedNext`, `QuotedNext`, `DepthNext`), `JoinsGoOn`
and `AppendedAt` where in the output an object lies, and `SplitIsInverse` puts the
objects together. The loop is a fold of the library, which `SplitReads` turns into
a function of the number of characters read.

**Only model-checked**: the liveness properties (`EveryCallReturns`,
`RecoveredIsReadmitted`, `StopReturns`, `CleanupTerminates`,
`CriticalEventsAreReported`, `CrashIsNoticed`, `SignalStopsTheAgent`), which need
`ENABLED`. Every invariant of the passing runs and the refinement of
`BoundedLog` are stated by theorems above. Of the operators of `Reports`,
`identifyAffectedPods` and the explainer's data have no property of their own: what
they give is shown, and nothing is concluded from it.

## 5. What is not modelled, and the plan

Modelled completely: the circuit breaker, the proxy handlers, the ring buffer,
the recorder, the two watchers, the process mapper, the correlator, the
analyzer, the certificate reloader, the health tool.

Partly: the router (without `RouteToNode`, which nothing calls, and without the
choice between pod IP and DNS name); the HTTP client (its attempts are one
step), the Kubernetes client, the metrics and the NVML client, as far as those
above use them; the framing (without the building of requests); the explainer
(without its texts); the DCGM engine (calls of different kinds do not overlap);
the MCP server and the agent command (without registration, flags and health
endpoints); the node and failure tools (without their formats).

Not modelled: the parsing of XID texts and the table of codes, templates,
prompts, the formatting tools (`analyze_xid`, `gpu_inventory`,
`nvlink_topology`, `pod_gpu_allocation`), test doubles, tracing identifiers,
metrics that nothing reads, the DCGM client, which connects to nothing. They
are text, constants or I/O without state.

What could be added: an abstract specification of starting and stopping that
the recorder and both watchers implement; a model with metric time for the retries
of the HTTP client against the write timeout of the server.

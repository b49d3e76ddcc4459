-------------------------------- MODULE Reports --------------------------------
(***************************************************************************)
(* The tools that turn what was observed into advice, one question after   *)
(* the other: the health of the GPUs, the cluster's inventory, and why a   *)
(* pod failed.  Each answer is final; only get_incident_report remembers.  *)
(*                                                                         *)
(* The constants are the observations to ask about.                        *)
(***************************************************************************)
EXTENDS FailureTools

CONSTANTS Nodes,      \* lists of readings, as GpuHealth!Handle takes them
          Answers,    \* results of the router, as Proxy!Handle takes them
          Clusters,   \* what the API server may say of the nodes
          Texts,      \* sequences of JSON objects, as Proxy!Scan reads them
          Recordings, \* what NodeTools!Timeline reads
          Requests,   \* the arguments of get_gpu_timeline
          Worlds,     \* what the watchers and the recorder may hold
          Triggers,   \* critical events that start a correlation
          Pods        \* pods to explain

Health == INSTANCE GpuHealth
Gateway == INSTANCE Proxy
Node == INSTANCE NodeTools

(***************************************************************************)
(* The logs are as the watchers and the recorder keep them: XID events in  *)
(* the order of the kernel log and snapshots in the order of sampling.     *)
(* Kubernetes events come in any order.                                    *)
(***************************************************************************)
Event(types) ==
    [type : types, time : Int, what : STRING, message : STRING, pod : Nat, node : STRING]
Snapshot ==
    [type : {"gpu"}, time : Int, gpu : STRING, temp : Nat, threshold : Nat,
     throttling : SUBSET STRING, correctable : Nat, uncorrectable : Nat, memory : Nat,
     pods : SUBSET Nat]
World == [xid : Seq(Event({"xid"})), k8s : Seq(Event({"k8s"})),
          timelines : Seq(Seq(Snapshot)), now : Int]

Sorted(log) == \A i, j \in DOMAIN log : i < j => log[i].time <= log[j].time

InOrder(world) ==
    Sorted(world.xid) /\ \A g \in DOMAIN world.timelines : Sorted(world.timelines[g])

Run == [reason : STRING, message : STRING, code : Int, time : Int] \cup {Running}
Container == [now : Run, last : Run]
Pod == [name : Nat, node : STRING, phase : STRING, reason : STRING, message : STRING,
        since : Int, init : Seq(Container), containers : Seq(Container)]

\* What the recorder holds of each GPU, and the XIDs.
Sampled == [time : Int, index : Nat, temp : Int, throttling : SUBSET STRING]
Reported == [time : Int, what : STRING, gpu : STRING]

IsRecording(recording) ==
    /\ recording.now \in Int
    /\ recording.xid \in Seq(Reported) /\ Sorted(recording.xid)
    /\ \A gpu \in DOMAIN recording.tracked :
         recording.tracked[gpu] \in Seq(Sampled) /\ Sorted(recording.tracked[gpu])

\* What the API server may say of a node.
IsNode(k) ==
    /\ {k.capacity, k.allocatable} \subseteq Nat
    /\ IsFiniteSet(k.pods) /\ \A pod \in k.pods : pod.gpus \in Nat

(***************************************************************************)
(* JSON objects by their braces, told without reading them from the left:  *)
(* a character is escaped behind an odd number of backslashes in a row and *)
(* quoted behind an odd number of quotes that are not escaped.             *)
(***************************************************************************)
Backslashes(text, i) ==
    LET others == {j \in 1..(i - 1) : text[j] # "backslash"}
    IN  IF others = {} THEN i - 1 ELSE i - 1 - Max(others)

Escaped(text, i) == Backslashes(text, i) % 2 = 1

Quoted(text, i) ==
    Cardinality({j \in 1..(i - 1) : text[j] = "quote" /\ ~Escaped(text, j)}) % 2 = 1

Braces(text, brace, i) ==
    Cardinality({j \in 1..i : text[j] = brace /\ ~Quoted(text, j)})

Depth(text, i) == Braces(text, "open", i) - Braces(text, "close", i)

IsObject(text) ==
    /\ text # <<>> /\ text[1] = "open"
    /\ \A i \in DOMAIN text :
         /\ text[i] = "backslash" => Quoted(text, i)
         /\ Depth(text, i) >= 0
         /\ Depth(text, i) = 0 <=> i = Len(text)

ASSUME ReportsAssumption ==
    /\ Nodes \subseteq Seq(Health!Reading \cup {Health!Missing})
    /\ \A cluster \in Clusters :
         /\ \A node \in DOMAIN cluster : IsNode(cluster[node])
         /\ \A results \in Answers :
              /\ IsFiniteSet(DOMAIN results)
              /\ \A i \in DOMAIN results : results[i].node \in DOMAIN cluster
    /\ Texts \subseteq Seq(Seq(Gateway!Char))
    /\ \A text \in UNION {ToSet(texts) : texts \in Texts} : IsObject(text)
    /\ \A recording \in Recordings : IsRecording(recording)
    /\ \A world \in Worlds : world \in World /\ InOrder(world)
    /\ Triggers \subseteq Event({"xid", "k8s"})
    /\ Pods \subseteq Pod

VARIABLES observed,       \* what there is to ask about
          answer,         \* the last question with its answer
          incidentCache   \* the incidents get_incident_report has reported

vars == <<observed, answer, incidentCache>>

Init ==
    /\ observed \in [of : {"gpus"}, devices : Nodes]
                    \cup [of : {"agents"}, results : Answers, cluster : Clusters]
                    \cup [of : {"output"}, texts : Texts]
                    \cup [of : {"recording"}, recording : Recordings]
                    \cup [of : {"events"}, world : Worlds]
    /\ answer = [tool |-> "none"]
    /\ incidentCache = {}

AskHealth(counted, ended) ==
    /\ observed.of = "gpus"
    /\ answer' = [tool |-> "get_gpu_health", ended |-> ended,
                  response |-> Health!Handle(counted, observed.devices, ended)]
    /\ UNCHANGED <<observed, incidentCache>>

AskAgents(tool, allowed, routed, wanted) ==
    /\ observed.of = "agents"
    /\ answer' = [tool |-> tool,
                  response |-> Gateway!Handle(tool, allowed, routed, observed.results,
                                              observed.cluster, wanted)]
    /\ UNCHANGED <<observed, incidentCache>>

\* k: what the API server says of the node.
DescribeNode(counted, k, ended) ==
    /\ observed.of = "gpus"
    /\ answer' = [tool |-> "describe_gpu_node", k |-> k,
                  response |-> Node!Describe(counted, observed.devices,
                                             Health!Missing, k, ended)]
    /\ UNCHANGED <<observed, incidentCache>>

AskTimeline(request, ended) ==
    /\ observed.of = "recording"
    /\ \E response \in Node!Timeline(request, observed.recording, ended) :
          answer' = [tool |-> "get_gpu_timeline", request |-> request,
                     response |-> response]
    /\ UNCHANGED <<observed, incidentCache>>

\* A one-shot agent's output reaches the gateway.
ReadAgent ==
    /\ observed.of = "output"
    /\ answer' = [tool |-> "exec",
                  objects |-> Gateway!SplitJSONObjects(Gateway!Framed(observed.texts))]
    /\ UNCHANGED <<observed, incidentCache>>

\* A watcher's critical event: the callback of Monitor!Correlate.
\* whole: whether the incident is made of all that was observed.
AutoCorrelate(trigger, cut) ==
    /\ observed.of = "events"
    /\ \E incident \in Correlate(trigger, observed.world, cut) :
          answer' = [tool |-> "callback", incident |-> incident, whole |-> cut = Whole,
                     report |-> Analyzer!Analyze(incident)]
    /\ UNCHANGED <<observed, incidentCache>>

ExplainPod(pod, found, correlating, cut) ==
    LET incidents == Incidents(pod, found, correlating, observed.world, cut)
    IN  /\ observed.of = "events"
        /\ \/ \E incident \in incidents :
                 answer' = [tool |-> "explain_failure", incident |-> incident,
                            whole |-> correlating /\ cut = Whole,
                            report |-> ExplainFailure(pod, incident)]
           \/ incidents = {} /\ answer' = ToolError
        /\ UNCHANGED <<observed, incidentCache>>

\* Everything the recorder holds.
Recorded == FlattenSeq(observed.world.timelines)

ReportPod(pod, found, correlating, cut, recording) ==
    LET incidents == Incidents(pod, found, correlating, observed.world, cut)
    IN  /\ observed.of = "events"
        /\ \/ \E incident \in incidents :
                 /\ answer' = [tool |-> "get_incident_report", incident |-> incident,
                               whole |-> correlating /\ cut = Whole,
                               report |-> IncidentReport(incident, recording, Recorded,
                                                         TRUE, TRUE)]
                 /\ incidentCache' = incidentCache \cup {incident}
           \/ /\ incidents = {}
              /\ answer' = ToolError
              /\ UNCHANGED incidentCache
        /\ UNCHANGED observed

\* A report by the ID of an earlier one: nothing is correlated again.
ReportID(recording, withSnapshots, withEvents) ==
    /\ \E incident \in incidentCache :
          answer' = [tool |-> "get_incident_report", incident |-> incident,
                     whole |-> FALSE,
                     report |-> IncidentReport(incident, recording, Recorded,
                                               withSnapshots, withEvents)]
    /\ UNCHANGED <<observed, incidentCache>>

(***************************************************************************)
(* One question, and then what its report remembered: two questions share  *)
(* nothing else.  Cuts: how many batches a context may survive.  A small   *)
(* world is enough for the questions with more arguments.                  *)
(***************************************************************************)
Cuts == {Whole, 0, 1, 2}
MaxSize == 1

\* The points at which a context may have ended, of those up to last.
Never == 100
Ends(last) == {Never} \cup 0..last

KnownNodes == UNION {Range(cluster) : cluster \in Clusters}

Small(world) == Len(world.xid) + Len(world.k8s) <= MaxSize /\ Len(Recorded) <= MaxSize

Ask ==
    \/ AskHealth(FALSE, 0)
    \/ /\ observed.of = "gpus"
       /\ \E ended \in 0..(2 * Len(observed.devices) + 1) : AskHealth(TRUE, ended)
    \/ \E tool \in {"get_gpu_inventory", "describe_gpu_node"},
          allowed, routed, wanted \in BOOLEAN : AskAgents(tool, allowed, routed, wanted)
    \/ /\ observed.of = "gpus"
       /\ \E k \in KnownNodes :
             \/ DescribeNode(FALSE, k, Never)
             \/ \E ended \in Ends(Len(observed.devices) + 3 + Cardinality(k.pods)) :
                   DescribeNode(TRUE, k, ended)
    \/ \E request \in Requests, ended \in Ends(3) : AskTimeline(request, ended)
    \/ ReadAgent
    \/ \E trigger \in Triggers, cut \in Cuts : AutoCorrelate(trigger, cut)
    \/ \E pod \in Pods : ExplainPod(pod, TRUE, TRUE, Whole)
    \/ /\ observed.of = "events" /\ Small(observed.world)
       /\ \E pod \in Pods, found, correlating, recording \in BOOLEAN, cut \in Cuts :
             \/ ExplainPod(pod, found, correlating, cut)
             \/ ReportPod(pod, found, correlating, cut, recording)

AskAgain ==
    \E recording, withSnapshots, withEvents \in BOOLEAN :
        ReportID(recording, withSnapshots, withEvents)

Next ==
    \/ answer.tool = "none" /\ Ask
    \/ answer.tool = "get_incident_report" /\ AskAgain

Spec == Init /\ [][Next]_vars
--------------------------------------------------------------------------------
(***************************************************************************)
(* Health.  The penalties and bounds of gpu_health.go overlap and depend   *)
(* on limits that the device reports: a reading that is worse in one       *)
(* respect never scores better or gets a milder status, from either tool.  *)
(***************************************************************************)
Rank == [healthy |-> 1, warning |-> 2, degraded |-> 3, critical |-> 4]

Worse(r) ==
    {w \in {[r EXCEPT !.temperature = @ + 1], [r EXCEPT !.temperature = @ + 9],
            [r EXCEPT !.memory = @ + 5], [r EXCEPT !.power = @ + 5],
            [r EXCEPT !.uncorrectable = @ + 1],
            [r EXCEPT !.correctable = @ + 1000]} :
        \A field \in {"temperature", "memory", "power", "correctable", "uncorrectable"} :
            w[field] # r[field] => r[field] # Health!NoData}
    \cup {[r EXCEPT !.throttle = @ \cup {reason}] :
             reason \in IF r.throttle = Health!NoMask THEN {}
                        ELSE Health!NamedReasons \cup {"idle"}}

HarmIsMonotone ==
    answer.tool = "get_gpu_health" /\ answer.ended = 0 =>
        \A i \in DOMAIN observed.devices :
            LET r == observed.devices[i]
                before == Health!collectGPUHealth(r, FALSE)
            IN  r # Health!Missing =>
                  \A w \in Worse(r) :
                      LET after == Health!collectGPUHealth(w, FALSE)
                      IN  /\ after.score <= before.score
                          /\ Rank[after.status] >= Rank[before.status]
                          /\ Node!calculateGPUHealthScore(w)
                               <= Node!calculateGPUHealthScore(r)

(***************************************************************************)
(* Whatever the other GPUs report and whichever are missing: a GPU that is *)
(* in danger makes the node critical and the user is told to act, unless   *)
(* the context ended before its metrics were read.                         *)
(***************************************************************************)
InDanger(r) ==
    \/ r.ecc = "enabled" /\ r.uncorrectable > 0
    \/ r.memory >= 95
    \/ r.temperature >= Health!Limit(r.shutdown, 90)
    \/ r.throttle \cap Health!ThermalReasons # {}

DangerIsReported ==
    answer.tool = "get_gpu_health" /\ answer.response # Health!Refused =>
        \A i \in DOMAIN observed.devices :
            LET r == observed.devices[i]
            IN  r # Health!Missing /\ answer.ended > 2 * i /\ InDanger(r) =>
                    /\ answer.response.status = "critical"
                    /\ answer.response.advice = "investigate now"

(***************************************************************************)
(* Gateway.  Objects that agents send one after the other are cut apart as *)
(* they were framed, whatever their strings hold (framing.go:190).         *)
(***************************************************************************)
SplitInvertsFraming == answer.tool = "exec" => answer.objects = observed.texts

(***************************************************************************)
(* When the API server answers every query, the free GPUs are never more   *)
(* than there are nor less than none, of the cluster and of a node that    *)
(* sees all its GPUs: the scheduler never overcommits a node.  Completed   *)
(* pods give theirs back to the cluster (proxy.go:480), but not to the     *)
(* node (describe_gpu_node.go:460).                                        *)
(***************************************************************************)
Scheduled(k) ==
    LET running == {pod \in k.pods : pod.status \notin Gateway!Ended}
    IN  /\ k.found /\ k.listed
        /\ k.allocatable <= k.capacity
        /\ SumFunction([pod \in running |-> pod.gpus]) <= k.allocatable

NothingEnded(k) == \A pod \in k.pods : pod.status \notin Gateway!Ended

AvailabilityIsReal ==
    /\ answer.tool = "get_gpu_inventory"
         /\ answer.response \notin {Gateway!Limited, Gateway!Unrouted}
         /\ (\A node \in DOMAIN observed.cluster : Scheduled(observed.cluster[node])) =>
             answer.response.available \in 0..answer.response.capacity
    /\ "k" \in DOMAIN answer /\ answer.response # Node!Refused
         /\ Scheduled(answer.k) /\ NothingEnded(answer.k)
         /\ answer.response.total = answer.k.capacity =>
             answer.response.available \in 0..answer.response.total
--------------------------------------------------------------------------------
(***************************************************************************)
(* Timelines.  A reader who replays the changes from the first sample on   *)
(* finds every sample throttled as it was, as long as no two samples fall  *)
(* into one second: the changes of one second come in any order            *)
(* (get_gpu_timeline.go:525).  No XID of the GPU within the time asked for *)
(* is left out, whether it came between two samples or before the first.   *)
(***************************************************************************)
Replayed(t, time) ==
    FoldLeft(LAMBDA on, e :
                IF e.key[1] = "throttle" /\ e.time <= time THEN e.key[2] ELSE on,
             t.points[1].throttling, t.events)

Distinct(points) ==
    \A i, j \in DOMAIN points : i # j => points[i].time # points[j].time

ThrottlingReplays ==
    answer.tool = "get_gpu_timeline" =>
        \A t \in ToSet(answer.response) :
            /\ Distinct(t.points) =>
                 \A p \in ToSet(t.points) : Replayed(t, p.time) = p.throttling
            /\ \A e \in ToSet(observed.recording.xid) :
                 e.gpu \in {"", t.gpu}
                   /\ e.time >= observed.recording.now - Node!Duration(answer.request) =>
                      \E i \in DOMAIN t.events :
                          t.events[i].key = <<"xid", e.what, e.time>>
--------------------------------------------------------------------------------
(***************************************************************************)
(* Incidents.  What was there, said without the code's gathering: all that *)
(* happened within the window of the trigger and is still recorded.        *)
(***************************************************************************)
Explained == "whole" \in DOMAIN answer /\ answer.whole

Near(incident, time) ==
    time \in incident.trigger.time - Window .. incident.trigger.time + Window

NearEvents ==
    {answer.incident.trigger}
    \cup {e \in ToSet(observed.world.xid) \cup ToSet(observed.world.k8s) :
             Near(answer.incident, e.time)}

NearSnapshots ==
    {s \in ToSet(Recorded) :
        Near(answer.incident, s.time) /\ s.time >= observed.world.now - Lookback}

(***************************************************************************)
(* The timeline is in the order of time, tells of everything that was      *)
(* there, no later than it happened, and of nothing else.  Only Kubernetes *)
(* events that arrived out of order may be older than the window.          *)
(***************************************************************************)
TimelineIsFaithful ==
    Explained =>
        LET timeline == answer.incident.timeline
            near == {EventEntry(e) : e \in NearEvents}
                    \cup UNION {buildGPUSnapshotEntries(s) : s \in NearSnapshots}
            known == near \cup {EventEntry(e) : e \in ToSet(observed.world.k8s)}
        IN  /\ Sorted(timeline)
            /\ ToSet(timeline) \subseteq
                 IF Sorted(observed.world.k8s) THEN near ELSE known
            /\ \A e \in near : \E i \in DOMAIN timeline :
                 timeline[i].key = e.key /\ timeline[i].time <= e.time

(***************************************************************************)
(* Every link of a causality follows time (correlator.go:538-561): some    *)
(* heat is no younger than some throttling, some throttling or memory      *)
(* error no younger than some XID, and memory exhaustion is not diagnosed  *)
(* beside any sign of broken hardware, in whatever order sort.Slice left   *)
(* equal times.  The two links of a thermal cascade are looked for one by  *)
(* one and need not meet in one throttling: see CascadeIsAChain.           *)
(***************************************************************************)
CausalityFollowsTime ==
    Explained =>
        LET xids == {e.time : e \in {x \in NearEvents : x.type = "xid"}}
            At(Sign(_)) == {s.time : s \in {n \in NearSnapshots : Sign(n)}}
            Precedes(causes, effects) == \E c \in causes, e \in effects : c <= e
            causality == answer.incident.causality
        IN  /\ causality = "thermal_cascade" =>
                  /\ Precedes(At(isHighTemperature), At(IsThrottled))
                  /\ Precedes(At(IsThrottled), xids)
            /\ causality = "memory_failure" => Precedes(At(HasECCErrors), xids)
            /\ causality = "software_oom" =>
                  xids = {} /\ At(HasECCErrors) = {} /\ At(IsThrottled) = {}

(***************************************************************************)
(* A thermal cascade is one chain (correlator.go:128, "temp elevated ->    *)
(* throttle -> XID -> pod failure"): some GPU was hot, then one was        *)
(* throttled, and then came an XID.                                        *)
(***************************************************************************)
CascadeIsAChain ==
    Explained /\ answer.incident.causality = "thermal_cascade" =>
        \E hot, throttled \in NearSnapshots, xid \in NearEvents :
            /\ isHighTemperature(hot) /\ IsThrottled(throttled) /\ xid.type = "xid"
            /\ hot.time <= throttled.time /\ throttled.time <= xid.time

(***************************************************************************)
(* "Not your code" is only said when something near the failure speaks for *)
(* it: an XID, a GPU that is hot, throttled or corrupting memory, or an    *)
(* event about the interconnect.                                           *)
(***************************************************************************)
BlameIsSupported ==
    Explained /\ answer.report.rootCause.notYourCode =>
        \/ \E e \in NearEvents : e.type = "xid"
        \/ \E s \in NearSnapshots : s.temp > 82 \/ IsThrottled(s) \/ s.uncorrectable > 0
        \/ \E e \in NearEvents \cup ToSet(observed.world.k8s) :
              {e.what, e.message} \cap {"NVLink", "interconnect"} # {}

(***************************************************************************)
(* A pod killed for its memory on clean hardware gets exactly that verdict *)
(* from the correlator, the analyzer and the explainer, at full strength   *)
(* of the three indicators that do not depend on the GPU's memory: the     *)
(* reason says so, whatever the messages of the events around it contain.  *)
(***************************************************************************)
CleanOomIsTheCode ==
    Explained
        /\ (\E e \in NearEvents : e.type = "k8s" /\ e.what = "OOMKilled")
        /\ (\A e \in NearEvents : e.type # "xid")
        /\ (\A s \in NearSnapshots : ~IsThrottled(s) /\ ~HasECCErrors(s)) =>
            /\ answer.incident.causality = "software_oom"
            /\ answer.report.rootCause.category = "software_oom"
            /\ answer.report.rootCause.confidence >= 70
================================================================================

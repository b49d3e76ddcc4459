------------------------------- MODULE NodeTools -------------------------------
(***************************************************************************)
(* What an agent tells of its own node: the history of its GPUs            *)
(* (pkg/tools/get_gpu_timeline.go) and the node with its GPUs and pods     *)
(* (pkg/tools/describe_gpu_node.go).                                       *)
(*                                                                         *)
(* Of a sample the timeline needs [time, index, temp, throttling], of an   *)
(* XID event [time, what, gpu].  Time is in ticks.  Arguments that a       *)
(* request leaves out are not in its domain.                               *)
(***************************************************************************)
EXTENDS Correlation

Second == 2        \* ticks
DefaultTimelineDuration == 30 * 60 * Second
MaxTimelineDuration == 24 * 60 * 60 * Second

Duration(request) ==
    IF "duration" \in DOMAIN request THEN request.duration
    ELSE DefaultTimelineDuration

parseArgs(request) ==
    /\ "gpu_index" \in DOMAIN request => request.gpu_index >= 0
    /\ Duration(request) \in 1..MaxTimelineDuration

AllGPUs == "all"
NoGPU == "none"

\* devices: the GPUs in NVML's order, none of them when it does not answer.
resolveGPUUUID(request, devices, tracked) ==
    CASE "gpu_uuid" \in DOMAIN request ->
           IF request.gpu_uuid \in DOMAIN tracked THEN request.gpu_uuid ELSE NoGPU
      [] "gpu_uuid" \notin DOMAIN request /\ "gpu_index" \in DOMAIN request ->
           IF request.gpu_index < Len(devices) THEN devices[request.gpu_index + 1]
           ELSE NoGPU
      [] OTHER -> AllGPUs
--------------------------------------------------------------------------------
\* The temperature stands for the four metrics.
computeStatistics(snapshots) ==
    LET temps == {s.temp : s \in ToSet(snapshots)}
        sum == FoldLeft(LAMBDA total, s : total + s.temp, 0, snapshots)
    IN  [min |-> Min(temps), max |-> Max(temps), avg |-> sum \div Len(snapshots)]

\* A response about a GPU without samples names the GPU of index 0.
buildResponse(gpu, snapshots, devices, withStats) ==
    LET index == IF snapshots = <<>> THEN 0 ELSE snapshots[1].index
    IN  [gpu |-> gpu, index |-> index,
         name |-> IF index < Len(devices) THEN devices[index + 1] ELSE "",
         interval |-> IF Len(snapshots) < 2 THEN 0
                      ELSE snapshots[2].time - snapshots[1].time,
         points |-> [i \in DOMAIN snapshots |->
                       [time |-> snapshots[i].time \div Second,
                        throttling |-> IsThrottled(snapshots[i])]],
         statistics |-> IF withStats /\ snapshots # <<>>
                        THEN computeStatistics(snapshots) ELSE <<>>,
         events |-> <<>>]

\* A fault: every sample is compared with the first.
detectThrottlingTransitionsFromFirst(snapshots) ==
    {Entry(snapshots[i].time \div Second, <<"throttle", IsThrottled(snapshots[i]), i>>) :
        i \in {j \in 2..Len(snapshots) :
                 IsThrottled(snapshots[j]) # IsThrottled(snapshots[1])}}

\* Key: the type, the new state, and the sample, which keeps entries apart.
detectThrottlingTransitions(snapshots) ==
    {Entry(snapshots[i].time \div Second, <<"throttle", IsThrottled(snapshots[i]), i>>) :
        i \in {j \in 2..Len(snapshots) :
                 IsThrottled(snapshots[j]) # IsThrottled(snapshots[j - 1])}}

\* Ordered by the second: whatever happened within one may come in any order.
extractEvents(snapshots, gpu, xid, since) ==
    LET Concerns(e) == e.gpu \in {"", gpu}
        events == {e \in ToSet(Since(xid, since)) : Concerns(e)}
    IN  SortedByTime({Entry(e.time \div Second, <<"xid", e.what, e.time>>) : e \in events}
                     \cup detectThrottlingTransitions(snapshots))

GetTimeline(gpu, request, recording) ==
    Since(recording.tracked[gpu], recording.now - Duration(request))

\* The possible responses about one GPU.
handleSingleGPU(gpu, request, recording) ==
    LET snapshots == GetTimeline(gpu, request, recording)
        since == recording.now - Duration(request)
        response == buildResponse(gpu, snapshots, recording.devices, request.include_stats)
    IN  {[response EXCEPT !.events = events] :
            events \in extractEvents(snapshots, gpu, recording.xid, since)}

\* All GPUs with samples, ordered by their indices, which differ.
handleAllGPUs(request, recording, ended) ==
    LET Recent(gpu) == GetTimeline(gpu, request, recording)
        Responses(gpu) == handleSingleGPU(gpu, request, recording)
        some == {gpu \in DOMAIN recording.tracked : Recent(gpu) # <<>>}
        order == SetToSortSeq(some, LAMBDA a, b : Recent(a)[1].index < Recent(b)[1].index)
    IN  IF some = {} \/ ended <= Cardinality(some) THEN {<<>>}
        ELSE {answer \in [DOMAIN order -> UNION {Responses(gpu) : gpu \in some}] :
                \A i \in DOMAIN order : answer[i] \in Responses(order[i])}

(***************************************************************************)
(* The possible answers of get_gpu_timeline, none for an error.  The       *)
(* context is asked at point 0 and before each of several GPUs; it has     *)
(* ended at point `ended` and after it.                                    *)
(* recording: whether the recorder runs, NVML's devices, the samples of    *)
(* every tracked GPU, the XID events, and the time.                        *)
(***************************************************************************)
Timeline(request, recording, ended) ==
    LET gpu == resolveGPUUUID(request, recording.devices, recording.tracked)
    IN  IF ended = 0 \/ ~recording.running \/ ~parseArgs(request) THEN {<<>>}
        ELSE IF gpu = AllGPUs THEN handleAllGPUs(request, recording, ended)
        ELSE IF gpu \in DOMAIN recording.tracked
             THEN {<<r>> : r \in handleSingleGPU(gpu, request, recording)}
        ELSE {<<>>}
--------------------------------------------------------------------------------
(***************************************************************************)
(* describe_gpu_node scores the readings of GpuHealth once more, by other  *)
(* bounds.  A query that failed reads as zero.                             *)
(***************************************************************************)
tempThresholdWarning == 80
maxTempPenalty == 30
memoryPressureThreshold == 90

calculateGPUHealthScore(r) ==
    LET above == Max({0, r.temperature - tempThresholdWarning})
        memory == IF r.memory > memoryPressureThreshold THEN 10 ELSE 0
        ecc == IF r.ecc = "enabled" /\ r.uncorrectable > 0 THEN 20 ELSE 0
    IN  Max({0, 100 - Min({2 * above, maxTempPenalty}) - memory - ecc})

calculateOverallHealth(scores) ==
    LET avgScore == FoldLeft(+, 0, scores) \div Len(scores)
    IN  IF scores = <<>> THEN "unknown"
        ELSE IF avgScore >= 90 THEN "healthy"
        ELSE IF avgScore >= 70 THEN "degraded"
        ELSE "critical"

\* Missing devices are skipped, and all from the end of the context on.
collectGPUInfo(counted, devices, missing, ended) ==
    LET present == SelectSeq([i \in DOMAIN devices |-> i],
                             LAMBDA i : i < ended /\ devices[i] # missing)
    IN  IF ~counted THEN <<>>
        ELSE [k \in DOMAIN present |-> calculateGPUHealthScore(devices[present[k]])]

\* Unlike the gateway's inventory, this one counts pods that have ended.
getPodsSummary(k) == SumFunction([pod \in k.pods |-> pod.gpus])

Refused == [status |-> "error"]

(***************************************************************************)
(* The context is asked before every device, by both requests to the API   *)
(* server, and before every pod; only there does its end fail the call.    *)
(* k: what the API server says of the node, as Proxy has it.               *)
(***************************************************************************)
Describe(counted, devices, missing, k, ended) ==
    LET last == Len(devices)
        scores == collectGPUInfo(counted, devices, missing, ended)
        found == k.found /\ ended > last + 1
        listed == k.listed /\ ended > last + 2
        total == IF scores = <<>> /\ found THEN k.capacity ELSE Len(scores)
        allocated == IF listed THEN getPodsSummary(k) ELSE 0
    IN  IF listed /\ ended <= last + 2 + Cardinality(k.pods) THEN Refused
        ELSE [status |-> IF found THEN "success" ELSE "partial",
              total |-> total, allocated |-> allocated, available |-> total - allocated,
              health |-> calculateOverallHealth(scores)]
================================================================================

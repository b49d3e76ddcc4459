------------------------------- MODULE MCReports -------------------------------
(* Observations on either side of every bound of the tools. *)
EXTENDS Reports

Reading(t, m, p, reasons, ecc) ==
    [temperature |-> t.now, slowdown |-> t.slowdown, shutdown |-> t.shutdown,
     memory |-> m, power |-> p, throttle |-> reasons,
     ecc |-> ecc.mode, correctable |-> ecc.correctable,
     uncorrectable |-> ecc.uncorrectable, util |-> 50]

Thermals ==
    [now : {-1, 74, 84, 91}, slowdown : {0, 85}, shutdown : {0}]
    \cup [now : {6, 95}, slowdown : {5}, shutdown : {95}]
Masks == {Health!NoMask, {}, {"idle"}, {"app_clocks"}}
EccCounts(c, u) == [mode |-> "enabled", correctable |-> c, uncorrectable |-> u]
Eccs == {EccCounts(c, u) : c \in {-1, 0, 1001}, u \in {-1, 0}}
            \cup {[mode |-> "disabled", correctable |-> 0, uncorrectable |-> 0]}

\* One GPU of every kind, and a few kinds beside each other.
Singles ==
    {Reading(t, m, p, reasons, ecc) :
        t \in Thermals, m \in {-1, 79, 90, 95}, p \in {50, 96, 101},
        reasons \in Masks, ecc \in Eccs}
Cool == [now |-> 40, slowdown |-> 85, shutdown |-> 95]
Kinds ==
    {Reading(Cool, 50, 50, {}, EccCounts(0, 0)),
     Reading([Cool EXCEPT !.now = 96], 50, 50, {}, EccCounts(0, 0)),
     Reading([Cool EXCEPT !.now = 86], 91, 50, {}, EccCounts(0, 0)),
     Reading(Cool, 50, 50, {"hw_thermal"}, EccCounts(0, 0)),
     Reading(Cool, 50, 50, {}, EccCounts(-1, 1)),
     Health!Missing}
MCNodes == {<<>>} \cup {<<r>> : r \in Singles}
               \cup (Kinds \X Kinds) \cup (Kinds \X Kinds \X Kinds)
--------------------------------------------------------------------------------
Inventory(n) == [kind |-> "value", value |-> [devices |-> [i \in 1..n |-> "A100"]]]
Message(kind) == [kind |-> kind]
Responses ==
    {<<>>, <<Inventory(2)>>, <<Message("noise"), Inventory(2)>>,
     <<Message("empty"), Inventory(1)>>, <<Message("empty"), Message("tool_error")>>,
     <<Message("rpc_error")>>, <<Message("empty")>>, <<Message("noise")>>}
Result(node, failed, response) ==
    [node |-> node, failed |-> failed, response |-> response]
Results(node) ==
    {Result(node, FALSE, response) : response \in Responses}
    \cup {Result(node, TRUE, <<>>)}
MCAnswers ==
    {<<r>> : r \in Results("n1")} \cup (Results("n1") \X Results("n2"))
    \cup {<<a, b, b>> : a \in Results("n1"), b \in Results("n2")}

ClusterPod(name, status, gpus) == [name |-> name, status |-> status, gpus |-> gpus]
K8sNode(found, listed, allocatable, pods) ==
    [found |-> found, listed |-> listed, capacity |-> 4,
     allocatable |-> allocatable, pods |-> pods]
K8sNodes ==
    {K8sNode(FALSE, FALSE, 0, {}), K8sNode(TRUE, FALSE, 1, {}),
     K8sNode(TRUE, TRUE, 3, {ClusterPod("p", "Running", 2), ClusterPod("q", "Pending", 1)}),
     K8sNode(TRUE, TRUE, 4, {ClusterPod("p", "Running", 4), ClusterPod("q", "Succeeded", 4)}),
     K8sNode(TRUE, TRUE, 2, {ClusterPod("p", "Pending", 1), ClusterPod("q", "Failed", 2)})}
MCClusters == [{"n1", "n2"} -> K8sNodes]

Tokens ==
    {<<"x">>, <<"space">>, <<"open", "close">>,
     <<"quote", "open", "quote">>, <<"quote", "close", "quote">>,
     <<"quote", "backslash", "quote", "open", "quote">>,
     <<"quote", "backslash", "backslash", "quote">>,
     <<"open", "quote", "close", "quote", "x", "close">>}
Objects == {<<"open">> \o a \o b \o <<"close">> : a, b \in Tokens}
MCTexts == {<<>>} \cup {<<a>> : a \in Objects} \cup (Objects \X Objects)
--------------------------------------------------------------------------------
Xid(code, time) ==
    [type |-> "xid", time |-> time, what |-> code, message |-> "",
     pod |-> NoPod, node |-> "gpu1"]
K8s(reason, message, time, pod) ==
    [type |-> "k8s", time |-> time, what |-> reason, message |-> message,
     pod |-> pod, node |-> "n1"]
Seen(time, temp, threshold, mask, c, u, memory) ==
    [type |-> "gpu", time |-> time, gpu |-> "gpu1", temp |-> temp,
     threshold |-> threshold, throttling |-> mask, correctable |-> c,
     uncorrectable |-> u, memory |-> memory, pods |-> {3}]

XidEvents == {Xid("79", -1), Xid("79", 1), Xid("13", -1), Xid("13", 0),
              Xid("48", -2), Xid("48", 0)}
\* The reason and the message need not say the same.
K8sEvents ==
    {K8s("OOMKilled", "", -1, 2), K8s("OOMKilled", "NVLink", 0, 1),
     K8s("Evicted", "OOMKilled", -2, 2), K8s("Failed", "NVLink", 1, 2),
     K8s("OOMKilled", "OOMKilled", 2, 2)}
Snapshots ==
    UNION {{Seen(t, 50, 85, {}, 0, 0, 50), Seen(t, 80, 85, {}, 0, 0, 96),
            Seen(t, 50, 85, {"idle"}, 0, 0, 50),
            Seen(t, 90, 0, {"hw_thermal"}, 0, 0, 50),
            Seen(t, 50, 5, {}, 1, 0, 50), Seen(t, 50, 85, {}, 0, 1, 96)} :
               t \in {-1, 0}}
    \cup {Seen(-2, 90, 85, {"hw_thermal"}, 0, 1, 96)}

SortedOf(logs) == {log \in logs : Sorted(log)}
XidLogs(n) == SortedOf([1..n -> XidEvents])
K8sLogs(n) == [1..n -> K8sEvents]
Timelines(n) ==
    {<<t>> : t \in SortedOf([1..n -> Snapshots])}
    \cup IF n # 2 THEN {}
         ELSE {<<<<a>>, <<[b EXCEPT !.gpu = "gpu2"]>>>> : a, b \in Snapshots}

\* At most two of a kind and three in all.
MCWorlds ==
    UNION {[xid : XidLogs(s[1]), k8s : K8sLogs(s[2]), timelines : Timelines(s[3]),
            now : IF s[1] + s[2] + s[3] = 1 THEN {2, 4} ELSE {2}] :
               s \in {t \in (0..2) \X (0..2) \X (0..2) : t[1] + t[2] + t[3] <= 3}}


Sample(index, time, mask) ==
    [time |-> time, index |-> index, temp |-> 40 + time, throttling |-> mask]
Histories(index) ==
    {<<>>, <<Sample(index, 3, {"hw_thermal"})>>, <<Sample(index, -1, {}),
     Sample(index, 1, {"idle"})>>}
\* A sample every half second, second, and with a gap.
LongHistories ==
    {[i \in 1..4 |-> Sample(0, times[i], masks[i])] :
        times \in {<<1, 2, 3, 4>>, <<0, 2, 4, 6>>, <<-9, 2, 5, 7>>},
        masks \in [1..4 -> {{}, {"hw_thermal"}}]}
XidHistories ==
    {<<>>} \cup {<<[time |-> time, what |-> "79", gpu |-> gpu]>> :
                    time \in {1, 2, 5}, gpu \in {"", "gpu1", "gpu2"}}
MCRecordings ==
    [running : {TRUE}, devices : {<<"gpu1", "gpu2">>, <<>>}, now : {7},
     tracked : {[gpu1 |-> a, gpu2 |-> b] : a \in LongHistories, b \in Histories(1)}
               \cup {[gpu1 |-> <<>>, gpu2 |-> b] : b \in Histories(1)},
     xid : XidHistories]
    \cup [running : {FALSE}, devices : {<<>>}, now : {7}, tracked : {<<>>}, xid : {<<>>}]

Asked(arguments) == arguments @@ [include_stats |-> TRUE]
MCRequests ==
    {[include_stats |-> FALSE], Asked([duration |-> 6]), Asked([duration |-> 0]),
     Asked([duration |-> Node!MaxTimelineDuration + 1]),
     Asked([gpu_uuid |-> "gpu2"]), Asked([gpu_uuid |-> "gpu9"])}
    \cup {Asked([gpu_index |-> i]) : i \in {-1, 0, 1, 2}}

MCTriggers == {Xid("79", 0), Xid("13", 0)}
Ended(reason, code, time) ==
    [reason |-> reason, message |-> "", code |-> code, time |-> time]
AnyPod == [name |-> 1, node |-> "n1", phase |-> "Running", reason |-> "",
           message |-> "", since |-> 0, init |-> <<>>,
           containers |-> <<[now |-> Running, last |-> Running]>>]
MCPods ==
    {AnyPod,
     [AnyPod EXCEPT !.phase = "Failed", !.reason = "Evicted", !.message = "OOMKilled"],
     [AnyPod EXCEPT !.init = <<[now |-> Ended("Error", 1, 0), last |-> Running]>>],
     [AnyPod EXCEPT !.name = 4,
        !.containers = <<[now |-> Running, last |-> Ended("OOMKilled", 137, 0)]>>]}
================================================================================

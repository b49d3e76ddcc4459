------------------------------ MODULE FailureTools ------------------------------
(***************************************************************************)
(* The tools that explain why a pod failed (pkg/tools: pod_failure.go,     *)
(* explain_failure.go, get_incident_report.go).                            *)
(*                                                                         *)
(* A pod is [name, node, phase, reason, message, since, init, containers]: *)
(* since is the time of its Ready condition or of its creation, the        *)
(* containers are sequences of [now, last], each the termination [reason,  *)
(* message, code, time] of the current or previous run, or Running.        *)
(***************************************************************************)
EXTENDS Correlation

Analyzer == INSTANCE Analysis

Running == [code |-> 0]
NoFailure == [what |-> "none"]

PodFailure(of, time) == [what |-> of.reason, message |-> of.message, time |-> time]

\* The terminations in the order in which ExtractPodFailure looks for one.
Terminations(pod) ==
    LET Runs(containers, run) == [i \in DOMAIN containers |-> containers[i][run]]
        Failed(t) == t # Running /\ t.code # 0
        Counts(t) == t # Running /\ (t.reason = "OOMKilled" \/ t.code # 0)
        current == Runs(pod.init, "now") \o Runs(pod.containers, "now")
        previous == Runs(pod.containers, "last")
    IN  Items(current, {i \in DOMAIN current : Failed(current[i])})
        \o Items(previous, {i \in DOMAIN previous : Counts(previous[i])})

\* The phase hides what its containers died of.
ExtractPodFailure(pod) ==
    LET found == Terminations(pod)
    IN  IF pod.phase = "Failed" THEN PodFailure(pod, pod.since)
        ELSE IF found = <<>> THEN NoFailure
        ELSE PodFailure(found[1], found[1].time)

buildTriggerEvent(pod, failure) ==
    [type |-> "k8s", time |-> failure.time, what |-> failure.what,
     message |-> failure.message, pod |-> pod.name, node |-> pod.node]

\* The incident of a tool without a correlator.
buildMinimalIncident(trigger) ==
    [trigger |-> trigger, related |-> <<>>, snapshots |-> <<>>,
     timeline |-> <<EventEntry(trigger)>>,
     pods |-> (trigger.pod :> trigger.what), causality |-> "unknown"]

ToolError == [tool |-> "error"]

\* found: whether the API server returned the pod.
Incidents(pod, found, correlating, world, cut) ==
    LET failure == ExtractPodFailure(pod)
        trigger == buildTriggerEvent(pod, failure)
    IN  IF ~found \/ failure = NoFailure THEN {}
        ELSE IF correlating THEN Correlate(trigger, world, cut)
        ELSE {buildMinimalIncident(trigger)}

\* explain_failure names the failed pod whatever the incident contains.
ExplainFailure(pod, incident) ==
    LET report == Analyzer!Analyze(incident)
    IN  [pod |-> pod.name, node |-> pod.node,
         rootCause |-> report.rootCause, gpu |-> report.gpu,
         explanation |-> Analyzer!GenerateExplanation(incident),
         timeline |-> incident.timeline, hardware |-> report.hardware]

calculateAnalysisDuration(incident) ==
    LET t == incident.timeline
    IN  IF Len(t) < 2 \/ t[1].time = Last(t).time THEN "default"
        ELSE Last(t).time - t[1].time

\* get_incident_report takes the pod from the incident, and the node from its
\* trigger.  recorded: all that the recorder holds, or what it gives without one.
IncidentReport(incident, recording, recorded, withSnapshots, withEvents) ==
    LET report == Analyzer!Analyze(incident)
        Of(type) == Analyzer!EventsOf(incident, type)
    IN  [pod |-> report.pod,
         node |-> IF incident.trigger.type = "k8s" /\ report.pod # NoPod
                  THEN incident.trigger.node ELSE "",
         rootCause |-> report.rootCause, gpu |-> report.gpu,
         explanation |-> Analyzer!GenerateExplanation(incident),
         timeline |-> incident.timeline,
         duration |-> calculateAnalysisDuration(incident),
         snapshots |-> IF ~withSnapshots THEN <<>>
                       ELSE IF recording THEN recorded ELSE incident.snapshots,
         events |-> IF withEvents THEN Of("k8s") \o Of("xid") ELSE <<>>]
================================================================================

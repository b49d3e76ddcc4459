-------------------------------- MODULE Analysis --------------------------------
(***************************************************************************)
(* From an incident to its report (pkg/incidents): the analyzer scores the *)
(* known failure patterns, the explainer picks a template.                 *)
(* Weights and confidences are in percent.                                 *)
(***************************************************************************)
EXTENDS Integers, SequencesExt, TLC

Abs(n) == IF n < 0 THEN -n ELSE n

EventsOf(incident, type) ==
    SelectSeq(<<incident.trigger>> \o incident.related, LAMBDA e : e.type = type)

\* extractContext: the worst values of all snapshots, whenever they occurred.
extractContext(incident) ==
    LET snapshots == ToSet(incident.snapshots)
        events == {incident.trigger} \cup ToSet(incident.related)
        Words(type) == {e.what : e \in {x \in events : x.type = type}}
        k8sMessages == {e.message : e \in {x \in events : x.type = "k8s"}}
    IN  [xid |-> Words("xid"),
         k8s |-> Words("k8s") \cup k8sMessages,
         temperature |-> Max({0} \cup {s.temp : s \in snapshots}),
         uncorrectable |-> Max({0} \cup {s.uncorrectable : s \in snapshots}),
         memory |-> Max({0} \cup {s.memory : s \in snapshots}),
         throttling |-> UNION {s.throttling : s \in snapshots},
         causality |-> incident.causality]

\* The indicators that match, by name.
checkIndicator(c) ==
    LET matches ==
            [hot |-> c.temperature > 82,
             throttled |-> c.throttling # {},
             thermal |-> c.causality = "thermal_cascade",
             xid_thermal |-> c.xid \cap {"79", "43"} # {},
             ecc |-> c.uncorrectable > 0,
             xid_memory |-> c.xid \cap {"48", "63", "64", "68", "69", "8", "92"} # {},
             corrupted |-> c.causality = "memory_failure",
             full |-> c.memory > 95,
             oom_killed |-> "OOMKilled" \in c.k8s,
             oom |-> c.causality = "software_oom",
             no_xid |-> c.xid = {},
             xid_nvlink |-> "74" \in c.xid,
             nvlink |-> "NVLink" \in c.k8s,
             interconnect |-> "interconnect" \in c.k8s,
             xid_bus |-> "79" \in c.xid]
    IN  {name \in DOMAIN matches : matches[name]}

Indicator(name, weight) == [name |-> name, weight |-> weight]
Pattern(category, notYourCode, indicators) ==
    [category |-> category, notYourCode |-> notYourCode, indicators |-> indicators]

KnownPatterns ==
    <<Pattern("thermal_cascade", TRUE,
              <<Indicator("hot", 30), Indicator("throttled", 30),
                Indicator("thermal", 25), Indicator("xid_thermal", 15)>>),
      Pattern("ecc_failure", TRUE,
              <<Indicator("ecc", 40), Indicator("xid_memory", 35),
                Indicator("corrupted", 25)>>),
      Pattern("software_oom", FALSE,
              <<Indicator("full", 30), Indicator("oom_killed", 35),
                Indicator("oom", 25), Indicator("no_xid", 10)>>),
      Pattern("nvlink_failure", TRUE,
              <<Indicator("xid_nvlink", 50), Indicator("nvlink", 30),
                Indicator("interconnect", 20)>>),
      Pattern("xid_79_bus_error", TRUE,
              <<Indicator("xid_bus", 70), Indicator("thermal", 15),
                Indicator("throttled", 15)>>)>>

Unknown == [category |-> "unknown", notYourCode |-> FALSE, confidence |-> 0]

evaluatePattern(pattern, matched) ==
    LET Weight(i) == IF pattern.indicators[i].name \in matched
                     THEN pattern.indicators[i].weight ELSE 0
        sum[i \in 0..Len(pattern.indicators)] ==
            IF i = 0 THEN 0 ELSE sum[i - 1] + Weight(i)
    IN  [category |-> pattern.category, notYourCode |-> pattern.notYourCode,
         confidence |-> Min({sum[Len(pattern.indicators)], 100})]

\* The first of the patterns with the highest confidence.
matchPatterns(c) ==
    LET matched == checkIndicator(c)
        results == [i \in DOMAIN KnownPatterns |->
                       evaluatePattern(KnownPatterns[i], matched)]
        best == CHOOSE i \in DOMAIN results : \A j \in DOMAIN results :
                   IF j < i THEN results[j].confidence < results[i].confidence
                   ELSE results[j].confidence <= results[i].confidence
    IN  IF results[best].confidence < 20 THEN Unknown ELSE results[best]
--------------------------------------------------------------------------------
\* Of all elements of a sequence the first that is not "", or "".
FirstNamed(names) ==
    LET named == SelectSeq(names, LAMBDA name : name # "")
    IN  IF named = <<>> THEN "" ELSE named[1]

extractNode(incident) ==
    LET k8s == EventsOf(incident, "k8s")
    IN  FirstNamed([i \in DOMAIN k8s |-> k8s[i].node])

\* An XID event names a GPU in its field node.
extractGPUUUID(incident) ==
    LET xid == SelectSeq(incident.related, LAMBDA e : e.type = "xid")
        Of(e) == IF e.type = "xid" THEN e.node ELSE ""
        first == IF incident.snapshots = <<>> THEN "" ELSE incident.snapshots[1].gpu
    IN  FirstNamed(<<Of(incident.trigger), first>> \o [i \in DOMAIN xid |-> xid[i].node])

\* The first of the snapshots nearest to the trigger.
findClosestSnapshot(snapshots, time) ==
    FoldLeft(LAMBDA best, s : IF Abs(s.time - time) < Abs(best.time - time)
                              THEN s ELSE best,
             snapshots[1], snapshots)

NoSnapshot == [type |-> "none"]

extractHardwareState(incident) ==
    IF incident.snapshots = <<>> THEN NoSnapshot
    ELSE findClosestSnapshot(incident.snapshots, incident.trigger.time)

\* The first affected pod by name, which need not be the trigger's.
ReportedPod(incident) ==
    IF DOMAIN incident.pods = {} THEN 0 ELSE Min(DOMAIN incident.pods)

Analyze(incident) ==
    [rootCause |-> matchPatterns(extractContext(incident)),
     pod |-> ReportedPod(incident),
     node |-> extractNode(incident),
     gpu |-> extractGPUUUID(incident),
     hardware |-> extractHardwareState(incident),
     timeline |-> incident.timeline]
--------------------------------------------------------------------------------
\* The causality alone selects what is said.
selectTemplateKey(causality) ==
    CASE causality = "thermal_cascade" -> "hardware_thermal"
      [] causality = "memory_failure" -> "hardware_memory"
      [] causality = "software_oom" -> "software_oom"
      [] OTHER -> "unknown"

\* From the first to the last throttled snapshot, in the order of gathering.
calculateThrottleDuration(snapshots) ==
    LET throttled == SelectSeq(snapshots, LAMBDA s : s.throttling # {})
    IN  IF throttled = <<>> THEN 0
        ELSE Max({0, Last(throttled).time - throttled[1].time})

extractXIDInfo(incident) ==
    LET xid == EventsOf(incident, "xid")
    IN  IF xid = <<>> THEN "" ELSE xid[1].what

\* What every template may say of the incident.
extractData(incident) ==
    LET node == extractNode(incident)
    IN  [notYourCode |-> incident.causality \in {"thermal_cascade", "memory_failure"},
         pod |-> ReportedPod(incident),
         node |-> IF node = "" THEN "the GPU node" ELSE node,
         xid |-> extractXIDInfo(incident),
         hardware |-> extractHardwareState(incident),
         throttled |-> calculateThrottleDuration(incident.snapshots)]

\* The explanation and its summary (a failing template gives only the node).
GenerateExplanation(incident) ==
    [template |-> selectTemplateKey(incident.causality)] @@ extractData(incident)
================================================================================

------------------------------ MODULE Correlation ------------------------------
(***************************************************************************)
(* One correlation (pkg/events/correlator.go): the XID events, Kubernetes  *)
(* events and GPU snapshots around a trigger become an incident.           *)
(*                                                                         *)
(* An event is [type, time, what, message, pod, node]: type is "xid" or    *)
(* "k8s", what is an XID code or the reason of the Kubernetes event, which *)
(* its message need not repeat.  A message is the word that it contains.   *)
(* A snapshot is [type |-> "gpu", time, gpu, temp, threshold, throttling,  *)
(* correctable, uncorrectable, memory, pods].                              *)
(* Pods are numbered in the order of their names; NoPod is no name.        *)
(***************************************************************************)
EXTENDS Integers, SequencesExt, TLC

CONSTANTS Window,     \* windowSize and the tolerance for skewed clocks
          Lookback    \* how far back the recorder is asked

ASSUME WindowAssumption == Window \in Nat /\ Lookback \in Nat

NoPod == 0
TempThresholdMargin == 10
AbsoluteHighTempThreshold == 85
Word == 2^16          \* uint32; only has to exceed every temperature

IsThrottled(s) == s.throttling # {}
HasECCErrors(s) == s.correctable > 0 \/ s.uncorrectable > 0
isHighTemperature(s) ==
    s.temp >= IF s.threshold = 0 THEN AbsoluteHighTempThreshold
              ELSE (s.threshold - TempThresholdMargin) % Word
--------------------------------------------------------------------------------
\* RingBuffer!Query: the first item that is not too old, and all behind it.
Since(log, start) ==
    LET reached == {i \in DOMAIN log : log[i].time >= start}
    IN  IF reached = {} THEN <<>> ELSE SubSeq(log, Min(reached), Len(log))

\* The items of a sequence at some of its indices, in their order.
Items(s, indices) ==
    LET upTo[i \in 0..Len(s)] ==
            IF i = 0 THEN <<>>
            ELSE IF i \in indices THEN Append(upTo[i - 1], s[i])
            ELSE upTo[i - 1]
    IN  upTo[Len(s)]

UpTo(log, end) == Items(log, {i \in DOMAIN log : log[i].time <= end})

\* A fault: no lower bound.
gatherEventsEver(log, trigger) == UpTo(log, trigger.time + Window)

gatherEvents(log, trigger) ==
    UpTo(Since(log, trigger.time - Window), trigger.time + Window)

gatherGPUSnapshots(timeline, trigger, now) ==
    LET recent == Since(timeline, now - Lookback)
        Outside(s) == s.time < trigger.time - Window \/ s.time > trigger.time + Window
    IN  Items(recent, {i \in DOMAIN recent : ~Outside(recent[i])})

(***************************************************************************)
(* What is gathered between two looks at the context: one event at a time, *)
(* and one GPU's timeline at a time, in the order in which the recorder's  *)
(* map happens to be iterated.                                             *)
(* world: the logs of both watchers, the recorder's timelines and the time.*)
(***************************************************************************)
Batches(world, trigger) ==
    LET events == gatherEvents(world.xid, trigger) \o gatherEvents(world.k8s, trigger)
    IN  [i \in DOMAIN events |-> <<events[i]>>]
        \o [g \in DOMAIN world.timelines |->
              gatherGPUSnapshots(world.timelines[g], trigger, world.now)]
--------------------------------------------------------------------------------
\* key: the type and the description, by which entries are deduplicated.
Entry(time, key) == [time |-> time, key |-> key]
TypeOf(entry) == entry.key[1]

EventEntry(e) == Entry(e.time, <<e.type, e.what, e.pod, e.message>>)

buildGPUSnapshotEntries(s) ==
    {e \in {Entry(s.time, <<"throttle", s.gpu, s.throttling>>),
            Entry(s.time, <<"ecc", s.gpu, s.correctable, s.uncorrectable>>),
            Entry(s.time, <<"temp", s.gpu, s.temp, s.threshold>>)} :
        CASE TypeOf(e) = "throttle" -> IsThrottled(s)
          [] TypeOf(e) = "ecc" -> HasECCErrors(s)
          [] TypeOf(e) = "temp" -> isHighTemperature(s)}

Entries(incident) ==
    {EventEntry(incident.trigger)}
    \cup {EventEntry(e) : e \in ToSet(incident.related)}
    \cup UNION {buildGPUSnapshotEntries(s) : s \in ToSet(incident.snapshots)}

\* sort.Slice is not stable: any order of entries of the same time.
SortedByTime(entries) ==
    LET Earliest(S) == {e \in S : \A other \in S : e.time <= other.time}
        Longer(order) == {Append(order, e) : e \in Earliest(entries \ ToSet(order))}
        Orders[n \in 0..Cardinality(entries)] ==
            IF n = 0 THEN {<<>>} ELSE UNION {Longer(order) : order \in Orders[n - 1]}
    IN  Orders[Cardinality(entries)]

\* A fault: one entry of each type.
deduplicateTimelineByType(entries) ==
    Items(entries, {i \in DOMAIN entries :
                      \A j \in 1..(i - 1) : TypeOf(entries[j]) # TypeOf(entries[i])})

deduplicateTimeline(entries) ==
    Items(entries, {i \in DOMAIN entries :
                      \A j \in 1..(i - 1) : entries[j].key # entries[i].key})

buildTimelines(incident) ==
    {deduplicateTimeline(order) : order \in SortedByTime(Entries(incident))}
--------------------------------------------------------------------------------
\* The affected pods with the reason found first, in the order of the search.
identifyAffectedPods(incident) ==
    LET OfType(type) == SelectSeq(incident.related, LAMBDA e : e.type = type)
        events == <<incident.trigger>> \o OfType("k8s") \o OfType("xid")
        named == SelectSeq(events, LAMBDA e : e.pod # NoPod)
        processes == UNION {s.pods : s \in ToSet(incident.snapshots)}
    IN  FoldLeft(LAMBDA found, e : found @@ (e.pod :> e.what), <<>>, named)
        @@ [pod \in processes |-> "GPU process"]

\* A fault: in any order.
hasSequenceUnordered(timeline, a, b) ==
    \E i, j \in DOMAIN timeline : TypeOf(timeline[i]) = a /\ TypeOf(timeline[j]) = b

\* Whether an entry of type a comes before one of type b.
hasSequence(timeline, a, b) ==
    \E i, j \in DOMAIN timeline :
        i < j /\ TypeOf(timeline[i]) = a /\ TypeOf(timeline[j]) = b

contains(timeline, type) == \E i \in DOMAIN timeline : TypeOf(timeline[i]) = type

Events(incident) == {incident.trigger} \cup ToSet(incident.related)

\* A fault: related events are not asked.
hasOOMEventTrigger(incident) ==
    incident.trigger.type = "k8s" /\ incident.trigger.what = "OOMKilled"

\* The reason decides, whatever the message says.
hasOOMEvent(incident) ==
    \E e \in Events(incident) : e.type = "k8s" /\ e.what = "OOMKilled"

DetectCausality(incident, timeline) ==
    LET hasHardwareEvent ==
            \E type \in {"xid", "ecc", "throttle"} : contains(timeline, type)
    IN  IF hasSequence(timeline, "temp", "throttle")
           /\ hasSequence(timeline, "throttle", "xid") THEN "thermal_cascade"
        ELSE IF hasSequence(timeline, "ecc", "xid") THEN "memory_failure"
        ELSE IF hasOOMEvent(incident) /\ ~hasHardwareEvent THEN "software_oom"
        ELSE "unknown"

(***************************************************************************)
(* The incidents a correlation may return.  cut: how many batches were     *)
(* gathered when the context ended, or Whole when it did not end.          *)
(***************************************************************************)
Whole == -1

Gathered(trigger, world, cut) ==
    LET batches == Batches(world, trigger)
    IN  FlattenSeq(IF cut = Whole THEN batches
                   ELSE SubSeq(batches, 1, Min({cut, Len(batches)})))

PartialIncident(trigger, items) ==
    [trigger |-> trigger,
     related |-> Items(items, {i \in DOMAIN items : items[i].type # "gpu"}),
     snapshots |-> Items(items, {i \in DOMAIN items : items[i].type = "gpu"}),
     timeline |-> <<>>, pods |-> <<>>, causality |-> ""]

Correlate(trigger, world, cut) ==
    LET partial == PartialIncident(trigger, Gathered(trigger, world, cut))
    IN  IF cut # Whole THEN {partial}
        ELSE {[partial EXCEPT !.timeline = timeline,
                              !.pods = identifyAffectedPods(partial),
                              !.causality = DetectCausality(partial, timeline)] :
                  timeline \in buildTimelines(partial)}
================================================================================

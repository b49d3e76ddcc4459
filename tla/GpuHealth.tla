------------------------------- MODULE GpuHealth -------------------------------
(***************************************************************************)
(* The get_gpu_health tool (pkg/tools/gpu_health.go): from the readings of *)
(* every GPU to a verdict about the node.                                  *)
(*                                                                         *)
(* A reading is a record of what NVML answered about one GPU.  A query     *)
(* that failed reads NoData.  Percentages are whole numbers, which is      *)
(* enough to lie on either side of every bound of the code.                *)
(***************************************************************************)
EXTENDS Integers, SequencesExt

NoData == -1
NoMask == {"no data"}
Missing == [missing |-> TRUE]     \* a device that GetDeviceByIndex failed for

Word == 2^16             \* uint32; only has to exceed every temperature

At(bound, status) == [bound |-> bound, status |-> status]

\* The first case of a switch whose bound the value reaches.
Grade(value, cases, otherwise) ==
    LET reached == {i \in DOMAIN cases : value >= cases[i].bound}
    IN  IF value = NoData THEN "unknown"
        ELSE IF reached = {} THEN otherwise
        ELSE cases[Min(reached)].status

\* A limit the device reports, or the default when it reports none.
Limit(real, default) == IF real > 0 THEN real ELSE default

checkTemperature(r) ==
    LET threshold == Limit(r.slowdown, 82)
        maxTemp == Limit(r.shutdown, 90)
        elevated == (threshold - 10) % Word
    IN  Grade(r.temperature,
              <<At(maxTemp, "critical"), At(threshold, "high"),
                At(elevated, "elevated")>>, "normal")

checkMemory(r) ==
    Grade(r.memory, <<At(95, "critical"), At(90, "high"), At(80, "elevated")>>,
          "normal")

\* r.power is a percentage of the limit; 101 is the least that exceeds it.
checkPower(r) ==
    Grade(r.power, <<At(101, "over_limit"), At(95, "high"), At(80, "elevated")>>,
          "normal")

ThermalReasons == {"hw_thermal", "sw_thermal"}
NamedReasons == ThermalReasons \cup
    {"hw_slowdown", "power_cap", "power_brake", "app_clocks", "sync_boost"}

Value == Nat \cup {NoData}
Reading ==
    [temperature : Value, slowdown : Nat, shutdown : Nat, memory : Value, power : Value,
     throttle : SUBSET (NamedReasons \cup {"idle", "unnamed"}) \cup {NoMask},
     ecc : {"enabled", "disabled", "unknown"}, correctable : Value,
     uncorrectable : Value, util : Value]

\* r.throttle is the set of reasons in NVML's mask, or NoMask.
checkThrottling(r) ==
    LET active == r.throttle \ {"idle"}
        named == active \cap NamedReasons
    IN  IF r.throttle = NoMask THEN "unknown"
        ELSE IF active = {} THEN "none"
        ELSE IF active \cap ThermalReasons # {} \/ Cardinality(named) >= 2
             THEN "severe"
        ELSE "minor"

eccCorrectableThreshold == 1000

\* The counts that the response carries: zero when a query failed.
Count(r, value) == IF r.ecc = "enabled" /\ value # NoData THEN value ELSE 0

checkECCErrors(r) ==
    LET status ==
            IF r.ecc # "enabled" THEN r.ecc     \* "disabled" or "unknown"
            ELSE IF {r.correctable, r.uncorrectable} = {NoData}
                 THEN "data_unavailable"
            ELSE IF r.uncorrectable > 0 THEN "critical"
            ELSE IF r.uncorrectable = NoData THEN "degraded"
            ELSE IF r.correctable > eccCorrectableThreshold THEN "warning"
            ELSE IF r.correctable > 0 THEN "degraded"
            ELSE "healthy"
    IN  [status |-> status,
         correctable |-> Count(r, r.correctable),
         uncorrectable |-> Count(r, r.uncorrectable)]

checkPerformance(r) ==
    Grade(r.util, <<At(95, "saturated"), At(50, "active")>>, "idle")
--------------------------------------------------------------------------------
\* What a component costs, and the severity of the issue it raises, if any.
Costs(penalty, severity) == [penalty |-> penalty, severity |-> severity]
Free == Costs(0, "none")

scoreThermal(h) ==
    CASE h.temperature = "critical" -> Costs(30, "critical")
      [] h.temperature = "high" -> Costs(20, "warning")
      [] h.temperature = "elevated" -> Costs(10, "none")
      [] OTHER -> Free

scoreMemory(h) ==
    CASE h.memory = "critical" -> Costs(20, "critical")
      [] h.memory = "high" -> Costs(10, "warning")
      [] OTHER -> Free

scorePower(h) ==
    CASE h.power = "over_limit" -> Costs(15, "warning")
      [] h.power = "high" -> Costs(10, "none")
      [] OTHER -> Free

scoreThrottling(h) ==
    CASE h.throttling = "severe" -> Costs(25, "critical")
      [] h.throttling = "minor" -> Costs(10, "warning")
      [] OTHER -> Free

\* Unlike the others, ECC is scored by its counts and not by its status.
scoreECC(h) ==
    IF h.ecc.uncorrectable > 0 THEN Costs(30, "critical")
    ELSE IF h.ecc.correctable > eccCorrectableThreshold THEN Costs(10, "warning")
    ELSE Free

Scored(h) ==
    <<scoreThermal(h), scoreMemory(h), scorePower(h), scoreThrottling(h), scoreECC(h)>>

\* A fault: a score in an unsigned byte.
calculateHealthScoreWraps(h) ==
    (100 - scoreThermal(h).penalty - scoreMemory(h).penalty - scorePower(h).penalty
         - scoreThrottling(h).penalty - scoreECC(h).penalty) % 2^8

calculateHealthScore(h) ==
    LET left == 100 - scoreThermal(h).penalty - scoreMemory(h).penalty
                    - scorePower(h).penalty - scoreThrottling(h).penalty
                    - scoreECC(h).penalty
    IN  Max({left, 0})

\* A fault: the score alone decides.
determineStatusByScore(score, severities) ==
    Grade(score, <<At(90, "healthy"), At(70, "warning"), At(50, "degraded")>>,
          "critical")

determineStatus(score, severities) ==
    IF "critical" \in severities THEN "critical"
    ELSE Grade(score, <<At(90, "healthy"), At(70, "warning"), At(50, "degraded")>>,
               "critical")

\* cancelled: whether the context has ended before the metrics are read.
collectGPUHealth(r, cancelled) ==
    LET h == [temperature |-> checkTemperature(r), memory |-> checkMemory(r),
              power |-> checkPower(r), throttling |-> checkThrottling(r),
              ecc |-> checkECCErrors(r), performance |-> checkPerformance(r)]
        score == calculateHealthScore(h)
        severities == {Scored(h)[i].severity : i \in DOMAIN Scored(h)}
    IN  IF cancelled THEN [status |-> "unknown", score |-> 0]
        ELSE [status |-> determineStatus(score, severities), score |-> score]
--------------------------------------------------------------------------------
calculateOverallHealth(gpus) ==
    LET Of(status) == Quantify(DOMAIN gpus, LAMBDA i : gpus[i].status = status)
        verdict ==
            IF gpus = <<>> THEN "unknown"
            ELSE IF Of("critical") > 0 THEN "critical"
            ELSE IF Of("degraded") > 0 THEN "degraded"
            ELSE IF Of("warning") > 0 THEN "warning"
            ELSE "healthy"
    IN  [status |-> verdict,
         score |-> IF gpus = <<>> THEN 0
                   ELSE Min({100} \cup {gpus[i].score : i \in DOMAIN gpus}),
         gpus |-> gpus, advice |-> "",
         healthy |-> Of("healthy"), warning |-> Of("warning"),
         degraded |-> Of("degraded"), critical |-> Of("critical")]

\* What the user is advised to do.
generateRecommendation(response) ==
    IF response.gpus = <<>> THEN "verify driver"
    ELSE IF response.critical > 0 THEN "investigate now"
    ELSE IF response.degraded > 0 THEN "monitor closely"
    ELSE IF response.warning > 0 THEN "review"
    ELSE "no action required"

Refused == [status |-> "error"]

(***************************************************************************)
(* Handle asks its context before it starts (point 0), before device i     *)
(* (point 2i - 1) and before the metrics of device i (point 2i).  The      *)
(* context has ended at point `ended` and after it.  Only at the metrics   *)
(* of the last device does an end go unnoticed by a later point.           *)
(* counted: whether GetDeviceCount succeeds.  The list of results, which   *)
(* leaves out missing devices, is a function of the others' indices.       *)
(***************************************************************************)
Handle(counted, devices, ended) ==
    LET last == Len(devices)
        present == {i \in 1..last : devices[i] # Missing}
        gpus == [i \in present |-> collectGPUHealth(devices[i], ended <= 2 * i)]
        response == calculateOverallHealth(gpus)
    IN  IF ended = 0 \/ ~counted \/ ended < 2 * last THEN Refused
        ELSE [response EXCEPT !.advice = generateRecommendation(response)]
================================================================================

----------------------------- MODULE ReportsProofs -----------------------------
(***************************************************************************)
(* What the health tools say of a GPU and what the reports say of a        *)
(* failure: theorems for readings of any value, nodes of any size, logs of *)
(* any length and any window.                                              *)
(***************************************************************************)
EXTENDS Reports, FiniteSetTheorems, TLAPS

(***************************************************************************)
(* A reading that is at least as bad in every respect.  A query that       *)
(* failed stays failed: a value that comes into sight may be a bad one.    *)
(***************************************************************************)
NoBetter(v, w) == w >= v /\ (v = Health!NoData => w = v)

AsBad(r, w) ==
    /\ NoBetter(r.temperature, w.temperature)
    /\ NoBetter(r.memory, w.memory)
    /\ NoBetter(r.power, w.power)
    /\ NoBetter(r.correctable, w.correctable)
    /\ NoBetter(r.uncorrectable, w.uncorrectable)
    /\ w.slowdown = r.slowdown /\ w.shutdown = r.shutdown /\ w.ecc = r.ecc
    /\ IF r.throttle = Health!NoMask THEN w.throttle = Health!NoMask
       ELSE r.throttle \subseteq w.throttle /\ w.throttle # Health!NoMask
--------------------------------------------------------------------------------
\* The least and the largest of two numbers.
LEMMA MaxOfTwo ==
    ASSUME NEW a \in Int, NEW b \in Int
    PROVE  Health!Max({a, b}) = IF a >= b THEN a ELSE b
BY DEF Health!Max

LEMMA MinOfTwo ==
    ASSUME NEW a \in Int, NEW b \in Int
    PROVE  Health!Min({a, b}) = IF a <= b THEN a ELSE b
BY DEF Health!Min

\* The counting of GpuHealth is that of the theorems about finite sets.
LEMMA CountsAlike ==
    ASSUME NEW S
    PROVE  Health!Cardinality(S) = Cardinality(S)
BY DEF Health!Cardinality, Cardinality

\* The switches of the checks: the first bound that is reached decides.
LEMMA FirstOfThree ==
    ASSUME NEW v \in Health!Value, NEW a \in Int, NEW b \in Int, NEW c \in Int,
           NEW x, NEW y, NEW z, NEW otherwise
    PROVE  Health!Grade(v, <<Health!At(a, x), Health!At(b, y), Health!At(c, z)>>, otherwise)
             = IF v = Health!NoData THEN "unknown"
               ELSE IF v >= a THEN x
               ELSE IF v >= b THEN y
               ELSE IF v >= c THEN z
               ELSE otherwise
<1> DEFINE cases == <<Health!At(a, x), Health!At(b, y), Health!At(c, z)>>
           reached == {i \in DOMAIN cases : v >= cases[i].bound}
<1>1. /\ DOMAIN cases = 1..3
      /\ cases[1] = [bound |-> a, status |-> x]
      /\ cases[2] = [bound |-> b, status |-> y]
      /\ cases[3] = [bound |-> c, status |-> z]
  BY DEF Health!At
<1>2. /\ 1 \in reached <=> v >= a
      /\ 2 \in reached <=> v >= b
      /\ 3 \in reached <=> v >= c
      /\ reached \subseteq 1..3
  BY <1>1
<1>3. ASSUME NEW m \in reached, \A i \in reached : m <= i
      PROVE  Health!Min(reached) = m
  <2>1. m \in reached /\ \A i \in reached : m <= i  BY <1>3
  <2>2. Health!Min(reached) \in reached /\ \A i \in reached : Health!Min(reached) <= i
    BY <2>1 DEF Health!Min
  <2> QED  BY <2>1, <2>2, <1>2
<1>4. CASE v >= a
  <2>1. Health!Min(reached) = 1  BY <1>2, <1>3, <1>4
  <2> QED  BY <2>1, <1>1, <1>2, <1>4 DEF Health!Grade
<1>5. CASE ~(v >= a) /\ v >= b
  <2>1. Health!Min(reached) = 2  BY <1>2, <1>3, <1>5
  <2> QED  BY <2>1, <1>1, <1>2, <1>5 DEF Health!Grade
<1>6. CASE ~(v >= a) /\ ~(v >= b) /\ v >= c
  <2>1. Health!Min(reached) = 3  BY <1>2, <1>3, <1>6
  <2> QED  BY <2>1, <1>1, <1>2, <1>6 DEF Health!Grade
<1>7. CASE ~(v >= a) /\ ~(v >= b) /\ ~(v >= c)
  <2>1. reached = {}  BY <1>2, <1>7
  <2> QED  BY <2>1, <1>7 DEF Health!Grade
<1> QED  BY <1>4, <1>5, <1>6, <1>7

LEMMA TemperatureGraded ==
    ASSUME NEW r \in Health!Reading
    PROVE  LET maxTemp == Health!Limit(r.shutdown, 90)
               threshold == Health!Limit(r.slowdown, 82)
               elevated == (threshold - 10) % Health!Word
           IN  Health!checkTemperature(r)
                 = IF r.temperature = Health!NoData THEN "unknown"
                   ELSE IF r.temperature >= maxTemp THEN "critical"
                   ELSE IF r.temperature >= threshold THEN "high"
                   ELSE IF r.temperature >= elevated THEN "elevated"
                   ELSE "normal"
<1> DEFINE maxTemp == Health!Limit(r.shutdown, 90)
           threshold == Health!Limit(r.slowdown, 82)
           elevated == (threshold - 10) % Health!Word
<1>1. r.temperature \in Health!Value  BY DEF Health!Reading
<1>2. maxTemp \in Int /\ threshold \in Int  BY DEF Health!Reading, Health!Limit
<1>3. Health!Word \in Nat \ {0}  BY DEF Health!Word
<1>4. elevated \in Int  BY <1>2, <1>3
<1> HIDE DEF maxTemp, threshold, elevated
<1>5. Health!Grade(r.temperature,
                   <<Health!At(maxTemp, "critical"), Health!At(threshold, "high"),
                     Health!At(elevated, "elevated")>>, "normal")
        = IF r.temperature = Health!NoData THEN "unknown"
          ELSE IF r.temperature >= maxTemp THEN "critical"
          ELSE IF r.temperature >= threshold THEN "high"
          ELSE IF r.temperature >= elevated THEN "elevated"
          ELSE "normal"
  BY <1>1, <1>2, <1>4, FirstOfThree
<1> QED  BY <1>5 DEF Health!checkTemperature, maxTemp, threshold, elevated

LEMMA MemoryGraded ==
    ASSUME NEW r \in Health!Reading
    PROVE  Health!checkMemory(r)
             = IF r.memory = Health!NoData THEN "unknown"
               ELSE IF r.memory >= 95 THEN "critical"
               ELSE IF r.memory >= 90 THEN "high"
               ELSE IF r.memory >= 80 THEN "elevated"
               ELSE "normal"
<1>1. r.memory \in Health!Value  BY DEF Health!Reading
<1> QED  BY <1>1, FirstOfThree DEF Health!checkMemory

LEMMA PowerGraded ==
    ASSUME NEW r \in Health!Reading
    PROVE  Health!checkPower(r)
             = IF r.power = Health!NoData THEN "unknown"
               ELSE IF r.power >= 101 THEN "over_limit"
               ELSE IF r.power >= 95 THEN "high"
               ELSE IF r.power >= 80 THEN "elevated"
               ELSE "normal"
<1>1. r.power \in Health!Value  BY DEF Health!Reading
<1> QED  BY <1>1, FirstOfThree DEF Health!checkPower

LEMMA StatusGraded ==
    ASSUME NEW score \in Nat, NEW severities
    PROVE  Health!determineStatus(score, severities)
             = IF "critical" \in severities THEN "critical"
               ELSE IF score >= 90 THEN "healthy"
               ELSE IF score >= 70 THEN "warning"
               ELSE IF score >= 50 THEN "degraded"
               ELSE "critical"
<1>1. score \in Health!Value /\ score # Health!NoData
  BY DEF Health!Value, Health!NoData
<1> QED  BY <1>1, FirstOfThree DEF Health!determineStatus
--------------------------------------------------------------------------------
\* What collectGPUHealth finds of a reading before it scores it.
Findings(r) ==
    [temperature |-> Health!checkTemperature(r), memory |-> Health!checkMemory(r),
     power |-> Health!checkPower(r), throttling |-> Health!checkThrottling(r),
     ecc |-> Health!checkECCErrors(r), performance |-> Health!checkPerformance(r)]

\* Costs that follow from worse findings.
NoCheaper(before, after) ==
    /\ before.penalty \in Nat /\ after.penalty \in Nat
    /\ before.penalty <= after.penalty
    /\ before.severity = "critical" => after.severity = "critical"

LEMMA ThermalNoCheaper ==
    ASSUME NEW r \in Health!Reading, NEW w \in Health!Reading, AsBad(r, w)
    PROVE  NoCheaper(Health!scoreThermal(Findings(r)), Health!scoreThermal(Findings(w)))
<1> DEFINE maxTemp == Health!Limit(r.shutdown, 90)
           threshold == Health!Limit(r.slowdown, 82)
           elevated == (threshold - 10) % Health!Word
           Graded(v) == IF v = Health!NoData THEN "unknown"
                        ELSE IF v >= maxTemp THEN "critical"
                        ELSE IF v >= threshold THEN "high"
                        ELSE IF v >= elevated THEN "elevated"
                        ELSE "normal"
<1>1. maxTemp \in Int /\ threshold \in Int
  BY DEF Health!Reading, Health!Limit
<1>2. elevated \in Int
  BY <1>1 DEF Health!Word
<1>3. /\ Findings(r).temperature = Graded(r.temperature)
      /\ Findings(w).temperature = Graded(w.temperature)
  BY TemperatureGraded DEF Findings, AsBad
<1>4. /\ r.temperature \in Int /\ w.temperature \in Int
      /\ NoBetter(r.temperature, w.temperature)
      /\ r.temperature = Health!NoData <=> r.temperature = -1
      /\ w.temperature = Health!NoData <=> w.temperature = -1
      /\ r.temperature >= -1
  BY DEF AsBad, Health!Reading, Health!Value, Health!NoData
<1> HIDE DEF maxTemp, threshold, elevated
<1> QED
  BY <1>1, <1>2, <1>3, <1>4
  DEF NoCheaper, NoBetter, Health!scoreThermal, Health!Costs, Health!Free, Health!NoData

LEMMA MemoryNoCheaper ==
    ASSUME NEW r \in Health!Reading, NEW w \in Health!Reading, AsBad(r, w)
    PROVE  NoCheaper(Health!scoreMemory(Findings(r)), Health!scoreMemory(Findings(w)))
<1>1. /\ Findings(r).memory = Health!checkMemory(r)
      /\ Findings(w).memory = Health!checkMemory(w)
  BY DEF Findings
<1>2. /\ r.memory \in Int /\ w.memory \in Int /\ r.memory >= -1
      /\ NoBetter(r.memory, w.memory)
  BY DEF AsBad, Health!Reading, Health!Value, Health!NoData
<1> QED
  BY <1>1, <1>2, MemoryGraded
  DEF NoCheaper, NoBetter, Health!scoreMemory, Health!Costs, Health!Free, Health!NoData

LEMMA PowerNoCheaper ==
    ASSUME NEW r \in Health!Reading, NEW w \in Health!Reading, AsBad(r, w)
    PROVE  NoCheaper(Health!scorePower(Findings(r)), Health!scorePower(Findings(w)))
<1>1. /\ Findings(r).power = Health!checkPower(r)
      /\ Findings(w).power = Health!checkPower(w)
  BY DEF Findings
<1>2. /\ r.power \in Int /\ w.power \in Int /\ r.power >= -1
      /\ NoBetter(r.power, w.power)
  BY DEF AsBad, Health!Reading, Health!Value, Health!NoData
<1> QED
  BY <1>1, <1>2, PowerGraded
  DEF NoCheaper, NoBetter, Health!scorePower, Health!Costs, Health!Free, Health!NoData

LEMMA ThrottlingNoCheaper ==
    ASSUME NEW r \in Health!Reading, NEW w \in Health!Reading, AsBad(r, w)
    PROVE  NoCheaper(Health!scoreThrottling(Findings(r)),
                     Health!scoreThrottling(Findings(w)))
<1> DEFINE active(x) == x.throttle \ {"idle"}
           named(x) == active(x) \cap Health!NamedReasons
           Checked(x) == IF active(x) = {} THEN "none"
                         ELSE IF active(x) \cap Health!ThermalReasons # {}
                                 \/ Cardinality(named(x)) >= 2 THEN "severe"
                         ELSE "minor"
<1>1. /\ Findings(r).throttling = Health!checkThrottling(r)
      /\ Findings(w).throttling = Health!checkThrottling(w)
  BY DEF Findings
<1>2. CASE r.throttle = Health!NoMask
  <2>1. w.throttle = Health!NoMask  BY <1>2 DEF AsBad
  <2> QED
    BY <1>1, <1>2, <2>1
    DEF NoCheaper, Health!scoreThrottling, Health!checkThrottling, Health!Costs, Health!Free
<1>3. CASE r.throttle # Health!NoMask
  <2>1. r.throttle \subseteq w.throttle /\ w.throttle # Health!NoMask
    BY <1>3 DEF AsBad
  <2>2. /\ Health!checkThrottling(r) = Checked(r)
        /\ Health!checkThrottling(w) = Checked(w)
    BY <1>3, <2>1, CountsAlike DEF Health!checkThrottling
  <2>3. IsFiniteSet(Health!NamedReasons)
    <3>1. IsFiniteSet({"hw_thermal"} \cup {"sw_thermal"} \cup {"hw_slowdown"}
                      \cup {"power_cap"} \cup {"power_brake"} \cup {"app_clocks"}
                      \cup {"sync_boost"})
      BY FS_Singleton, FS_Union
    <3>2. Health!NamedReasons
            = {"hw_thermal"} \cup {"sw_thermal"} \cup {"hw_slowdown"}
              \cup {"power_cap"} \cup {"power_brake"} \cup {"app_clocks"}
              \cup {"sync_boost"}
      BY DEF Health!NamedReasons, Health!ThermalReasons
    <3> QED  BY <3>1, <3>2
  <2>4. IsFiniteSet(named(r)) /\ IsFiniteSet(named(w))
    BY <2>3, FS_Subset
  <2>5. named(r) \subseteq named(w)  BY <2>1
  <2>6. /\ Cardinality(named(r)) \in Nat /\ Cardinality(named(w)) \in Nat
        /\ Cardinality(named(r)) <= Cardinality(named(w))
    BY <2>4, <2>5, FS_Subset, FS_CardinalityType
  <2>7. Checked(r) = "severe" => Checked(w) = "severe"
    <3>1. active(r) \subseteq active(w)  BY <2>1
    <3>2. active(r) \cap Health!ThermalReasons # {}
            => active(w) \cap Health!ThermalReasons # {}
      BY <3>1
    <3>3. Cardinality(named(r)) >= 2 => Cardinality(named(w)) >= 2  BY <2>6
    <3> HIDE DEF active, named
    <3> QED  BY <3>1, <3>2, <3>3
  <2>8. Checked(r) = "minor" => Checked(w) \in {"minor", "severe"}
    BY <2>1
  <2>9. Checked(r) \in {"none", "minor", "severe"} /\ Checked(w) \in {"none", "minor", "severe"}
    OBVIOUS
  <2> HIDE DEF Checked
  <2> QED
    BY <1>1, <2>2, <2>7, <2>8, <2>9
    DEF NoCheaper, Health!scoreThrottling, Health!Costs, Health!Free
<1> QED  BY <1>2, <1>3

LEMMA ECCNoCheaper ==
    ASSUME NEW r \in Health!Reading, NEW w \in Health!Reading, AsBad(r, w)
    PROVE  NoCheaper(Health!scoreECC(Findings(r)), Health!scoreECC(Findings(w)))
<1>1. ASSUME NEW x
      PROVE  /\ Findings(x).ecc.correctable = Health!Count(x, x.correctable)
             /\ Findings(x).ecc.uncorrectable = Health!Count(x, x.uncorrectable)
  BY DEF Findings, Health!checkECCErrors
<1>2. /\ Health!Count(r, r.correctable) <= Health!Count(w, w.correctable)
      /\ Health!Count(r, r.uncorrectable) <= Health!Count(w, w.uncorrectable)
      /\ Health!Count(r, r.correctable) \in Nat /\ Health!Count(w, w.correctable) \in Nat
      /\ Health!Count(r, r.uncorrectable) \in Nat /\ Health!Count(w, w.uncorrectable) \in Nat
  BY DEF AsBad, NoBetter, Health!Count, Health!Reading, Health!Value, Health!NoData
<1> QED
  BY <1>1, <1>2
  DEF NoCheaper, Health!scoreECC, Health!Costs, Health!Free, Health!eccCorrectableThreshold
--------------------------------------------------------------------------------
Verdict(r) == Health!collectGPUHealth(r, FALSE)

Severities(h) == {Health!Scored(h)[i].severity : i \in DOMAIN Health!Scored(h)}

LEMMA CriticalSeverity ==
    ASSUME NEW h
    PROVE  "critical" \in Severities(h) <=>
             \/ Health!scoreThermal(h).severity = "critical"
             \/ Health!scoreMemory(h).severity = "critical"
             \/ Health!scorePower(h).severity = "critical"
             \/ Health!scoreThrottling(h).severity = "critical"
             \/ Health!scoreECC(h).severity = "critical"
<1> DEFINE scored == Health!Scored(h)
<1>1. /\ DOMAIN scored = 1..5
      /\ scored[1] = Health!scoreThermal(h)
      /\ scored[2] = Health!scoreMemory(h)
      /\ scored[3] = Health!scorePower(h)
      /\ scored[4] = Health!scoreThrottling(h)
      /\ scored[5] = Health!scoreECC(h)
  BY DEF Health!Scored
<1>2. "critical" \in Severities(h) <=> \E i \in 1..5 : scored[i].severity = "critical"
  BY <1>1 DEF Severities
<1> HIDE DEF scored
<1>3. \A i \in 1..5 : i = 1 \/ i = 2 \/ i = 3 \/ i = 4 \/ i = 5
  OBVIOUS
<1> QED  BY <1>1, <1>2, <1>3

LEMMA VerdictIs ==
    ASSUME NEW r \in Health!Reading
    PROVE  /\ Verdict(r).score = Health!calculateHealthScore(Findings(r))
           /\ Verdict(r).status
                = Health!determineStatus(Verdict(r).score, Severities(Findings(r)))
BY DEF Verdict, Health!collectGPUHealth, Findings, Severities

\* Five costs that do not fall leave a score that does not rise.
LEMMA ScoreFalls ==
    ASSUME NEW g, NEW h,
           NoCheaper(Health!scoreThermal(g), Health!scoreThermal(h)),
           NoCheaper(Health!scoreMemory(g), Health!scoreMemory(h)),
           NoCheaper(Health!scorePower(g), Health!scorePower(h)),
           NoCheaper(Health!scoreThrottling(g), Health!scoreThrottling(h)),
           NoCheaper(Health!scoreECC(g), Health!scoreECC(h))
    PROVE  /\ Health!calculateHealthScore(g) \in Nat
           /\ Health!calculateHealthScore(h) \in Nat
           /\ Health!calculateHealthScore(h) <= Health!calculateHealthScore(g)
<1> DEFINE left(x) == 100 - Health!scoreThermal(x).penalty - Health!scoreMemory(x).penalty
                          - Health!scorePower(x).penalty
                          - Health!scoreThrottling(x).penalty - Health!scoreECC(x).penalty
<1>1. left(g) \in Int /\ left(h) \in Int /\ left(h) <= left(g)
  BY DEF NoCheaper
<1>2. /\ Health!calculateHealthScore(g) = Health!Max({left(g), 0})
      /\ Health!calculateHealthScore(h) = Health!Max({left(h), 0})
  BY DEF Health!calculateHealthScore
<1> HIDE DEF left
<1> QED  BY <1>1, <1>2, MaxOfTwo

LEMMA WorseVerdict ==
    ASSUME NEW r \in Health!Reading, NEW w \in Health!Reading, AsBad(r, w)
    PROVE  /\ Verdict(w).score <= Verdict(r).score
           /\ Rank[Verdict(w).status] >= Rank[Verdict(r).status]
<1>1. /\ NoCheaper(Health!scoreThermal(Findings(r)), Health!scoreThermal(Findings(w)))
      /\ NoCheaper(Health!scoreMemory(Findings(r)), Health!scoreMemory(Findings(w)))
      /\ NoCheaper(Health!scorePower(Findings(r)), Health!scorePower(Findings(w)))
      /\ NoCheaper(Health!scoreThrottling(Findings(r)), Health!scoreThrottling(Findings(w)))
      /\ NoCheaper(Health!scoreECC(Findings(r)), Health!scoreECC(Findings(w)))
  BY ThermalNoCheaper, MemoryNoCheaper, PowerNoCheaper, ThrottlingNoCheaper, ECCNoCheaper
<1>2. /\ Verdict(r).score \in Nat /\ Verdict(w).score \in Nat
      /\ Verdict(w).score <= Verdict(r).score
  BY <1>1, ScoreFalls, VerdictIs
<1>3. "critical" \in Severities(Findings(r)) => "critical" \in Severities(Findings(w))
  BY <1>1, CriticalSeverity DEF NoCheaper
<1>4. /\ Verdict(r).status
           = Health!determineStatus(Verdict(r).score, Severities(Findings(r)))
      /\ Verdict(w).status
           = Health!determineStatus(Verdict(w).score, Severities(Findings(w)))
  BY VerdictIs
<1>5. /\ Rank["healthy"] = 1 /\ Rank["warning"] = 2
      /\ Rank["degraded"] = 3 /\ Rank["critical"] = 4
  BY DEF Rank
<1> QED  BY <1>2, <1>3, <1>4, <1>5, StatusGraded
--------------------------------------------------------------------------------
\* The score of describe_gpu_node.
LEMMA WorseNodeScore ==
    ASSUME NEW r \in Health!Reading, NEW w \in Health!Reading, AsBad(r, w)
    PROVE  Node!calculateGPUHealthScore(w) <= Node!calculateGPUHealthScore(r)
<1> DEFINE above(x) == x.temperature - 80
           heat(x) == Node!Min({2 * Node!Max({0, above(x)}), 30})
           memory(x) == IF x.memory > 90 THEN 10 ELSE 0
           ecc(x) == IF x.ecc = "enabled" /\ x.uncorrectable > 0 THEN 20 ELSE 0
           left(x) == 100 - heat(x) - memory(x) - ecc(x)
<1>1. ASSUME NEW a \in Int, NEW b \in Int
      PROVE  /\ Node!Max({a, b}) = IF a >= b THEN a ELSE b
             /\ Node!Min({a, b}) = IF a <= b THEN a ELSE b
  BY DEF Node!Max, Node!Min
<1>2. /\ r.temperature \in Int /\ w.temperature \in Int /\ r.temperature <= w.temperature
      /\ r.memory \in Int /\ w.memory \in Int /\ r.memory <= w.memory
      /\ r.uncorrectable \in Int /\ w.uncorrectable \in Int
      /\ r.uncorrectable <= w.uncorrectable /\ r.ecc = w.ecc
  BY DEF AsBad, NoBetter, Health!Reading, Health!Value, Health!NoData
<1>3. ASSUME NEW x \in {r, w}
      PROVE  Node!calculateGPUHealthScore(x) = Node!Max({0, left(x)})
  BY DEF Node!calculateGPUHealthScore, Node!tempThresholdWarning, Node!maxTempPenalty,
         Node!memoryPressureThreshold
<1>4. heat(r) \in Int /\ heat(w) \in Int /\ heat(r) <= heat(w)
  <2>1. above(r) \in Int /\ above(w) \in Int /\ above(r) <= above(w)
    BY <1>2
  <2> HIDE DEF above
  <2> HIDE DEF heat
  <2>2. ASSUME NEW x \in {r, w}
        PROVE  heat(x) = IF above(x) <= 0 THEN 0
                         ELSE IF 2 * above(x) <= 30 THEN 2 * above(x) ELSE 30
    <3> DEFINE twice == 2 * Node!Max({0, above(x)})
    <3>1. x = r \/ x = w  OBVIOUS
    <3>2. above(x) \in Int  BY <2>1, <3>1
    <3>3. Node!Max({0, above(x)}) = IF 0 >= above(x) THEN 0 ELSE above(x)
      BY <3>2, <1>1
    <3>4. twice = IF above(x) <= 0 THEN 0 ELSE 2 * above(x)
      BY <3>2, <3>3
    <3>5. twice \in Int  BY <3>2, <3>4
    <3>6. heat(x) = Node!Min({twice, 30})  BY DEF heat
    <3> HIDE DEF twice
    <3>7. Node!Min({twice, 30}) = IF twice <= 30 THEN twice ELSE 30
      BY <3>5, <1>1
    <3> QED  BY <3>2, <3>4, <3>6, <3>7
  <2> QED  BY <2>1, <2>2
<1>5. memory(r) \in Int /\ memory(w) \in Int /\ memory(r) <= memory(w)
  BY <1>2
<1>6. ecc(r) \in Int /\ ecc(w) \in Int /\ ecc(r) <= ecc(w)
  BY <1>2
<1>7. left(r) \in Int /\ left(w) \in Int /\ left(w) <= left(r)
  <2> HIDE DEF heat, memory, ecc
  <2> QED  BY <1>4, <1>5, <1>6
<1> HIDE DEF left
<1> QED  BY <1>1, <1>3, <1>7

\* What Worse does to a reading is at least as bad.
LEMMA WorseIsAsBad ==
    ASSUME NEW r \in Health!Reading, NEW w \in Worse(r)
    PROVE  w \in Health!Reading /\ AsBad(r, w)
<1>1. CASE \E reason \in IF r.throttle = Health!NoMask THEN {}
                         ELSE Health!NamedReasons \cup {"idle"} :
             w = [r EXCEPT !.throttle = @ \cup {reason}]
  <2>1. PICK reason \in Health!NamedReasons \cup {"idle"} :
               w = [r EXCEPT !.throttle = @ \cup {reason}]
    BY <1>1
  <2>2. reason \in Health!NamedReasons \cup {"idle"} /\ reason # "no data"
    BY DEF Health!NamedReasons, Health!ThermalReasons
  <2>3. r.throttle # Health!NoMask  BY <1>1
  <2>4. w \in Health!Reading  BY <2>1, <2>2 DEF Health!Reading
  <2>5. w.throttle = r.throttle \cup {reason}  BY <2>1 DEF Health!Reading
  <2>6. w.throttle # Health!NoMask  BY <2>5, <2>2 DEF Health!NoMask
  <2> QED
    BY <2>1, <2>3, <2>4, <2>5, <2>6
    DEF AsBad, NoBetter, Health!Reading, Health!Value, Health!NoData
<1>2. CASE /\ w \in {[r EXCEPT !.temperature = @ + 1], [r EXCEPT !.temperature = @ + 9],
                     [r EXCEPT !.memory = @ + 5], [r EXCEPT !.power = @ + 5],
                     [r EXCEPT !.uncorrectable = @ + 1],
                     [r EXCEPT !.correctable = @ + 1000]}
           /\ \A field \in {"temperature", "memory", "power", "correctable", "uncorrectable"} :
                 w[field] # r[field] => r[field] # Health!NoData
  <2>1. /\ w.temperature # r.temperature => r.temperature # Health!NoData
        /\ w.memory # r.memory => r.memory # Health!NoData
        /\ w.power # r.power => r.power # Health!NoData
        /\ w.correctable # r.correctable => r.correctable # Health!NoData
        /\ w.uncorrectable # r.uncorrectable => r.uncorrectable # Health!NoData
    BY <1>2
  <2>2. r.throttle = Health!NoMask \/ r.throttle # Health!NoMask
    OBVIOUS
  <2> QED
    BY <1>2, <2>1
    DEF AsBad, NoBetter, Health!Reading, Health!Value, Health!NoData
<1> QED  BY <1>1, <1>2 DEF Worse
--------------------------------------------------------------------------------
LEMMA DangerIsCritical ==
    ASSUME NEW r \in Health!Reading, InDanger(r)
    PROVE  Verdict(r).status = "critical"
<1> DEFINE h == Findings(r)
<1>1. ASSUME r.ecc = "enabled", r.uncorrectable > 0
      PROVE  Health!scoreECC(h).severity = "critical"
  <2>1. Health!Count(r, r.uncorrectable) > 0
    BY <1>1 DEF Health!Count, Health!NoData, Health!Reading, Health!Value
  <2>2. h.ecc.uncorrectable > 0
    BY <2>1 DEF Findings, Health!checkECCErrors
  <2> QED  BY <2>2 DEF Health!scoreECC, Health!Costs
<1>2. ASSUME r.memory >= 95
      PROVE  Health!scoreMemory(h).severity = "critical"
  <2>1. h.memory = "critical"
    BY <1>2, MemoryGraded DEF Findings, Health!NoData
  <2> QED  BY <2>1 DEF Health!scoreMemory, Health!Costs
<1>3. ASSUME r.temperature >= Health!Limit(r.shutdown, 90)
      PROVE  Health!scoreThermal(h).severity = "critical"
  <2>1. Health!Limit(r.shutdown, 90) \in Int /\ Health!Limit(r.shutdown, 90) > 0
    BY DEF Health!Limit, Health!Reading
  <2>2. r.temperature # Health!NoData
    BY <1>3, <2>1 DEF Health!NoData
  <2>3. h.temperature = "critical"
    BY <1>3, <2>2, TemperatureGraded DEF Findings
  <2> QED  BY <2>3 DEF Health!scoreThermal, Health!Costs
<1>4. ASSUME r.throttle \cap Health!ThermalReasons # {}
      PROVE  Health!scoreThrottling(h).severity = "critical"
  <2>1. PICK reason \in r.throttle : reason \in Health!ThermalReasons
    BY <1>4
  <2>2. reason # "no data" /\ reason # "idle"
    BY <2>1 DEF Health!ThermalReasons
  <2>3. r.throttle # Health!NoMask
    BY <2>1, <2>2 DEF Health!NoMask
  <2>4. (r.throttle \ {"idle"}) \cap Health!ThermalReasons # {} /\ r.throttle \ {"idle"} # {}
    BY <2>1, <2>2
  <2>5. h.throttling = "severe"
    BY <2>3, <2>4 DEF Findings, Health!checkThrottling
  <2> QED  BY <2>5 DEF Health!scoreThrottling, Health!Costs
<1>5. "critical" \in Severities(h)
  BY <1>1, <1>2, <1>3, <1>4, CriticalSeverity DEF InDanger
<1>6. Verdict(r).status = Health!determineStatus(Verdict(r).score, Severities(h))
  BY VerdictIs
<1> QED  BY <1>5, <1>6 DEF Health!determineStatus

\* What an answer that is not refused says when one of the GPUs is critical.
LEMMA OneCriticalIsEnough ==
    ASSUME NEW counted, NEW devices \in Seq(Health!Reading \cup {Health!Missing}),
           NEW ended \in Int, NEW i \in DOMAIN devices,
           Health!Handle(counted, devices, ended) # Health!Refused,
           devices[i] # Health!Missing,
           ended > 2 * i,
           Verdict(devices[i]).status = "critical"
    PROVE  /\ Health!Handle(counted, devices, ended).status = "critical"
           /\ Health!Handle(counted, devices, ended).advice = "investigate now"
<1> DEFINE last == Len(devices)
           present == {k \in 1..last : devices[k] # Health!Missing}
           gpus == [k \in present |->
                      Health!collectGPUHealth(devices[k], ended <= 2 * k)]
           response == Health!calculateOverallHealth(gpus)
           critical == {k \in present : gpus[k].status = "critical"}
           advice == Health!generateRecommendation(response)
<1>1. Health!Handle(counted, devices, ended) = [response EXCEPT !.advice = advice]
  BY DEF Health!Handle
<1>2. i \in present /\ present \subseteq 1..last
  OBVIOUS
<1>3. gpus[i] = Verdict(devices[i])
  <2>1. (ended <= 2 * i) = FALSE
    BY <1>2
  <2> QED  BY <1>2, <2>1 DEF Verdict
<1>4. i \in critical  BY <1>2, <1>3
<1>5. IsFiniteSet(critical)
  <2>1. IsFiniteSet(1..last)  BY FS_Interval
  <2>2. critical \subseteq 1..last  OBVIOUS
  <2> QED  BY <2>1, <2>2, FS_Subset
<1>6. Cardinality(critical) > 0
  <2> HIDE DEF critical
  <2>1. Cardinality(critical) \in Nat  BY <1>5, FS_CardinalityType
  <2>2. Cardinality(critical) # 0  BY <1>4, <1>5, FS_EmptySet
  <2> QED  BY <2>1, <2>2
<1>7. DOMAIN gpus = present  OBVIOUS
<1>8. Health!Quantify(DOMAIN gpus, LAMBDA k : gpus[k].status = "critical")
        = Cardinality(critical)
  BY <1>7, CountsAlike DEF Health!Quantify
<1>9. gpus # <<>>  BY <1>2, <1>7
<1>10. /\ response.status = "critical"
       /\ response.critical = Cardinality(critical)
       /\ response.gpus = gpus
       /\ "status" \in DOMAIN response /\ "advice" \in DOMAIN response
  <2> HIDE DEF gpus
  <2> QED  BY <1>6, <1>8, <1>9 DEF Health!calculateOverallHealth
<1>11. advice = "investigate now"
  <2> HIDE DEF response
  <2> QED  BY <1>6, <1>9, <1>10 DEF Health!generateRecommendation
<1> HIDE DEF response, advice
<1> QED  BY <1>1, <1>10, <1>11
--------------------------------------------------------------------------------
(***************************************************************************)
(* The invariant: the health tool's answer is about what is observed.      *)
(***************************************************************************)
AboutObserved ==
    /\ observed.of = "gpus" => observed.devices \in Nodes
    /\ answer.tool = "get_gpu_health" =>
         /\ observed.of = "gpus"
         /\ answer.ended \in Int
         /\ \E counted \in BOOLEAN :
               answer.response = Health!Handle(counted, observed.devices, answer.ended)

LEMMA InitAboutObserved == Init => AboutObserved
<1> SUFFICES ASSUME Init PROVE AboutObserved
  OBVIOUS
<1>1. observed.of = "gpus" => observed.devices \in Nodes
  BY DEF Init
<1>2. answer.tool = "none"  BY DEF Init
<1> QED  BY <1>1, <1>2 DEF AboutObserved

LEMMA HealthAsked ==
    ASSUME AboutObserved, NEW counted \in BOOLEAN, NEW ended \in Int,
           AskHealth(counted, ended)
    PROVE  AboutObserved'
BY DEF AboutObserved, AskHealth

\* No other question changes what is observed or gives the tool's answer.
OtherAnswer == observed' = observed /\ answer'.tool # "get_gpu_health"

LEMMA OtherAsked ==
    /\ \A tool \in {"get_gpu_inventory", "describe_gpu_node"},
          allowed, routed, wanted \in BOOLEAN :
             AskAgents(tool, allowed, routed, wanted) => OtherAnswer
    /\ \A counted, k, ended : DescribeNode(counted, k, ended) => OtherAnswer
    /\ \A request, ended : AskTimeline(request, ended) => OtherAnswer
    /\ ReadAgent => OtherAnswer
    /\ \A trigger, cut : AutoCorrelate(trigger, cut) => OtherAnswer
    /\ \A pod, found, correlating, cut :
          ExplainPod(pod, found, correlating, cut) => OtherAnswer
    /\ \A pod, found, correlating, cut, recording :
          ReportPod(pod, found, correlating, cut, recording) => OtherAnswer
    /\ AskAgain => OtherAnswer
<1>1. \A tool \in {"get_gpu_inventory", "describe_gpu_node"},
         allowed, routed, wanted \in BOOLEAN :
            AskAgents(tool, allowed, routed, wanted) => OtherAnswer
  BY DEF AskAgents, OtherAnswer
<1>2. \A counted, k, ended : DescribeNode(counted, k, ended) => OtherAnswer
  BY DEF DescribeNode, OtherAnswer
<1>3. \A request, ended : AskTimeline(request, ended) => OtherAnswer
  BY DEF AskTimeline, OtherAnswer
<1>4. ReadAgent => OtherAnswer
  BY DEF ReadAgent, OtherAnswer
<1>5. \A trigger, cut : AutoCorrelate(trigger, cut) => OtherAnswer
  BY DEF AutoCorrelate, OtherAnswer
<1>6. \A pod, found, correlating, cut :
         ExplainPod(pod, found, correlating, cut) => OtherAnswer
  BY DEF ExplainPod, OtherAnswer, ToolError
<1>7. \A pod, found, correlating, cut, recording :
         ReportPod(pod, found, correlating, cut, recording) => OtherAnswer
  <2> SUFFICES ASSUME NEW pod, NEW found, NEW correlating, NEW cut, NEW recording,
                      ReportPod(pod, found, correlating, cut, recording)
               PROVE  OtherAnswer
    OBVIOUS
  <2> DEFINE incidents == Incidents(pod, found, correlating, observed.world, cut)
  <2>1. observed' = observed  BY DEF ReportPod
  <2>2. \/ \E incident \in incidents :
              answer' = [tool |-> "get_incident_report", incident |-> incident,
                         whole |-> correlating /\ cut = Whole,
                         report |-> IncidentReport(incident, recording, Recorded,
                                                   TRUE, TRUE)]
        \/ answer' = ToolError
    BY DEF ReportPod
  <2>3. answer'.tool # "get_gpu_health"
    <3> HIDE DEF incidents
    <3>1. CASE answer' = ToolError
      BY <3>1 DEF ToolError
    <3>2. ASSUME NEW incident \in incidents,
                 answer' = [tool |-> "get_incident_report", incident |-> incident,
                            whole |-> correlating /\ cut = Whole,
                            report |-> IncidentReport(incident, recording, Recorded,
                                                      TRUE, TRUE)]
          PROVE  answer'.tool # "get_gpu_health"
      BY ONLY <3>2
    <3> QED  BY <2>2, <3>1, <3>2
  <2> QED  BY <2>1, <2>3 DEF OtherAnswer
<1>8. AskAgain => OtherAnswer
  BY DEF AskAgain, ReportID, OtherAnswer
<1> QED  BY <1>1, <1>2, <1>3, <1>4, <1>5, <1>6, <1>7, <1>8

LEMMA NextAboutObserved == AboutObserved /\ [Next]_vars => AboutObserved'
<1> SUFFICES ASSUME AboutObserved, [Next]_vars PROVE AboutObserved'
  OBVIOUS
<1>1. ASSUME NEW counted \in BOOLEAN, NEW ended \in Int, AskHealth(counted, ended)
      PROVE  AboutObserved'
  BY <1>1, HealthAsked
<1>2. ASSUME OtherAnswer PROVE AboutObserved'
  BY <1>2 DEF AboutObserved, OtherAnswer
<1>3. ASSUME \E ended \in 0..(2 * Len(observed.devices) + 1) : AskHealth(TRUE, ended)
      PROVE  AboutObserved'
  <2>1. PICK ended \in 0..(2 * Len(observed.devices) + 1) : AskHealth(TRUE, ended)
    BY <1>3
  <2>2. ended \in Int  BY <2>1
  <2> QED  BY <2>1, <2>2, <1>1
<1>4. ASSUME Ask PROVE AboutObserved'
  <2>1. \/ AskHealth(FALSE, 0)
        \/ \E ended \in 0..(2 * Len(observed.devices) + 1) : AskHealth(TRUE, ended)
        \/ \E tool \in {"get_gpu_inventory", "describe_gpu_node"},
              allowed, routed, wanted \in BOOLEAN : AskAgents(tool, allowed, routed, wanted)
        \/ \E counted, k, ended : DescribeNode(counted, k, ended)
        \/ \E request, ended : AskTimeline(request, ended)
        \/ ReadAgent
        \/ \E trigger, cut : AutoCorrelate(trigger, cut)
        \/ \E pod, found, correlating, cut : ExplainPod(pod, found, correlating, cut)
        \/ \E pod, found, correlating, cut, recording :
              ReportPod(pod, found, correlating, cut, recording)
    BY <1>4 DEF Ask
  <2>2. AskHealth(FALSE, 0) => AboutObserved'
    <3>1. FALSE \in BOOLEAN /\ 0 \in Int  OBVIOUS
    <3> QED  BY <3>1, HealthAsked
  <2>3. \/ AskHealth(FALSE, 0)
        \/ \E ended \in 0..(2 * Len(observed.devices) + 1) : AskHealth(TRUE, ended)
        \/ OtherAnswer
    BY <2>1, OtherAsked
  <2> QED  BY <1>2, <1>3, <2>2, <2>3
<1>5. ASSUME UNCHANGED vars PROVE AboutObserved'
  BY <1>5 DEF vars, AboutObserved
<1> QED  BY <1>2, <1>4, <1>5, OtherAsked DEF Next

LEMMA AlwaysAboutObserved == Spec => []AboutObserved
BY InitAboutObserved, NextAboutObserved, PTL DEF Spec

LEMMA DevicesRead ==
    ASSUME AboutObserved, answer.tool = "get_gpu_health", NEW i \in DOMAIN observed.devices
    PROVE  /\ observed.devices \in Seq(Health!Reading \cup {Health!Missing})
           /\ observed.devices[i] # Health!Missing => observed.devices[i] \in Health!Reading
           /\ i \in Nat
BY ReportsAssumption DEF AboutObserved
--------------------------------------------------------------------------------
(***************************************************************************)
(* For readings of any values: one that is worse in a respect never scores *)
(* better or gets a milder status from get_gpu_health, nor a better score  *)
(* from describe_gpu_node (gpu_health.go, describe_gpu_node.go).  It rests *)
(* on WorseVerdict, which says so of worse readings in every respect.      *)
(***************************************************************************)
THEOREM HarmNeverHelps == Spec => []HarmIsMonotone
<1>1. AboutObserved => HarmIsMonotone
  <2> SUFFICES ASSUME AboutObserved, answer.tool = "get_gpu_health",
                      NEW i \in DOMAIN observed.devices,
                      observed.devices[i] # Health!Missing,
                      NEW w \in Worse(observed.devices[i])
               PROVE  /\ Verdict(w).score <= Verdict(observed.devices[i]).score
                      /\ Rank[Verdict(w).status] >= Rank[Verdict(observed.devices[i]).status]
                      /\ Node!calculateGPUHealthScore(w)
                           <= Node!calculateGPUHealthScore(observed.devices[i])
    BY DEF HarmIsMonotone, Verdict
  <2>1. observed.devices[i] \in Health!Reading  BY DevicesRead
  <2>2. w \in Health!Reading /\ AsBad(observed.devices[i], w)
    BY <2>1, WorseIsAsBad
  <2> QED  BY <2>1, <2>2, WorseVerdict, WorseNodeScore
<1> QED  BY <1>1, AlwaysAboutObserved, PTL

(***************************************************************************)
(* For any number of GPUs: one that is in danger makes the node critical   *)
(* and the advice urgent, whatever the others report and whichever are     *)
(* missing, unless its metrics were not read (gpu_health.go:777).          *)
(***************************************************************************)
THEOREM DangerIsSeen == Spec => []DangerIsReported
<1>1. AboutObserved => DangerIsReported
  <2> SUFFICES ASSUME AboutObserved, answer.tool = "get_gpu_health",
                      answer.response # Health!Refused,
                      NEW i \in DOMAIN observed.devices,
                      observed.devices[i] # Health!Missing,
                      answer.ended > 2 * i,
                      InDanger(observed.devices[i])
               PROVE  /\ answer.response.status = "critical"
                      /\ answer.response.advice = "investigate now"
    BY DEF DangerIsReported
  <2>1. PICK counted \in BOOLEAN :
               answer.response = Health!Handle(counted, observed.devices, answer.ended)
    BY DEF AboutObserved
  <2>2. observed.devices[i] \in Health!Reading  BY DevicesRead
  <2>3. Verdict(observed.devices[i]).status = "critical"
    BY <2>2, DangerIsCritical
  <2>4. answer.ended \in Int  BY DEF AboutObserved
  <2> DEFINE devices == observed.devices
             ended == answer.ended
  <2>5. /\ devices \in Seq(Health!Reading \cup {Health!Missing}) /\ i \in DOMAIN devices
        /\ ended \in Int /\ ended > 2 * i
        /\ devices[i] # Health!Missing /\ Verdict(devices[i]).status = "critical"
        /\ Health!Handle(counted, devices, ended) # Health!Refused
    BY <2>1, <2>3, <2>4, DevicesRead
  <2>6. answer.response = Health!Handle(counted, devices, ended)  BY <2>1
  <2> HIDE DEF devices, ended
  <2>7. /\ Health!Handle(counted, devices, ended).status = "critical"
        /\ Health!Handle(counted, devices, ended).advice = "investigate now"
    BY ONLY <2>5, OneCriticalIsEnough
  <2> QED  BY <2>6, <2>7
<1> QED  BY <1>1, AlwaysAboutObserved, PTL
--------------------------------------------------------------------------------
(***************************************************************************)
(* Recursion.  A definition by recursion over numbers is reasoned about by *)
(* the least number at which something fails.                              *)
(***************************************************************************)
\* A set of numbers that is not empty has a least one.
LEMMA LeastNumber ==
    ASSUME NEW T \in SUBSET Nat, T # {}
    PROVE  \E x \in T : \A y \in T : x <= y
<1>1. PICK x \in T : \A y \in T : ~ (<<y, x>> \in OpToRel(<, Nat))
  BY NatLessThanWellFounded, WFMin
<1>2. \A y \in T : ~(y < x)
  BY <1>1 DEF OpToRel
<1> QED  BY <1>2

\* What holds of 0 and is handed on from each number to the next holds up to n.
LEMMA ReachedByCounting ==
    ASSUME NEW n \in Nat, NEW T, 0 \in T, \A i \in 1..n : i - 1 \in T => i \in T
    PROVE  0..n \subseteq T
<1> DEFINE missed == {i \in 0..n : i \notin T}
<1> SUFFICES ASSUME missed # {} PROVE FALSE
  OBVIOUS
<1>1. PICK m \in missed : \A k \in missed : m <= k
  <2>1. missed \in SUBSET Nat  OBVIOUS
  <2> HIDE DEF missed
  <2> QED  BY <2>1, LeastNumber
<1>2. m \in 1..n /\ m - 1 \in 0..n /\ m - 1 \notin missed
  BY <1>1
<1> QED  BY <1>1, <1>2

\* Whether f counts up to m by the rules base and next.
Counts(f, m, S, base, next) ==
    f \in [0..m -> S] /\ f[0] = base /\ \A i \in 1..m : f[i] = next[i][f[i - 1]]

\* A recursive function over 0..n exists, whatever its rules: the provers cannot
\* unfold the definition of one otherwise.
LEMMA RecursionHasResult ==
    ASSUME NEW S, NEW base \in S, NEW n \in Nat, NEW next \in [1..n -> [S -> S]]
    PROVE  \E f : Counts(f, n, S, base, next)
<1> DEFINE done == {m \in 0..n : \E f : Counts(f, m, S, base, next)}
<1>1. 0 \in done
  <2>1. Counts([i \in 0..0 |-> base], 0, S, base, next)  BY DEF Counts
  <2> QED  BY <2>1
<1>2. ASSUME NEW m \in 1..n, m - 1 \in done PROVE m \in done
  <2>1. PICK f : Counts(f, m - 1, S, base, next)  BY <1>2
  <2> DEFINE g == [i \in 0..m |-> IF i = m THEN next[m][f[m - 1]] ELSE f[i]]
  <2>2. f[m - 1] \in S /\ next[m][f[m - 1]] \in S
    BY <2>1 DEF Counts
  <2>3. \A i \in 0..m : i # m => i \in 0..m - 1 /\ g[i] = f[i]
    OBVIOUS
  <2>4. g \in [0..m -> S]
    BY <2>1, <2>2, <2>3 DEF Counts
  <2>5. \A i \in 1..m : g[i - 1] = f[i - 1]
    OBVIOUS
  <2>6. g[0] = base  BY <2>1 DEF Counts
  <2>7. \A i \in 1..m : g[i] = next[i][g[i - 1]]
    <3> SUFFICES ASSUME NEW i \in 1..m PROVE g[i] = next[i][f[i - 1]]
      BY <2>5
    <3>1. CASE i = m
      BY <3>1
    <3>2. CASE i # m
      <4>1. i \in 1..m - 1 /\ g[i] = f[i]  BY <3>2
      <4> QED  BY <2>1, <4>1 DEF Counts
    <3> QED  BY <3>1, <3>2
  <2>8. Counts(g, m, S, base, next)
    <3> HIDE DEF g
    <3> QED  BY <2>4, <2>6, <2>7 DEF Counts
  <2>9. m \in 0..n  OBVIOUS
  <2> QED  BY <2>8, <2>9
<1>3. n \in done
  <2> HIDE DEF done
  <2>1. 0..n \subseteq done  BY <1>1, <1>2, ReachedByCounting
  <2> QED  BY <2>1
<1> QED  BY <1>3
--------------------------------------------------------------------------------
(***************************************************************************)
(* Sequences: picking, joining, flattening and ordering items.             *)
(***************************************************************************)
\* How Items goes on at each index.
Picking(X, s, indices) ==
    [i \in 1..Len(s) |-> [v \in Seq(X) |-> IF i \in indices THEN Append(v, s[i]) ELSE v]]

\* Items is the result of its recursion.
LEMMA ItemsRecurses ==
    ASSUME NEW X, NEW s \in Seq(X), NEW indices
    PROVE  \E f : /\ Counts(f, Len(s), Seq(X), <<>>, Picking(X, s, indices))
                  /\ Items(s, indices) = f[Len(s)]
<1> DEFINE n == Len(s)
           Step(f, i) == IF i = 0 THEN <<>>
                         ELSE IF i \in indices THEN Append(f[i - 1], s[i])
                         ELSE f[i - 1]
           Recurses(f) == f = [i \in 0..n |-> Step(f, i)]
           upTo == CHOOSE f : Recurses(f)
<1>1. n \in Nat /\ <<>> \in Seq(X) /\ \A i \in 1..n : s[i] \in X
  OBVIOUS
<1>2. Items(s, indices) = upTo[n]
  BY DEF Items
<1>3. Picking(X, s, indices) \in [1..n -> [Seq(X) -> Seq(X)]]
  BY <1>1 DEF Picking
<1> HIDE DEF n
<1>4. PICK f : Counts(f, n, Seq(X), <<>>, Picking(X, s, indices))
  BY <1>1, <1>3, RecursionHasResult
<1>5. \A i \in 0..n : f[i] = Step(f, i)
  <2> SUFFICES ASSUME NEW i \in 0..n PROVE f[i] = Step(f, i)
    OBVIOUS
  <2>1. CASE i = 0  BY <1>4, <2>1 DEF Counts
  <2>2. CASE i # 0
    <3>1. i \in 1..n /\ i - 1 \in 0..n  BY <1>1, <2>2
    <3>2. f[i - 1] \in Seq(X) /\ f[i] = Picking(X, s, indices)[i][f[i - 1]]
      BY <1>4, <3>1 DEF Counts
    <3> QED  BY <3>1, <3>2, <2>2 DEF Picking, n
  <2> QED  BY <2>1, <2>2
<1>6. Recurses(f)
  <2>1. f = [i \in 0..n |-> f[i]]  BY <1>4 DEF Counts
  <2> HIDE DEF Step
  <2> QED  BY <1>5, <2>1
<1>7. Recurses(upTo)
  <2> HIDE DEF Recurses
  <2> QED  BY <1>6
<1>8. upTo[0] = <<>> /\ \A i \in 1..n : upTo[i] = Step(upTo, i)
  <2> HIDE DEF upTo
  <2>1. 0 \in 0..n /\ \A i \in 1..n : i \in 0..n  BY <1>1
  <2>2. \A i \in 0..n : upTo[i] = Step(upTo, i)
    <3> HIDE DEF Step
    <3> QED  BY <1>7
  <2> QED  BY <2>1, <2>2
<1> DEFINE same == {i \in 0..n : upTo[i] = f[i]}
<1>9. n \in same
  <2>1. 0 \in same  BY <1>1, <1>4, <1>8 DEF Counts
  <2>2. ASSUME NEW i \in 1..n, i - 1 \in same PROVE i \in same
    <3> HIDE DEF upTo
    <3>1. upTo[i] = Step(upTo, i) /\ f[i] = Step(f, i) /\ i \in 0..n
      BY <1>1, <1>5, <1>8
    <3>2. upTo[i - 1] = f[i - 1]  BY <2>2
    <3> QED  BY <3>1, <3>2
  <2> HIDE DEF same
  <2>3. 0..n \subseteq same  BY <1>1, <2>1, <2>2, ReachedByCounting
  <2> QED  BY <1>1, <2>3
<1> QED  BY <1>2, <1>4, <1>9 DEF n

\* Items holds what is at the indices, in the order of the sequence.
LEMMA ItemsAre ==
    ASSUME NEW X, NEW s \in Seq(X), NEW indices
    PROVE  /\ Items(s, indices) \in Seq(X)
           /\ ToSet(Items(s, indices)) = {s[i] : i \in indices \cap DOMAIN s}
           /\ \A a, b \in DOMAIN Items(s, indices) : a < b =>
                \E i, j \in indices \cap DOMAIN s :
                   i < j /\ Items(s, indices)[a] = s[i] /\ Items(s, indices)[b] = s[j]
<1> DEFINE n == Len(s)
           upTo(m) == indices \cap 1..m
           Holds(t, m) ==
             /\ t \in Seq(X)
             /\ \A a \in 1..Len(t) : \E i \in upTo(m) : t[a] = s[i]
             /\ \A i \in upTo(m) : \E a \in 1..Len(t) : t[a] = s[i]
             /\ \A a, b \in 1..Len(t) : a < b =>
                   \E i, j \in upTo(m) : i < j /\ t[a] = s[i] /\ t[b] = s[j]
<1>1. PICK f : /\ Counts(f, n, Seq(X), <<>>, Picking(X, s, indices))
               /\ Items(s, indices) = f[n]
  BY ItemsRecurses
<1>2. n \in Nat /\ DOMAIN s = 1..n /\ \A i \in 1..n : s[i] \in X
  OBVIOUS
<1> DEFINE good == {m \in 0..n : Holds(f[m], m)}
<1>3. 0 \in good
  <2>1. f[0] = <<>>  BY <1>1 DEF Counts
  <2>2. Holds(<<>>, 0)  OBVIOUS
  <2> HIDE DEF Holds
  <2> QED  BY <1>2, <2>1, <2>2
<1>4. ASSUME NEW m \in 1..n, m - 1 \in good PROVE m \in good
  <2> DEFINE t == f[m - 1]
  <2>1. Holds(t, m - 1)  BY <1>4
  <2>2. f[m] = IF m \in indices THEN Append(t, s[m]) ELSE t
    <3>1. t \in Seq(X) /\ f[m] = Picking(X, s, indices)[m][t]
      BY <1>1, <1>2, <2>1 DEF Counts
    <3> HIDE DEF t
    <3> QED  BY <3>1 DEF Picking
  <2>3. m \in 0..n /\ m \in Nat /\ s[m] \in X  BY <1>2
  <2> HIDE DEF t
  <2>4. CASE m \in indices
    <3> DEFINE u == Append(t, s[m])
    <3>1. /\ t \in Seq(X) /\ Len(t) \in Nat /\ u \in Seq(X) /\ Len(u) = Len(t) + 1
          /\ u[Len(t) + 1] = s[m]
          /\ \A a \in 1..Len(t) : u[a] = t[a]
      BY <2>1, <2>3
    <3>2. m \in upTo(m) /\ \A i \in upTo(m - 1) : i \in upTo(m) /\ i < m
      BY <2>3, <2>4
    <3>3. \A i \in upTo(m) : i = m \/ i \in upTo(m - 1)
      BY <2>3
    <3>4. \A a \in 1..Len(u) : a = Len(t) + 1 \/ a \in 1..Len(t)
      BY <3>1
    <3>5. Len(t) + 1 \in 1..Len(u) /\ \A a \in 1..Len(t) : a \in 1..Len(u)
      BY <3>1
    <3> HIDE DEF u, upTo
    <3>6. \A a \in 1..Len(u) : \E i \in upTo(m) : u[a] = s[i]
      <4> SUFFICES ASSUME NEW a \in 1..Len(u) PROVE \E i \in upTo(m) : u[a] = s[i]
        OBVIOUS
      <4>1. CASE a = Len(t) + 1  BY <3>1, <3>2, <4>1
      <4>2. CASE a \in 1..Len(t)
        <5>1. PICK i \in upTo(m - 1) : t[a] = s[i]  BY <2>1, <4>2
        <5> QED  BY <3>1, <3>2, <4>2, <5>1
      <4> QED  BY <3>4, <4>1, <4>2
    <3>7. \A i \in upTo(m) : \E a \in 1..Len(u) : u[a] = s[i]
      <4> SUFFICES ASSUME NEW i \in upTo(m) PROVE \E a \in 1..Len(u) : u[a] = s[i]
        OBVIOUS
      <4>1. CASE i = m  BY <3>1, <3>5, <4>1
      <4>2. CASE i \in upTo(m - 1)
        <5>1. PICK a \in 1..Len(t) : t[a] = s[i]  BY <2>1, <4>2
        <5> QED  BY <3>1, <3>5, <5>1
      <4> QED  BY <3>3, <4>1, <4>2
    <3>8. ASSUME NEW a \in 1..Len(u), NEW b \in 1..Len(u), a < b
          PROVE  \E i, j \in upTo(m) : i < j /\ u[a] = s[i] /\ u[b] = s[j]
      <4>1. a \in 1..Len(t)  BY <3>1, <3>8
      <4>2. CASE b = Len(t) + 1
        <5>1. PICK i \in upTo(m - 1) : t[a] = s[i]  BY <2>1, <4>1
        <5> QED  BY <3>1, <3>2, <4>1, <4>2, <5>1
      <4>3. CASE b \in 1..Len(t)
        <5>1. PICK i, j \in upTo(m - 1) : i < j /\ t[a] = s[i] /\ t[b] = s[j]
          BY <2>1, <3>8, <4>1, <4>3
        <5> QED  BY <3>1, <3>2, <4>1, <4>3, <5>1
      <4> QED  BY <3>4, <4>2, <4>3
    <3>9. Holds(u, m)
      BY <3>1, <3>6, <3>7, <3>8
    <3>10. f[m] = u  BY <2>2, <2>4 DEF u
    <3> HIDE DEF Holds
    <3> QED  BY <2>3, <3>9, <3>10
  <2>5. CASE m \notin indices
    <3>1. upTo(m) = upTo(m - 1)  BY <2>3, <2>5
    <3>2. Holds(t, m)
      <4> HIDE DEF upTo
      <4> QED  BY <2>1, <3>1
    <3> HIDE DEF Holds
    <3> QED  BY <2>2, <2>3, <2>5, <3>2
  <2> QED  BY <2>4, <2>5
<1>5. n \in good
  <2> HIDE DEF good
  <2>1. 0..n \subseteq good  BY <1>2, <1>3, <1>4, ReachedByCounting
  <2> QED  BY <1>2, <2>1
<1> DEFINE t == Items(s, indices)
<1>6. Holds(t, n)  BY <1>1, <1>5
<1>7. upTo(n) = indices \cap DOMAIN s  BY <1>2
<1> HIDE DEF t, upTo, n
<1>8. DOMAIN t = 1..Len(t)  BY <1>6
<1>9. ToSet(t) = {s[i] : i \in upTo(n)}
  <2>1. \A x \in ToSet(t) : \E i \in upTo(n) : x = s[i]
    <3> SUFFICES ASSUME NEW x \in ToSet(t) PROVE \E i \in upTo(n) : x = s[i]
      OBVIOUS
    <3>1. PICK a \in 1..Len(t) : x = t[a]  BY <1>8 DEF ToSet
    <3> QED  BY <1>6, <3>1
  <2>2. \A i \in upTo(n) : s[i] \in ToSet(t)
    <3> SUFFICES ASSUME NEW i \in upTo(n) PROVE s[i] \in ToSet(t)
      OBVIOUS
    <3>1. PICK a \in 1..Len(t) : t[a] = s[i]  BY <1>6
    <3> QED  BY <1>8, <3>1 DEF ToSet
  <2> QED  BY <2>1, <2>2
<1> QED  BY <1>6, <1>7, <1>8, <1>9 DEF t

\* Two sequences one behind the other hold the items of both.
LEMMA JoinedAre ==
    ASSUME NEW X, NEW s \in Seq(X), NEW t \in Seq(X)
    PROVE  s \o t \in Seq(X) /\ ToSet(s \o t) = ToSet(s) \cup ToSet(t)
<1>1. /\ s \o t \in Seq(X)
      /\ Len(s) \in Nat /\ DOMAIN s = 1..Len(s)
      /\ Len(t) \in Nat /\ DOMAIN t = 1..Len(t)
      /\ DOMAIN (s \o t) = 1..Len(s) + Len(t)
      /\ \A a \in 1..Len(s) : (s \o t)[a] = s[a]
      /\ \A a \in 1..Len(t) : (s \o t)[Len(s) + a] = t[a]
  OBVIOUS
<1>2. ASSUME NEW x \in ToSet(s \o t) PROVE x \in ToSet(s) \cup ToSet(t)
  <2>1. PICK a \in 1..Len(s) + Len(t) : x = (s \o t)[a]  BY <1>1 DEF ToSet
  <2>2. CASE a \in 1..Len(s)  BY <1>1, <2>1, <2>2 DEF ToSet
  <2>3. CASE a \notin 1..Len(s)
    <3>1. a - Len(s) \in 1..Len(t) /\ a = Len(s) + (a - Len(s))
      BY <1>1, <2>3
    <3> QED  BY <1>1, <2>1, <3>1 DEF ToSet
  <2> QED  BY <2>2, <2>3
<1>3. ASSUME NEW x \in ToSet(s) PROVE x \in ToSet(s \o t)
  <2>1. PICK a \in 1..Len(s) : x = s[a]  BY <1>1 DEF ToSet
  <2>2. a \in 1..Len(s) + Len(t)  BY <1>1
  <2> QED  BY <1>1, <2>1, <2>2 DEF ToSet
<1>4. ASSUME NEW x \in ToSet(t) PROVE x \in ToSet(s \o t)
  <2>1. PICK a \in 1..Len(t) : x = t[a]  BY <1>1 DEF ToSet
  <2>2. Len(s) + a \in 1..Len(s) + Len(t)  BY <1>1
  <2> QED  BY <1>1, <2>1, <2>2 DEF ToSet
<1> QED  BY <1>1, <1>2, <1>3, <1>4

\* What f joins, one sequence after the other.
Joins(f, seqs, X) ==
    /\ f \in [0..Len(seqs) -> Seq(X)] /\ f[0] = <<>>
    /\ \A i \in 1..Len(seqs) : f[i] = f[i - 1] \o seqs[i]
    /\ FlattenSeq(seqs) = f[Len(seqs)]

LEMMA FlattenJoins ==
    ASSUME NEW X, NEW seqs \in Seq(Seq(X))
    PROVE  \E f : Joins(f, seqs, X)
<1> DEFINE n == Len(seqs)
           next == [i \in 1..n |-> [v \in Seq(X) |-> v \o seqs[i]]]
<1>1. n \in Nat /\ DOMAIN seqs = 1..n /\ \A i \in 1..n : seqs[i] \in Seq(X)
  OBVIOUS
<1>2. next \in [1..n -> [Seq(X) -> Seq(X)]] /\ <<>> \in Seq(X)
  BY <1>1
<1>3. PICK f : Counts(f, n, Seq(X), <<>>, next)
  <2> HIDE DEF n, next
  <2> QED  BY <1>1, <1>2, RecursionHasResult
<1>4. f \in [0..n -> Seq(X)] /\ f[0] = <<>> /\ \A i \in 1..n : f[i] = f[i - 1] \o seqs[i]
  <2>1. \A i \in 1..n : i - 1 \in 0..n  BY <1>1
  <2> HIDE DEF n
  <2> QED  BY <1>1, <1>3, <2>1 DEF Counts
<1>5. FlattenSeq(seqs) = f[n]
  <2>1. CASE n = 0
    <3>1. FlattenSeq(seqs) = <<>>  BY <1>1, <2>1 DEF FlattenSeq
    <3> HIDE DEF n
    <3> QED  BY <1>4, <2>1, <3>1
  <2>2. CASE n # 0
    <3> DEFINE Step(h, i) == IF i = 1 THEN seqs[i] ELSE h[i - 1] \o seqs[i]
               Recurses(h) == h = [i \in 1..n |-> Step(h, i)]
               flatten == CHOOSE h : Recurses(h)
               g == [i \in 1..n |-> f[i]]
    <3>1. FlattenSeq(seqs) = flatten[n]
      BY <2>2 DEF FlattenSeq
    <3>2. \A i \in 1..n : g[i] = Step(g, i)
      <4> SUFFICES ASSUME NEW i \in 1..n PROVE f[i] = Step(g, i)
        OBVIOUS
      <4>1. seqs[i] \in Seq(X)  BY <1>1
      <4>2. CASE i = 1
        <5> HIDE DEF n
        <5>1. f[i] = f[i - 1] \o seqs[i]  BY <1>4
        <5>2. i - 1 = 0  BY <4>2
        <5>3. f[i] = <<>> \o seqs[i]  BY <1>4, <5>1, <5>2
        <5>4. <<>> \o seqs[i] = seqs[i]  BY <4>1
        <5> QED  BY <4>2, <5>3, <5>4
      <4>3. CASE i # 1
        <5>1. i - 1 \in 1..n /\ g[i - 1] = f[i - 1]  BY <1>1, <4>3
        <5> QED  BY <1>4, <4>3, <5>1
      <4> QED  BY <4>2, <4>3
    <3>3. Recurses(g)
      <4>1. g = [i \in 1..n |-> g[i]]  OBVIOUS
      <4> HIDE DEF g, Step
      <4> QED  BY <3>2, <4>1
    <3>4. Recurses(flatten)
      <4> HIDE DEF Recurses
      <4> QED  BY <3>3
    <3>5. \A i \in 1..n : flatten[i] = Step(flatten, i)
      <4> HIDE DEF flatten, Step
      <4> QED  BY <3>4
    <3> DEFINE good == {0} \cup {m \in 1..n : flatten[m] = f[m]}
    <3> HIDE DEF flatten
    <3>6. ASSUME NEW m \in 1..n, m - 1 \in good PROVE m \in good
      <4>1. CASE m = 1
        <5>1. flatten[m] = seqs[m] /\ f[m] = seqs[m]  BY <3>2, <3>5, <4>1
        <5> QED  BY <5>1
      <4>2. CASE m # 1
        <5>1. m - 1 \in 1..n /\ flatten[m - 1] = f[m - 1]  BY <3>6, <4>2
        <5>2. flatten[m] = f[m - 1] \o seqs[m]  BY <3>5, <4>2, <5>1
        <5> QED  BY <1>4, <5>2
      <4> QED  BY <4>1, <4>2
    <3>7. flatten[n] = f[n]
      <4>1. 0..n \subseteq good
        <5> HIDE DEF good
        <5>1. 0 \in good  BY DEF good
        <5> QED  BY <1>1, <3>6, <5>1, ReachedByCounting
      <4>2. n \in 0..n  BY <1>1
      <4> QED  BY <2>2, <4>1, <4>2
    <3> QED  BY <3>1, <3>7
  <2> QED  BY <2>1, <2>2
<1> QED  BY <1>4, <1>5 DEF Joins

\* FlattenSeq holds all items of all the sequences and nothing else.
LEMMA FlattenAre ==
    ASSUME NEW X, NEW seqs \in Seq(Seq(X))
    PROVE  /\ FlattenSeq(seqs) \in Seq(X)
           /\ ToSet(FlattenSeq(seqs)) = UNION {ToSet(seqs[i]) : i \in DOMAIN seqs}
<1> DEFINE n == Len(seqs)
           Upto(m) == UNION {ToSet(seqs[i]) : i \in 1..m}
<1>1. n \in Nat /\ DOMAIN seqs = 1..n /\ \A i \in 1..n : seqs[i] \in Seq(X)
  OBVIOUS
<1>2. PICK f : Joins(f, seqs, X)  BY FlattenJoins
<1>3. f \in [0..n -> Seq(X)] /\ f[0] = <<>> /\ \A i \in 1..n : f[i] = f[i - 1] \o seqs[i]
  BY <1>2 DEF Joins
<1> DEFINE good == {m \in 0..n : ToSet(f[m]) = Upto(m)}
<1>4. 0 \in good
  <2>1. ToSet(<<>>) = {}  BY DEF ToSet
  <2>2. Upto(0) = {} /\ 0 \in 0..n  BY <1>1
  <2> HIDE DEF Upto, n
  <2> QED  BY <1>3, <2>1, <2>2
<1>5. ASSUME NEW m \in 1..n, m - 1 \in good PROVE m \in good
  <2>1. Upto(m) = Upto(m - 1) \cup ToSet(seqs[m])
    <3>1. \A i \in 1..m : i = m \/ i \in 1..m - 1  OBVIOUS
    <3>2. m \in 1..m /\ \A i \in 1..m - 1 : i \in 1..m  OBVIOUS
    <3> QED  BY <3>1, <3>2
  <2> HIDE DEF Upto, n
  <2>2. ToSet(f[m - 1]) = Upto(m - 1) /\ m - 1 \in 0..n /\ m \in 0..n
    BY <1>1, <1>5
  <2>3. f[m - 1] \in Seq(X) /\ seqs[m] \in Seq(X) /\ f[m] = f[m - 1] \o seqs[m]
    BY <1>1, <1>3, <2>2
  <2>4. ToSet(f[m]) = Upto(m)
    BY <2>1, <2>2, <2>3, JoinedAre
  <2> QED  BY <2>2, <2>4
<1>6. n \in good
  <2> HIDE DEF good, n
  <2>1. 0..n \subseteq good  BY <1>1, <1>4, <1>5, ReachedByCounting
  <2> QED  BY <1>1, <2>1
<1>7. FlattenSeq(seqs) = f[n] /\ f[n] \in Seq(X)
  <2> HIDE DEF n
  <2> QED  BY <1>1, <1>2, <1>3 DEF Joins, n
<1> QED  BY <1>1, <1>6, <1>7

\* Whether an order may be what SortedByTime has found of the entries so far.
OrderedFront(order, entries, n) ==
    /\ order \in Seq(entries) /\ Cardinality(ToSet(order)) = n
    /\ Sorted(order)
    /\ \A a \in DOMAIN order, e \in entries \ ToSet(order) : order[a].time <= e.time

\* An earliest entry of the rest may come next.
LEMMA FrontGrows ==
    ASSUME NEW entries, IsFiniteSet(entries), \A e \in entries : e.time \in Int,
           NEW n \in Nat, NEW order, OrderedFront(order, entries, n),
           NEW e \in entries \ ToSet(order),
           \A other \in entries \ ToSet(order) : e.time <= other.time
    PROVE  OrderedFront(Append(order, e), entries, n + 1)
<1> DEFINE t == Append(order, e)
           k == Len(order)
<1>1. order \in Seq(entries) /\ k \in Nat /\ DOMAIN order = 1..k
  BY DEF OrderedFront
<1>2. /\ t \in Seq(entries) /\ DOMAIN t = 1..k + 1 /\ t[k + 1] = e
      /\ \A a \in 1..k : t[a] = order[a] /\ order[a] \in entries
      /\ \A a \in 1..k + 1 : a \in 1..k \/ a = k + 1
      /\ k + 1 \in 1..k + 1 /\ \A a \in 1..k : a \in 1..k + 1
  BY <1>1
<1> HIDE DEF t, k
<1>3. ToSet(t) = ToSet(order) \cup {e}
  <2>1. \A x \in ToSet(t) : x \in ToSet(order) \cup {e}
    <3> SUFFICES ASSUME NEW x \in ToSet(t) PROVE x \in ToSet(order) \cup {e}
      OBVIOUS
    <3>1. PICK a \in 1..k + 1 : x = t[a]  BY <1>2 DEF ToSet
    <3> QED  BY <1>1, <1>2, <3>1 DEF ToSet
  <2>2. \A x \in ToSet(order) : x \in ToSet(t)
    <3> SUFFICES ASSUME NEW x \in ToSet(order) PROVE x \in ToSet(t)
      OBVIOUS
    <3>1. PICK a \in 1..k : x = order[a]  BY <1>1 DEF ToSet
    <3> QED  BY <1>2, <3>1 DEF ToSet
  <2>3. e \in ToSet(t)  BY <1>2 DEF ToSet
  <2> QED  BY <2>1, <2>2, <2>3
<1>4. Cardinality(ToSet(t)) = n + 1
  <2>1. ToSet(order) \subseteq entries  BY <1>1, <1>2 DEF ToSet
  <2>2. IsFiniteSet(ToSet(order))  BY <2>1, FS_Subset
  <2> QED  BY <1>3, <2>2, FS_AddElement DEF OrderedFront
<1>5. Sorted(t)
  <2> SUFFICES ASSUME NEW i \in 1..k + 1, NEW j \in 1..k + 1, i < j
               PROVE  t[i].time <= t[j].time
    BY <1>2 DEF Sorted
  <2>1. i \in 1..k  BY <1>1
  <2>2. CASE j \in 1..k  BY <1>1, <1>2, <2>1, <2>2 DEF OrderedFront, Sorted
  <2>3. CASE j = k + 1  BY <1>1, <1>2, <2>1, <2>3 DEF OrderedFront
  <2> QED  BY <1>2, <2>2, <2>3
<1>6. ASSUME NEW a \in DOMAIN t, NEW other \in entries \ ToSet(t)
      PROVE  t[a].time <= other.time
  <2>1. other \in entries \ ToSet(order)  BY <1>3
  <2> QED  BY <1>1, <1>2, <2>1 DEF OrderedFront
<1> QED  BY <1>2, <1>4, <1>5, <1>6 DEF OrderedFront, t

\* Whatever order sort.Slice chooses, it is one of all entries, by their times.
LEMMA OrdersAre ==
    ASSUME NEW entries, IsFiniteSet(entries), \A e \in entries : e.time \in Int,
           NEW order \in SortedByTime(entries)
    PROVE  order \in Seq(entries) /\ ToSet(order) = entries /\ Sorted(order)
<1> DEFINE n == Cardinality(entries)
           Earliest(S) == {e \in S : \A other \in S : e.time <= other.time}
           Longer(o) == {Append(o, e) : e \in Earliest(entries \ ToSet(o))}
           All(orders) == UNION {Longer(o) : o \in orders}
           Step(f, i) == IF i = 0 THEN {<<>>} ELSE All(f[i - 1])
           Recurses(f) == f = [i \in 0..n |-> Step(f, i)]
           Orders == CHOOSE f : Recurses(f)
           S == SUBSET Seq(entries)
           next == [i \in 1..n |-> [orders \in S |-> All(orders)]]
<1>1. n \in Nat  BY FS_CardinalityType
<1>2. SortedByTime(entries) = Orders[n]
  BY DEF SortedByTime
<1>3. \A orders \in S : All(orders) \in S
  <2> SUFFICES ASSUME NEW orders \in S, NEW o \in orders, NEW e \in entries
               PROVE  Append(o, e) \in Seq(entries)
    OBVIOUS
  <2> QED  OBVIOUS
<1>4. next \in [1..n -> [S -> S]] /\ {<<>>} \in S
  <2> HIDE DEF All, S
  <2>1. {<<>>} \in S  BY DEF S
  <2> QED  BY <1>3, <2>1
<1> HIDE DEF n
<1>5. PICK f : Counts(f, n, S, {<<>>}, next)
  <2> HIDE DEF next, S
  <2> QED  BY <1>1, <1>4, RecursionHasResult
<1>6. f \in [0..n -> S] /\ f[0] = {<<>>} /\ \A i \in 1..n : f[i] = All(f[i - 1])
  <2> HIDE DEF All, S
  <2>1. \A i \in 1..n : i - 1 \in 0..n  BY <1>1
  <2> QED  BY <1>1, <1>5, <2>1 DEF Counts
<1>7. Recurses(f)
  <2> HIDE DEF All, S
  <2>1. f = [i \in 0..n |-> f[i]]  BY <1>6
  <2>2. \A i \in 0..n : f[i] = Step(f, i)
    <3>1. \A i \in 0..n : i = 0 \/ i \in 1..n  BY <1>1
    <3> QED  BY <1>6, <3>1
  <2> HIDE DEF Step
  <2> QED  BY <2>1, <2>2
<1>8. Recurses(Orders)
  <2> HIDE DEF Recurses
  <2> QED  BY <1>7
<1>9. Orders[0] = {<<>>} /\ \A i \in 1..n : Orders[i] = All(Orders[i - 1])
  <2> HIDE DEF Orders, All
  <2>1. \A i \in 0..n : Orders[i] = Step(Orders, i)
    <3> HIDE DEF Step
    <3> QED  BY <1>8
  <2>2. 0 \in 0..n /\ \A i \in 1..n : i \in 0..n /\ i # 0  BY <1>1
  <2> QED  BY <2>1, <2>2
<1> DEFINE good == {m \in 0..n : \A o \in Orders[m] : OrderedFront(o, entries, m)}
<1>10. 0 \in good
  <2> HIDE DEF Orders
  <2>1. OrderedFront(<<>>, entries, 0)
    <3>1. ToSet(<<>>) = {} /\ Cardinality({}) = 0  BY FS_EmptySet DEF ToSet
    <3>2. <<>> \in Seq(entries) /\ DOMAIN <<>> = {}  OBVIOUS
    <3>3. Sorted(<<>>)  BY <3>2 DEF Sorted
    <3> QED  BY <3>1, <3>2, <3>3 DEF OrderedFront
  <2> QED  BY <1>1, <1>9, <2>1
<1>11. ASSUME NEW m \in 1..n, m - 1 \in good PROVE m \in good
  <2> HIDE DEF Orders
  <2> SUFFICES ASSUME NEW o \in Orders[m] PROVE OrderedFront(o, entries, m)
    BY <1>1
  <2>1. PICK p \in Orders[m - 1] : o \in Longer(p)
    <3> HIDE DEF Longer
    <3> QED  BY <1>9
  <2>2. PICK e \in entries \ ToSet(p) :
           /\ \A other \in entries \ ToSet(p) : e.time <= other.time
           /\ o = Append(p, e)
    BY <2>1
  <2>3. OrderedFront(p, entries, m - 1)  BY <1>11, <2>1
  <2>4. m - 1 \in Nat /\ (m - 1) + 1 = m  BY <1>1
  <2>5. OrderedFront(Append(p, e), entries, (m - 1) + 1)
    BY <2>2, <2>3, <2>4, FrontGrows
  <2> QED  BY <2>2, <2>4, <2>5
<1>12. OrderedFront(order, entries, n)
  <2> HIDE DEF Orders
  <2>1. n \in good
    <3> HIDE DEF good
    <3>1. 0..n \subseteq good  BY <1>1, <1>10, <1>11, ReachedByCounting
    <3> QED  BY <1>1, <3>1
  <2> QED  BY <1>2, <2>1
<1>13. ToSet(order) \subseteq entries
  BY <1>12 DEF OrderedFront, ToSet
<1> QED  BY <1>12, <1>13, FS_Subset DEF OrderedFront, n

\* The timeline keeps the first entry of each key, so the oldest.
LEMMA FirstsAre ==
    ASSUME NEW entries, \A e \in entries : e.time \in Int,
           NEW order \in Seq(entries), Sorted(order)
    PROVE  LET t == deduplicateTimeline(order)
           IN  /\ t \in Seq(entries) /\ ToSet(t) \subseteq ToSet(order) /\ Sorted(t)
               /\ \A e \in ToSet(order) : \E i \in DOMAIN t :
                     t[i].key = e.key /\ t[i].time <= e.time
<1> DEFINE firsts == {i \in DOMAIN order :
                        \A j \in 1..(i - 1) : order[j].key # order[i].key}
           t == deduplicateTimeline(order)
           n == Len(order)
<1>1. n \in Nat /\ DOMAIN order = 1..n /\ \A i \in 1..n : order[i] \in entries
  OBVIOUS
<1>2. t = Items(order, firsts)  BY DEF deduplicateTimeline
<1>3. firsts \cap DOMAIN order = firsts /\ firsts \in SUBSET (1..n)  BY <1>1
<1> HIDE DEF t, n, firsts
<1>4. /\ t \in Seq(entries)
      /\ ToSet(t) = {order[i] : i \in firsts}
      /\ \A a, b \in DOMAIN t : a < b =>
            \E i, j \in firsts : i < j /\ t[a] = order[i] /\ t[b] = order[j]
  BY <1>2, <1>3, ItemsAre
<1>5. ToSet(t) \subseteq ToSet(order)
  BY <1>1, <1>3, <1>4 DEF ToSet
<1>6. Sorted(t)
  <2> SUFFICES ASSUME NEW a \in DOMAIN t, NEW b \in DOMAIN t, a < b
               PROVE  t[a].time <= t[b].time
    BY DEF Sorted
  <2>1. PICK i, j \in firsts : i < j /\ t[a] = order[i] /\ t[b] = order[j]
    BY <1>4
  <2> QED  BY <1>1, <1>3, <2>1 DEF Sorted
<1>7. ASSUME NEW e \in ToSet(order)
      PROVE  \E i \in DOMAIN t : t[i].key = e.key /\ t[i].time <= e.time
  <2>1. PICK i \in 1..n : e = order[i]  BY <1>1 DEF ToSet
  <2> DEFINE alike == {j \in 1..n : order[j].key = e.key}
  <2>2. PICK f \in alike : \A j \in alike : f <= j
    <3>1. alike \in SUBSET Nat /\ i \in alike  BY <1>1, <2>1
    <3> HIDE DEF alike
    <3> QED  BY <3>1, LeastNumber
  <2>3. i \in alike /\ f <= i /\ f \in 1..n /\ order[f].key = e.key  BY <2>1, <2>2
  <2>4. f \in firsts
    <3> SUFFICES ASSUME NEW j \in 1..(f - 1), order[j].key = order[f].key PROVE FALSE
      BY <1>1, <2>3 DEF firsts
    <3>1. j \in alike  BY <1>1, <2>3
    <3> QED  BY <2>2, <2>3, <3>1
  <2>5. order[f].time <= e.time
    <3>1. CASE f = i  BY <1>1, <2>1, <3>1
    <3>2. CASE f # i  BY <1>1, <2>1, <2>3, <3>2 DEF Sorted
    <3> QED  BY <3>1, <3>2
  <2>6. order[f] \in ToSet(t)  BY <1>4, <2>4
  <2>7. PICK k \in DOMAIN t : t[k] = order[f]  BY <2>6 DEF ToSet
  <2> QED  BY <2>3, <2>5, <2>7
<1> QED  BY <1>4, <1>5, <1>6, <1>7 DEF t
--------------------------------------------------------------------------------
\* What the ring buffer's query returns of a log: all since start, and of a log
\* in the order of time nothing else.
LEMMA SinceIs ==
    ASSUME NEW X, \A x \in X : x.time \in Int, NEW log \in Seq(X), NEW start \in Int
    PROVE  /\ Since(log, start) \in Seq(X)
           /\ ToSet(Since(log, start)) \subseteq ToSet(log)
           /\ \A x \in ToSet(log) : x.time >= start => x \in ToSet(Since(log, start))
           /\ Sorted(log) => \A x \in ToSet(Since(log, start)) : x.time >= start
<1> DEFINE reached == {i \in DOMAIN log : log[i].time >= start}
           n == Len(log)
           t == Since(log, start)
<1>1. n \in Nat /\ DOMAIN log = 1..n /\ \A i \in 1..n : log[i] \in X
  OBVIOUS
<1>2. t = IF reached = {} THEN <<>> ELSE SubSeq(log, Min(reached), n)
  BY DEF Since
<1>3. CASE reached = {}
  <2>a. t = <<>>  BY <1>2, <1>3
  <2>b. ToSet(<<>>) = {}
    <3>1. DOMAIN <<>> = {}  OBVIOUS
    <3> QED  BY <3>1 DEF ToSet
  <2>1. t = <<>> /\ ToSet(t) = {}
    <3> HIDE DEF t
    <3> QED  BY <2>a, <2>b
  <2>2. \A x \in ToSet(log) : ~(x.time >= start)  BY <1>1, <1>3 DEF ToSet
  <2>3. t \in Seq(X)  BY <2>1
  <2> HIDE DEF t
  <2> QED  BY <2>1, <2>2, <2>3 DEF t
<1>4. CASE reached # {}
  <2>1. PICK m \in reached : m = Min(reached) /\ \A i \in reached : m <= i
    <3>1. reached \in SUBSET Nat  BY <1>1
    <3> HIDE DEF reached
    <3>2. \E m \in reached : \A i \in reached : m =< i  BY <1>4, <3>1, LeastNumber
    <3>3. Min(reached) \in reached /\ \A i \in reached : Min(reached) =< i
      BY <3>2 DEF Min
    <3> QED  BY <3>3
  <2>2. m \in 1..n /\ log[m].time >= start  BY <1>1, <2>1
  <2>3. t = SubSeq(log, m, n)  BY <1>2, <1>4, <2>1
  <2> HIDE DEF t, n, reached
  <2>4. /\ t \in Seq(X) /\ Len(t) = n - m + 1 /\ DOMAIN t = 1..n - m + 1
        /\ \A i \in 1..n - m + 1 : t[i] = log[m + i - 1]
    <3>1. SubSeq(log, m, n) \in Seq(X)
      BY <1>1, <2>2
    <3> QED  BY <1>1, <2>2, <2>3, <3>1
  <2>5. \A i \in 1..n - m + 1 : m + i - 1 \in m..n /\ m + i - 1 \in 1..n
    BY <1>1, <2>2
  <2>6. \A j \in m..n : j - m + 1 \in 1..n - m + 1 /\ t[j - m + 1] = log[j]
    <3> SUFFICES ASSUME NEW j \in m..n
                 PROVE  j - m + 1 \in 1..n - m + 1 /\ t[j - m + 1] = log[j]
      OBVIOUS
    <3>1. j - m + 1 \in 1..n - m + 1 /\ m + (j - m + 1) - 1 = j
      BY <1>1, <2>2
    <3> QED  BY <2>4, <3>1
  <2>7. ToSet(t) \subseteq ToSet(log)
    <3> SUFFICES ASSUME NEW x \in ToSet(t) PROVE x \in ToSet(log)
      OBVIOUS
    <3>1. PICK i \in 1..n - m + 1 : x = t[i]  BY <2>4 DEF ToSet
    <3> QED  BY <1>1, <2>4, <2>5, <3>1 DEF ToSet
  <2>8. ASSUME NEW x \in ToSet(log), x.time >= start PROVE x \in ToSet(t)
    <3>1. PICK j \in 1..n : x = log[j]  BY <1>1 DEF ToSet
    <3>2. j \in reached  BY <1>1, <2>8, <3>1 DEF reached
    <3>3. j \in m..n  BY <1>1, <2>1, <2>2, <3>2
    <3>4. t[j - m + 1] = log[j] /\ j - m + 1 \in DOMAIN t  BY <2>4, <2>6, <3>3
    <3> QED  BY <3>1, <3>4 DEF ToSet
  <2>9. ASSUME Sorted(log), NEW x \in ToSet(t) PROVE x.time >= start
    <3>1. PICK i \in 1..n - m + 1 : x = t[i]  BY <2>4 DEF ToSet
    <3>2. PICK j \in m..n : j \in 1..n /\ x = log[j]  BY <2>4, <2>5, <3>1
    <3>3. CASE j = m  BY <2>2, <3>2, <3>3
    <3>4. CASE j # m
      <4>1. m < j  BY <1>1, <2>2, <3>2, <3>4
      <4>2. log[m].time <= log[j].time  BY <1>1, <2>2, <2>9, <3>2, <4>1 DEF Sorted
      <4> QED  BY <1>1, <2>2, <3>2, <4>2
    <3> QED  BY <3>3, <3>4
  <2> QED  BY <2>4, <2>7, <2>8, <2>9 DEF t
<1> QED  BY <1>3, <1>4
--------------------------------------------------------------------------------
(***************************************************************************)
(* What a correlation gathers.                                             *)
(***************************************************************************)
InWindow(trigger, time) == time \in trigger.time - Window .. trigger.time + Window

\* The items of a sequence that are in a set.
Within(s, S) == {i \in DOMAIN s : s[i] \in S}

\* The items of a sequence that are in S.
LEMMA PickedAre ==
    ASSUME NEW X, NEW s \in Seq(X), NEW S
    PROVE  /\ Items(s, Within(s, S)) \in Seq(X)
           /\ ToSet(Items(s, Within(s, S))) = ToSet(s) \cap S
<1>1. Within(s, S) \cap DOMAIN s = Within(s, S)  BY DEF Within
<1>2. {s[i] : i \in Within(s, S)} = ToSet(s) \cap S  BY DEF ToSet, Within
<1> QED  BY <1>1, <1>2, ItemsAre

\* gatherXIDEvents and gatherK8sEvents find every event of the window; in a log that is
\* in order they find no other.
LEMMA EventsGathered ==
    ASSUME NEW X, \A x \in X : x.time \in Int, NEW log \in Seq(X),
           NEW trigger, trigger.time \in Int
    PROVE  LET gathered == ToSet(gatherEvents(log, trigger))
               near == {x \in ToSet(log) : InWindow(trigger, x.time)}
           IN  /\ gatherEvents(log, trigger) \in Seq(X)
               /\ near \subseteq gathered /\ gathered \subseteq ToSet(log)
               /\ Sorted(log) => gathered = near
<1> DEFINE start == trigger.time - Window
           end == trigger.time + Window
           recent == Since(log, start)
           early == {x \in X : x.time <= end}
           chosen == {i \in DOMAIN recent : recent[i].time <= end}
<1>1. start \in Int /\ end \in Int  BY WindowAssumption
<1>2. gatherEvents(log, trigger) = Items(recent, chosen)
  BY DEF gatherEvents, UpTo
<1> HIDE DEF start, end
<1>3. /\ recent \in Seq(X)
      /\ ToSet(recent) \subseteq ToSet(log)
      /\ \A x \in ToSet(log) : x.time >= start => x \in ToSet(recent)
      /\ Sorted(log) => \A x \in ToSet(recent) : x.time >= start
  BY <1>1, SinceIs
<1> HIDE DEF recent
<1>4. chosen = Within(recent, early)
  BY <1>3 DEF Within
<1>5. /\ gatherEvents(log, trigger) \in Seq(X)
      /\ ToSet(gatherEvents(log, trigger)) = ToSet(recent) \cap early
  <2> HIDE DEF early, chosen
  <2> QED  BY <1>2, <1>3, <1>4, PickedAre
<1>6. ToSet(log) \subseteq X  BY DEF ToSet
<1>7. \A x \in X : InWindow(trigger, x.time) <=> x.time >= start /\ x.time <= end
  BY <1>1 DEF InWindow, start, end
<1> QED  BY <1>3, <1>5, <1>6, <1>7

\* gatherGPUSnapshots finds the recorded snapshots of the window.
LEMMA SnapshotsGathered ==
    ASSUME NEW X, \A x \in X : x.time \in Int, NEW log \in Seq(X), Sorted(log),
           NEW trigger, trigger.time \in Int, NEW now \in Int
    PROVE  /\ gatherGPUSnapshots(log, trigger, now) \in Seq(X)
           /\ ToSet(gatherGPUSnapshots(log, trigger, now))
                = {x \in ToSet(log) : InWindow(trigger, x.time) /\ x.time >= now - Lookback}
<1> DEFINE start == now - Lookback
           recent == Since(log, start)
           near == {x \in X : InWindow(trigger, x.time)}
           Outside(s) == s.time < trigger.time - Window \/ s.time > trigger.time + Window
           chosen == {i \in DOMAIN recent : ~Outside(recent[i])}
<1>1. start \in Int  BY WindowAssumption
<1>2. gatherGPUSnapshots(log, trigger, now) = Items(recent, chosen)
  BY DEF gatherGPUSnapshots
<1> HIDE DEF start
<1>3. /\ recent \in Seq(X)
      /\ ToSet(recent) \subseteq ToSet(log)
      /\ \A x \in ToSet(log) : x.time >= start => x \in ToSet(recent)
      /\ \A x \in ToSet(recent) : x.time >= start
  BY <1>1, SinceIs
<1> HIDE DEF recent
<1>4. chosen = Within(recent, near)
  <2>1. \A x \in X : ~Outside(x) <=> InWindow(trigger, x.time)
    BY WindowAssumption DEF InWindow
  <2> HIDE DEF Outside
  <2> QED  BY <1>3, <2>1 DEF Within
<1>5. /\ gatherGPUSnapshots(log, trigger, now) \in Seq(X)
      /\ ToSet(gatherGPUSnapshots(log, trigger, now)) = ToSet(recent) \cap near
  <2> HIDE DEF near, chosen
  <2> QED  BY <1>2, <1>3, <1>4, PickedAre
<1>6. ToSet(log) \subseteq X  BY DEF ToSet
<1> QED  BY <1>3, <1>5, <1>6 DEF start

\* What a flattened sequence of sequences holds.
LEMMA FlattenHolds ==
    ASSUME NEW X, NEW seqs \in Seq(Seq(X))
    PROVE  /\ FlattenSeq(seqs) \in Seq(X)
           /\ \A x : x \in ToSet(FlattenSeq(seqs))
                       <=> \E t \in ToSet(seqs) : x \in ToSet(t)
<1>1. /\ FlattenSeq(seqs) \in Seq(X)
      /\ ToSet(FlattenSeq(seqs)) = UNION {ToSet(seqs[i]) : i \in DOMAIN seqs}
  BY FlattenAre
<1>2. ToSet(seqs) = {seqs[i] : i \in DOMAIN seqs}  BY DEF ToSet
<1> QED  BY <1>1, <1>2

\* A sequence made by naming the item at each index.
LEMMA MadeOf ==
    ASSUME NEW X, NEW n \in Nat, NEW f \in [1..n -> X]
    PROVE  f \in Seq(X) /\ DOMAIN f = 1..n /\ ToSet(f) = {f[i] : i \in 1..n}
BY DEF ToSet

Observation == Event({"xid", "k8s"}) \cup Snapshot

GatheredEvents(trigger, world) ==
    ToSet(gatherEvents(world.xid, trigger)) \cup ToSet(gatherEvents(world.k8s, trigger))

GatheredSnapshots(trigger, world) ==
    {s \in ToSet(FlattenSeq(world.timelines)) :
        InWindow(trigger, s.time) /\ s.time >= world.now - Lookback}

\* Everything that is observed has a time.
LEMMA TimesAreNumbers ==
    \A x \in Observation : x.time \in Int
BY DEF Observation, Event, Snapshot

\* The logs and timelines hold observations of their kind.
LEMMA WorldIsObserved ==
    ASSUME NEW world \in World
    PROVE  /\ world.xid \in Seq(Observation) /\ world.k8s \in Seq(Observation)
           /\ world.timelines \in Seq(Seq(Observation)) /\ world.now \in Int
           /\ \A g \in DOMAIN world.timelines : world.timelines[g] \in Seq(Observation)
           /\ \A e \in ToSet(world.xid) : e \in Event({"xid"})
           /\ \A e \in ToSet(world.k8s) : e \in Event({"k8s"})
           /\ \A g \in DOMAIN world.timelines : \A s \in ToSet(world.timelines[g]) : s \in Snapshot
<1>1. /\ world.xid \in Seq(Event({"xid"})) /\ world.k8s \in Seq(Event({"k8s"}))
      /\ world.timelines \in Seq(Seq(Snapshot)) /\ world.now \in Int
  BY DEF World
<1>2. /\ Event({"xid"}) \subseteq Observation /\ Event({"k8s"}) \subseteq Observation
      /\ Snapshot \subseteq Observation
  BY DEF Observation, Event
<1>3. \A S, T : S \subseteq T => Seq(S) \subseteq Seq(T)
  OBVIOUS
<1>4. /\ \A e \in ToSet(world.xid) : e \in Event({"xid"})
      /\ \A e \in ToSet(world.k8s) : e \in Event({"k8s"})
  BY <1>1 DEF ToSet
<1>5. \A g \in DOMAIN world.timelines : world.timelines[g] \in Seq(Snapshot)
  BY <1>1
<1>6. \A s \in Seq(Snapshot) : \A x \in ToSet(s) : x \in Snapshot
  BY DEF ToSet
<1>7. Seq(Snapshot) \subseteq Seq(Observation)
  BY <1>2, <1>3
<1>8. Seq(Seq(Snapshot)) \subseteq Seq(Seq(Observation))
  BY <1>3, <1>7
<1> QED  BY <1>1, <1>2, <1>3, <1>4, <1>5, <1>6, <1>7, <1>8

\* A correlation that is not cut short gathers what lies within the window.
LEMMA GatheredAre ==
    ASSUME NEW world \in World, InOrder(world), NEW trigger, trigger.time \in Int
    PROVE  /\ Gathered(trigger, world, Whole) \in Seq(Observation)
           /\ ToSet(Gathered(trigger, world, Whole))
                = GatheredEvents(trigger, world) \cup GatheredSnapshots(trigger, world)
<1> DEFINE xids == gatherEvents(world.xid, trigger)
           k8s == gatherEvents(world.k8s, trigger)
           events == xids \o k8s
           Of(g) == gatherGPUSnapshots(world.timelines[g], trigger, world.now)
           first == [i \in DOMAIN events |-> <<events[i]>>]
           second == [g \in DOMAIN world.timelines |-> Of(g)]
           n == Len(events)
           m == Len(world.timelines)
<1>1. Batches(world, trigger) = first \o second  BY DEF Batches
<1>2. xids \in Seq(Observation) /\ k8s \in Seq(Observation)
  BY EventsGathered, TimesAreNumbers, WorldIsObserved
<1>3. events \in Seq(Observation) /\ ToSet(events) = GatheredEvents(trigger, world)
  BY <1>2, JoinedAre DEF GatheredEvents
<1> HIDE DEF xids, k8s, events
<1>4. \A g \in DOMAIN world.timelines :
         /\ Of(g) \in Seq(Observation)
         /\ ToSet(Of(g)) = {x \in ToSet(world.timelines[g]) :
                              InWindow(trigger, x.time) /\ x.time >= world.now - Lookback}
  <2> SUFFICES ASSUME NEW g \in DOMAIN world.timelines
               PROVE  /\ Of(g) \in Seq(Observation)
                      /\ ToSet(Of(g)) = {x \in ToSet(world.timelines[g]) :
                                           InWindow(trigger, x.time)
                                             /\ x.time >= world.now - Lookback}
    OBVIOUS
  <2>1. /\ world.timelines[g] \in Seq(Observation) /\ Sorted(world.timelines[g])
        /\ world.now \in Int
    BY WorldIsObserved DEF InOrder
  <2> QED  BY <2>1, SnapshotsGathered, TimesAreNumbers
<1> HIDE DEF Of
<1>5. m \in Nat /\ DOMAIN world.timelines = 1..m
  BY WorldIsObserved
<1>6. n \in Nat /\ DOMAIN events = 1..n /\ \A i \in 1..n : events[i] \in Observation
  BY <1>3
<1>7. /\ first \in Seq(Seq(Observation))
      /\ ToSet(first) = {<<events[i]>> : i \in 1..n}
  <2>1. first \in [1..n -> Seq(Observation)]  BY <1>6
  <2>2. \A i \in 1..n : first[i] = <<events[i]>>  BY <1>6
  <2> HIDE DEF first, n
  <2>3. first \in Seq(Seq(Observation)) /\ ToSet(first) = {first[i] : i \in 1..n}
    BY <1>6, <2>1, MadeOf
  <2> QED  BY <2>2, <2>3
<1>8. /\ second \in Seq(Seq(Observation))
      /\ ToSet(second) = {Of(g) : g \in 1..m}
  <2>1. second \in [1..m -> Seq(Observation)]  BY <1>4, <1>5
  <2>2. \A g \in 1..m : second[g] = Of(g)  BY <1>5
  <2> HIDE DEF second, m
  <2>3. second \in Seq(Seq(Observation)) /\ ToSet(second) = {second[g] : g \in 1..m}
    BY <1>5, <2>1, MadeOf
  <2> QED  BY <2>2, <2>3
<1> HIDE DEF first, second, n, m
<1>9. /\ Batches(world, trigger) \in Seq(Seq(Observation))
      /\ ToSet(Batches(world, trigger)) = ToSet(first) \cup ToSet(second)
  BY <1>1, <1>7, <1>8, JoinedAre
<1>10. /\ Gathered(trigger, world, Whole) \in Seq(Observation)
       /\ \A x : x \in ToSet(Gathered(trigger, world, Whole))
                   <=> \E t \in ToSet(Batches(world, trigger)) : x \in ToSet(t)
  <2>1. Gathered(trigger, world, Whole) = FlattenSeq(Batches(world, trigger))
    BY DEF Gathered
  <2> QED  BY <1>9, <2>1, FlattenHolds
<1>11. \A x : (\E t \in ToSet(first) : x \in ToSet(t)) <=> x \in ToSet(events)
  <2>1. \A i \in 1..n : ToSet(<<events[i]>>) = {events[i]}
    <3>1. \A e : ToSet(<<e>>) = {e}
      <4>1. \A e : DOMAIN <<e>> = {1} /\ <<e>>[1] = e  OBVIOUS
      <4> QED  BY <4>1 DEF ToSet
    <3> QED  BY <3>1
  <2>2. ToSet(events) = {events[i] : i \in 1..n}  BY <1>6 DEF ToSet
  <2> QED  BY <1>7, <2>1, <2>2
<1>12. \A x : (\E t \in ToSet(second) : x \in ToSet(t)) <=> x \in GatheredSnapshots(trigger, world)
  <2>1. \A x : x \in ToSet(FlattenSeq(world.timelines))
                 <=> \E t \in ToSet(world.timelines) : x \in ToSet(t)
    BY WorldIsObserved, FlattenHolds
  <2>2. ToSet(world.timelines) = {world.timelines[g] : g \in 1..m}
    BY <1>5 DEF ToSet
  <2>3. \A x : (\E t \in ToSet(second) : x \in ToSet(t))
                 <=> \E g \in 1..m : x \in ToSet(Of(g))
    BY <1>8
  <2>4. \A x : x \in ToSet(FlattenSeq(world.timelines))
                 <=> \E g \in 1..m : x \in ToSet(world.timelines[g])
    BY <2>1, <2>2
  <2> DEFINE NearTrigger(x) == InWindow(trigger, x.time) /\ x.time >= world.now - Lookback
  <2>5. \A x : \A g \in 1..m :
           x \in ToSet(Of(g)) <=> x \in ToSet(world.timelines[g]) /\ NearTrigger(x)
    BY <1>4, <1>5
  <2>6. \A x : x \in GatheredSnapshots(trigger, world)
                 <=> x \in ToSet(FlattenSeq(world.timelines)) /\ NearTrigger(x)
    BY DEF GatheredSnapshots
  <2> HIDE DEF NearTrigger
  <2> QED  BY <2>3, <2>4, <2>5, <2>6
<1> QED  BY <1>3, <1>9, <1>10, <1>11, <1>12

\* A function maps a finite set to a finite one.
LEMMA ImageIsFinite ==
    ASSUME NEW S, IsFiniteSet(S), NEW f, DOMAIN f = S
    PROVE  IsFiniteSet({f[x] : x \in S})
<1> DEFINE T == {f[x] : x \in S}
           g == [x \in S |-> f[x]]
<1>1. g \in Surjection(S, T)
  BY DEF Surjection
<1> HIDE DEF g, T
<1> QED  BY <1>1, FS_Surjection DEF T

\* A sequence holds finitely many items.
LEMMA ItemsAreFinite ==
    ASSUME NEW X, NEW s \in Seq(X)
    PROVE  IsFiniteSet(ToSet(s))
<1>1. DOMAIN s = 1..Len(s) /\ Len(s) \in Nat  OBVIOUS
<1>2. IsFiniteSet(1..Len(s))  BY <1>1, FS_Interval
<1> QED  BY <1>1, <1>2, ImageIsFinite DEF ToSet

\* What an incident is made of.
EntriesAbout(trigger, events, snapshots) ==
    {EventEntry(trigger)} \cup {EventEntry(e) : e \in events}
    \cup UNION {buildGPUSnapshotEntries(s) : s \in snapshots}

\* A timeline is made of finitely many entries.
LEMMA EntriesAreFinite ==
    ASSUME NEW trigger, NEW events, IsFiniteSet(events), NEW snapshots, IsFiniteSet(snapshots)
    PROVE  IsFiniteSet(EntriesAbout(trigger, events, snapshots))
<1> DEFINE f == [e \in events |-> EventEntry(e)]
           g == [s \in snapshots |-> buildGPUSnapshotEntries(s)]
<1>1. IsFiniteSet({EventEntry(e) : e \in events})
  <2>1. {EventEntry(e) : e \in events} = {f[e] : e \in events}  OBVIOUS
  <2>2. DOMAIN f = events  OBVIOUS
  <2> HIDE DEF f
  <2> QED  BY <2>1, <2>2, ImageIsFinite
<1>2. IsFiniteSet({buildGPUSnapshotEntries(s) : s \in snapshots})
  <2>1. {buildGPUSnapshotEntries(s) : s \in snapshots} = {g[s] : s \in snapshots}  OBVIOUS
  <2>2. DOMAIN g = snapshots  OBVIOUS
  <2> HIDE DEF g
  <2> QED  BY <2>1, <2>2, ImageIsFinite
<1>3. ASSUME NEW s PROVE IsFiniteSet(buildGPUSnapshotEntries(s))
  <2> DEFINE a == Entry(s.time, <<"throttle", s.gpu, s.throttling>>)
             b == Entry(s.time, <<"ecc", s.gpu, s.correctable, s.uncorrectable>>)
             c == Entry(s.time, <<"temp", s.gpu, s.temp, s.threshold>>)
  <2>1. buildGPUSnapshotEntries(s) \subseteq {a, b, c}
    BY DEF buildGPUSnapshotEntries
  <2> HIDE DEF a, b, c
  <2>2. {a, b, c} = {a} \cup {b} \cup {c}  OBVIOUS
  <2>3. IsFiniteSet({a} \cup {b} \cup {c})  BY FS_Singleton, FS_Union
  <2> QED  BY <2>1, <2>2, <2>3, FS_Subset
<1>4. IsFiniteSet(UNION {buildGPUSnapshotEntries(s) : s \in snapshots})
  BY <1>2, <1>3, FS_UNION
<1>5. IsFiniteSet({EventEntry(trigger)})  BY FS_Singleton
<1> QED  BY <1>1, <1>4, <1>5, FS_Union DEF EntriesAbout

\* What a whole correlation returns: the events and snapshots gathered, and the entries
\* of some order of theirs without the later duplicates.
LEMMA IncidentIs ==
    ASSUME NEW world \in World, InOrder(world), NEW trigger, trigger.time \in Int,
           NEW incident \in Correlate(trigger, world, Whole)
    PROVE  /\ incident.trigger = trigger
           /\ ToSet(incident.related) = GatheredEvents(trigger, world)
           /\ incident.snapshots \in Seq(Observation)
           /\ ToSet(incident.snapshots) = GatheredSnapshots(trigger, world)
           /\ GatheredSnapshots(trigger, world) \subseteq Snapshot
           /\ \E order \in SortedByTime(EntriesAbout(trigger, GatheredEvents(trigger, world),
                                                     GatheredSnapshots(trigger, world))) :
                 incident.timeline = deduplicateTimeline(order)
           /\ incident.causality = DetectCausality(incident, incident.timeline)
<1> DEFINE items == Gathered(trigger, world, Whole)
           events == {x \in Observation : x.type # "gpu"}
           snapshots == {x \in Observation : x.type = "gpu"}
           related == Items(items, Within(items, events))
           seen == Items(items, Within(items, snapshots))
           partial == PartialIncident(trigger, items)
<1>1. /\ items \in Seq(Observation)
      /\ ToSet(items) = GatheredEvents(trigger, world) \cup GatheredSnapshots(trigger, world)
  BY GatheredAre
<1>2. /\ {i \in DOMAIN items : items[i].type # "gpu"} = Within(items, events)
      /\ {i \in DOMAIN items : items[i].type = "gpu"} = Within(items, snapshots)
  <2> HIDE DEF items
  <2> QED  BY <1>1 DEF Within
<1>3. incident \in {[partial EXCEPT !.timeline = timeline,
                                    !.pods = identifyAffectedPods(partial),
                                    !.causality = DetectCausality(partial, timeline)] :
                       timeline \in buildTimelines(partial)}
  <2> HIDE DEF partial
  <2> QED  BY DEF Correlate, partial
<1>a. /\ partial.trigger = trigger /\ partial.related = related /\ partial.snapshots = seen
      /\ DOMAIN partial = {"trigger", "related", "snapshots", "timeline", "pods", "causality"}
  <2> HIDE DEF items
  <2> QED  BY <1>2 DEF PartialIncident
<1> HIDE DEF partial
<1>4. PICK timeline \in buildTimelines(partial) :
         incident = [partial EXCEPT !.timeline = timeline,
                                    !.pods = identifyAffectedPods(partial),
                                    !.causality = DetectCausality(partial, timeline)]
  BY <1>3
<1> HIDE DEF items, related, seen, events, snapshots
<1>5. /\ incident.trigger = trigger /\ incident.related = related
      /\ incident.snapshots = seen /\ incident.timeline = timeline
      /\ incident.causality = DetectCausality(partial, timeline)
  BY <1>4, <1>a
<1>7. DetectCausality(partial, timeline) = DetectCausality(incident, timeline)
  BY <1>5, <1>a DEF DetectCausality, hasOOMEvent, Events
<1>8. /\ seen \in Seq(Observation)
      /\ ToSet(related) = ToSet(items) \cap events
      /\ ToSet(seen) = ToSet(items) \cap snapshots
  BY <1>1, PickedAre DEF related, seen
<1>9. /\ GatheredSnapshots(trigger, world) \subseteq Snapshot
      /\ GatheredEvents(trigger, world) \subseteq events
      /\ GatheredSnapshots(trigger, world) \subseteq snapshots
  <2>1. \A x \in GatheredEvents(trigger, world) : x \in Event({"xid", "k8s"})
    <3>1. /\ ToSet(gatherEvents(world.xid, trigger)) \subseteq ToSet(world.xid)
          /\ ToSet(gatherEvents(world.k8s, trigger)) \subseteq ToSet(world.k8s)
      BY EventsGathered, TimesAreNumbers, WorldIsObserved
    <3>2. Event({"xid"}) \subseteq Event({"xid", "k8s"}) /\ Event({"k8s"}) \subseteq Event({"xid", "k8s"})
      BY DEF Event
    <3> QED  BY <3>1, <3>2, WorldIsObserved DEF GatheredEvents
  <2>2. \A x \in GatheredSnapshots(trigger, world) : x \in Snapshot
    <3> SUFFICES ASSUME NEW x \in GatheredSnapshots(trigger, world) PROVE x \in Snapshot
      OBVIOUS
    <3>1. x \in ToSet(FlattenSeq(world.timelines))  BY DEF GatheredSnapshots
    <3>2. PICK t \in ToSet(world.timelines) : x \in ToSet(t)
      BY <3>1, WorldIsObserved, FlattenHolds
    <3>3. PICK g \in DOMAIN world.timelines : t = world.timelines[g]
      BY <3>2 DEF ToSet
    <3> QED  BY <3>2, <3>3, WorldIsObserved
  <2>3. /\ \A x \in Event({"xid", "k8s"}) : x.type # "gpu" /\ x \in Observation
        /\ \A x \in Snapshot : x.type = "gpu" /\ x \in Observation
    BY DEF Event, Snapshot, Observation
  <2> QED  BY <2>1, <2>2, <2>3 DEF events, snapshots
<1>10. events \cap snapshots = {}  BY DEF events, snapshots
<1>11. /\ ToSet(related) = GatheredEvents(trigger, world)
       /\ ToSet(seen) = GatheredSnapshots(trigger, world)
  BY <1>1, <1>8, <1>9, <1>10
<1>12. Entries(partial) = EntriesAbout(trigger, GatheredEvents(trigger, world),
                                       GatheredSnapshots(trigger, world))
  BY <1>a, <1>11 DEF Entries, EntriesAbout
<1>13. \E order \in SortedByTime(Entries(partial)) : timeline = deduplicateTimeline(order)
  BY <1>4 DEF buildTimelines
<1> QED  BY <1>5, <1>7, <1>8, <1>9, <1>11, <1>12, <1>13
--------------------------------------------------------------------------------
(***************************************************************************)
(* The invariant: the incident of a whole correlation is one that the      *)
(* correlator makes of what is observed, and the report is about it.       *)
(***************************************************************************)
AboutWorld ==
    /\ observed.of = "events" => observed.world \in Worlds
    /\ Explained =>
         /\ observed.of = "events"
         /\ \E trigger \in Event({"xid", "k8s"}) :
               answer.incident \in Correlate(trigger, observed.world, Whole)
         /\ answer.report.rootCause = Analyzer!Analyze(answer.incident).rootCause

\* The events and the snapshots that an explained incident is made of.
TheEvents == GatheredEvents(answer.incident.trigger, observed.world)
TheEntries == EntriesAbout(answer.incident.trigger, TheEvents, NearSnapshots)

\* The events of an incident and those that happened near the trigger.
LEMMA EventsAreNear ==
    ASSUME AboutWorld, Explained
    PROVE  /\ \A e \in NearEvents : e = answer.incident.trigger \/ e \in TheEvents
           /\ TheEvents \subseteq NearEvents \cup ToSet(observed.world.k8s)
           /\ Sorted(observed.world.k8s) => TheEvents \subseteq NearEvents
           /\ \A e \in NearEvents : e \in Event({"xid", "k8s"})
           /\ \A e \in TheEvents : e \in Event({"xid", "k8s"}) /\ (e.type = "xid" => e \in NearEvents)
<1> DEFINE world == observed.world
           trigger == answer.incident.trigger
           near(log) == {x \in ToSet(log) : InWindow(trigger, x.time)}
           G(log) == ToSet(gatherEvents(log, trigger))
<1>1. world \in World /\ InOrder(world)  BY ReportsAssumption DEF AboutWorld
<1>2. trigger \in Event({"xid", "k8s"})
  <2>1. PICK t \in Event({"xid", "k8s"}) : answer.incident \in Correlate(t, world, Whole)
    BY DEF AboutWorld
  <2>2. t.time \in Int  BY DEF Event
  <2> QED  BY <1>1, <2>1, <2>2, IncidentIs
<1>3. trigger.time \in Int  BY <1>2 DEF Event
<1>4. NearEvents = {trigger} \cup near(world.xid) \cup near(world.k8s)
  BY DEF NearEvents, Near, InWindow
<1> HIDE DEF world, trigger
<1>5. G(world.xid) = near(world.xid)
  BY <1>1, <1>3, EventsGathered, TimesAreNumbers, WorldIsObserved DEF InOrder
<1>6. /\ near(world.k8s) \subseteq G(world.k8s) /\ G(world.k8s) \subseteq ToSet(world.k8s)
      /\ Sorted(world.k8s) => G(world.k8s) = near(world.k8s)
  BY <1>1, <1>3, EventsGathered, TimesAreNumbers, WorldIsObserved
<1>7. TheEvents = G(world.xid) \cup G(world.k8s)
  BY DEF TheEvents, GatheredEvents, world, trigger
<1>8. /\ \A e \in ToSet(world.xid) : e \in Event({"xid", "k8s"}) /\ e.type = "xid"
      /\ \A e \in ToSet(world.k8s) : e \in Event({"xid", "k8s"}) /\ e.type = "k8s"
  BY <1>1, WorldIsObserved DEF Event
<1> HIDE DEF G
<1> QED  BY <1>2, <1>4, <1>5, <1>6, <1>7, <1>8 DEF world, trigger

\* The snapshots, the causality and the timeline of an incident that explains.
LEMMA IncidentTells ==
    ASSUME AboutWorld, Explained
    PROVE  /\ ToSet(answer.incident.related) = TheEvents
           /\ answer.incident.snapshots \in Seq(Observation)
           /\ ToSet(answer.incident.snapshots) = NearSnapshots
           /\ NearSnapshots \subseteq Snapshot
           /\ answer.incident.causality
                = DetectCausality(answer.incident, answer.incident.timeline)
           /\ \A e \in TheEntries : e.time \in Int
           /\ answer.incident.timeline \in Seq(TheEntries)
           /\ Sorted(answer.incident.timeline)
           /\ \A e \in TheEntries : \E i \in DOMAIN answer.incident.timeline :
                 /\ answer.incident.timeline[i].key = e.key
                 /\ answer.incident.timeline[i].time <= e.time
<1> DEFINE world == observed.world
           incident == answer.incident
           trigger == incident.trigger
<1>1. world \in World /\ InOrder(world)  BY ReportsAssumption DEF AboutWorld
<1>2. PICK t \in Event({"xid", "k8s"}) : incident \in Correlate(t, world, Whole)
  BY DEF AboutWorld
<1>3. t.time \in Int  BY DEF Event
<1>4. /\ t = trigger
      /\ ToSet(incident.related) = TheEvents
      /\ incident.snapshots \in Seq(Observation)
      /\ ToSet(incident.snapshots) = GatheredSnapshots(trigger, world)
      /\ GatheredSnapshots(trigger, world) \subseteq Snapshot
      /\ incident.causality = DetectCausality(incident, incident.timeline)
  BY <1>1, <1>2, <1>3, IncidentIs DEF TheEvents
<1>5. GatheredSnapshots(trigger, world) = NearSnapshots
  BY DEF GatheredSnapshots, NearSnapshots, Recorded, Near, InWindow
<1>6. PICK order \in SortedByTime(TheEntries) : incident.timeline = deduplicateTimeline(order)
  BY <1>1, <1>2, <1>3, <1>4, <1>5, IncidentIs DEF TheEntries, TheEvents
<1>7. IsFiniteSet(TheEntries)
  <2>1. Gathered(trigger, world, Whole) \in Seq(Observation)
    BY <1>1, <1>3, <1>4, GatheredAre
  <2>2. IsFiniteSet(ToSet(Gathered(trigger, world, Whole)))
    BY <2>1, ItemsAreFinite
  <2>3. ToSet(Gathered(trigger, world, Whole)) = TheEvents \cup NearSnapshots
    BY <1>1, <1>3, <1>4, <1>5, GatheredAre DEF TheEvents
  <2>4. IsFiniteSet(TheEvents) /\ IsFiniteSet(NearSnapshots)
    BY <2>2, <2>3, FS_Subset
  <2> QED  BY <2>4, EntriesAreFinite DEF TheEntries
<1>8. \A e \in TheEntries : e.time \in Int
  <2>1. \A s \in NearSnapshots : s.time \in Int
    BY WindowAssumption, <1>3, <1>4 DEF NearSnapshots, Near
  <2>2. \A e \in Event({"xid", "k8s"}) : EventEntry(e).time \in Int
    BY DEF Event, EventEntry, Entry
  <2>3. \A s : \A e \in buildGPUSnapshotEntries(s) : e.time = s.time
    BY DEF buildGPUSnapshotEntries, Entry
  <2> QED  BY <1>2, <1>4, <2>1, <2>2, <2>3, EventsAreNear DEF TheEntries, EntriesAbout
<1>9. order \in Seq(TheEntries) /\ ToSet(order) = TheEntries /\ Sorted(order)
  BY <1>6, <1>7, <1>8, OrdersAre
<1> HIDE DEF incident
<1> QED  BY <1>4, <1>5, <1>6, <1>8, <1>9, FirstsAre DEF incident

\* The timeline of such an incident is faithful: an entry left out repeats an earlier one.
LEMMA FaithfulTimeline == AboutWorld => TimelineIsFaithful
<1> SUFFICES ASSUME AboutWorld, Explained PROVE TimelineIsFaithful
  BY DEF TimelineIsFaithful
<1> DEFINE timeline == answer.incident.timeline
           near == {EventEntry(e) : e \in NearEvents}
                   \cup UNION {buildGPUSnapshotEntries(s) : s \in NearSnapshots}
           known == near \cup {EventEntry(e) : e \in ToSet(observed.world.k8s)}
<1>1. ToSet(timeline) \subseteq TheEntries
  <2> HIDE DEF timeline
  <2>1. timeline \in Seq(TheEntries)  BY IncidentTells DEF timeline
  <2> QED  BY <2>1 DEF ToSet
<1>2. near \subseteq TheEntries
  BY EventsAreNear DEF TheEntries, EntriesAbout
<1>3. answer.incident.trigger \in NearEvents  BY DEF NearEvents
<1>4. TheEntries \subseteq known
  BY <1>3, EventsAreNear DEF TheEntries, EntriesAbout
<1>5. Sorted(observed.world.k8s) => TheEntries \subseteq near
  BY <1>3, EventsAreNear DEF TheEntries, EntriesAbout
<1>6. ToSet(timeline) \subseteq IF Sorted(observed.world.k8s) THEN near ELSE known
  <2> HIDE DEF near, known, timeline
  <2> QED  BY <1>1, <1>4, <1>5
<1>7. /\ Sorted(timeline)
      /\ \A e \in near : \E i \in DOMAIN timeline :
            timeline[i].key = e.key /\ timeline[i].time <= e.time
  <2> HIDE DEF near
  <2> QED  BY <1>2, IncidentTells
<1> HIDE DEF near, known
<1> QED  BY <1>6, <1>7 DEF TimelineIsFaithful, near, known

\* The sign that an entry of each type stands for.
LEMMA SignsAre ==
    ASSUME NEW s
    PROVE  /\ \A e \in buildGPUSnapshotEntries(s) :
                 /\ e.time = s.time
                 /\ TypeOf(e) \in {"throttle", "ecc", "temp"}
                 /\ TypeOf(e) = "throttle" => IsThrottled(s)
                 /\ TypeOf(e) = "ecc" => HasECCErrors(s)
                 /\ TypeOf(e) = "temp" => isHighTemperature(s)
           /\ IsThrottled(s) => \E e \in buildGPUSnapshotEntries(s) : e.key[1] = "throttle"
           /\ HasECCErrors(s) => \E e \in buildGPUSnapshotEntries(s) : e.key[1] = "ecc"
<1> DEFINE a == Entry(s.time, <<"throttle", s.gpu, s.throttling>>)
           b == Entry(s.time, <<"ecc", s.gpu, s.correctable, s.uncorrectable>>)
           c == Entry(s.time, <<"temp", s.gpu, s.temp, s.threshold>>)
<1>1. /\ a.time = s.time /\ TypeOf(a) = "throttle" /\ a.key[1] = "throttle"
      /\ b.time = s.time /\ TypeOf(b) = "ecc" /\ b.key[1] = "ecc"
      /\ c.time = s.time /\ TypeOf(c) = "temp" /\ c.key[1] = "temp"
  BY DEF Entry, TypeOf
<1> HIDE DEF a, b, c
<1>2. buildGPUSnapshotEntries(s)
        = {e \in {a, b, c} : CASE TypeOf(e) = "throttle" -> IsThrottled(s)
                               [] TypeOf(e) = "ecc" -> HasECCErrors(s)
                               [] TypeOf(e) = "temp" -> isHighTemperature(s)}
  BY DEF buildGPUSnapshotEntries, a, b, c
<1> QED  BY <1>1, <1>2

\* What an entry of a timeline tells.
LEMMA EntriesTell ==
    ASSUME AboutWorld, Explained, NEW i \in DOMAIN answer.incident.timeline
    PROVE  LET entry == answer.incident.timeline[i]
               Seen(Sign(_)) == \E s \in NearSnapshots : Sign(s) /\ s.time = entry.time
           IN  /\ entry.time \in Int
               /\ TypeOf(entry) = "temp" => Seen(isHighTemperature)
               /\ TypeOf(entry) = "throttle" => Seen(IsThrottled)
               /\ TypeOf(entry) = "ecc" => Seen(HasECCErrors)
               /\ TypeOf(entry) = "xid" =>
                    \E e \in NearEvents : e.type = "xid" /\ e.time = entry.time
<1> DEFINE entry == answer.incident.timeline[i]
<1>1. entry \in TheEntries /\ entry.time \in Int
  <2> DEFINE timeline == answer.incident.timeline
  <2>1. timeline \in Seq(TheEntries) /\ i \in DOMAIN timeline  BY IncidentTells
  <2> HIDE DEF timeline
  <2>2. timeline[i] \in TheEntries  BY <2>1
  <2> QED  BY <2>2, IncidentTells DEF timeline
<1> HIDE DEF entry
<1>2. CASE \E e \in NearEvents \cup TheEvents : entry = EventEntry(e)
  <2>1. PICK e \in NearEvents \cup TheEvents : entry = EventEntry(e)  BY <1>2
  <2>2. e \in Event({"xid", "k8s"}) /\ (e.type = "xid" => e \in NearEvents)
    BY EventsAreNear
  <2>3. TypeOf(entry) = e.type /\ entry.time = e.time
    BY <2>1 DEF TypeOf, EventEntry, Entry
  <2>4. e.type \in {"xid", "k8s"}  BY <2>2 DEF Event
  <2> QED  BY <1>1, <2>2, <2>3, <2>4 DEF entry
<1>3. CASE \E s \in NearSnapshots : entry \in buildGPUSnapshotEntries(s)
  <2>1. PICK s \in NearSnapshots : entry \in buildGPUSnapshotEntries(s)  BY <1>3
  <2> QED  BY <1>1, <2>1, SignsAre DEF entry
<1>4. answer.incident.trigger \in NearEvents  BY DEF NearEvents
<1> QED  BY <1>1, <1>2, <1>3, <1>4 DEF TheEntries, EntriesAbout

\* Its causality follows time: the timeline is sorted, and each entry stands for a sign.
LEMMA TimelyCausality == AboutWorld => CausalityFollowsTime
<1> SUFFICES ASSUME AboutWorld, Explained PROVE CausalityFollowsTime
  BY DEF CausalityFollowsTime
<1> DEFINE timeline == answer.incident.timeline
           causality == answer.incident.causality
           xids == {e.time : e \in {x \in NearEvents : x.type = "xid"}}
           At(Sign(_)) == {s.time : s \in {n \in NearSnapshots : Sign(n)}}
           Precedes(causes, effects) == \E c \in causes, e \in effects : c <= e
           Told(type) == {timeline[i].time : i \in {j \in DOMAIN timeline : TypeOf(timeline[j]) = type}}
<1>1. causality = DetectCausality(answer.incident, timeline)  BY IncidentTells
<1>2. /\ Told("temp") \subseteq At(isHighTemperature)
      /\ Told("throttle") \subseteq At(IsThrottled)
      /\ Told("ecc") \subseteq At(HasECCErrors)
      /\ Told("xid") \subseteq xids
  BY EntriesTell
<1>3. \A a, b \in {"temp", "throttle", "ecc", "xid"} :
         hasSequence(timeline, a, b) => Precedes(Told(a), Told(b))
  <2> SUFFICES ASSUME NEW a, NEW b, hasSequence(timeline, a, b)
               PROVE  Precedes(Told(a), Told(b))
    OBVIOUS
  <2>1. PICK i, j \in DOMAIN timeline :
               i < j /\ TypeOf(timeline[i]) = a /\ TypeOf(timeline[j]) = b
    BY DEF hasSequence
  <2>2. timeline[i].time <= timeline[j].time
    BY <2>1, IncidentTells DEF Sorted
  <2>3. timeline[i].time \in Told(a) /\ timeline[j].time \in Told(b)
    <3> HIDE DEF timeline
    <3> QED  BY <2>1
  <2> HIDE DEF Told, timeline
  <2> QED  BY <2>2, <2>3
<1>4. causality = "thermal_cascade" =>
         hasSequence(timeline, "temp", "throttle") /\ hasSequence(timeline, "throttle", "xid")
  BY <1>1 DEF DetectCausality
<1>5. causality = "memory_failure" => hasSequence(timeline, "ecc", "xid")
  BY <1>1 DEF DetectCausality
<1>6. causality = "software_oom" => \A type \in {"xid", "ecc", "throttle"} : ~contains(timeline, type)
  BY <1>1 DEF DetectCausality
<1>7. \A e \in TheEntries : contains(timeline, TypeOf(e))
  BY IncidentTells DEF contains, TypeOf
<1>8. \A e \in NearEvents : e.type = "xid" => contains(timeline, "xid")
  <2> SUFFICES ASSUME NEW e \in NearEvents, e.type = "xid" PROVE contains(timeline, "xid")
    OBVIOUS
  <2>1. EventEntry(e) \in TheEntries  BY EventsAreNear DEF TheEntries, EntriesAbout
  <2>2. TypeOf(EventEntry(e)) = "xid"  BY DEF TypeOf, EventEntry, Entry
  <2> QED  BY <1>7, <2>1, <2>2
<1>9. \A s \in NearSnapshots :
         /\ HasECCErrors(s) => contains(timeline, "ecc")
         /\ IsThrottled(s) => contains(timeline, "throttle")
  <2> SUFFICES ASSUME NEW s \in NearSnapshots
               PROVE  /\ HasECCErrors(s) => contains(timeline, "ecc")
                      /\ IsThrottled(s) => contains(timeline, "throttle")
    OBVIOUS
  <2>1. \A e \in buildGPUSnapshotEntries(s) : e \in TheEntries  BY DEF TheEntries, EntriesAbout
  <2>2. \A e \in buildGPUSnapshotEntries(s) : contains(timeline, e.key[1])
    BY <1>7, <2>1 DEF TypeOf
  <2> QED  BY <2>2, SignsAre
<1> HIDE DEF timeline, causality
<1>10. causality = "software_oom" => xids = {} /\ At(HasECCErrors) = {} /\ At(IsThrottled) = {}
  BY <1>6, <1>8, <1>9
<1>11. causality = "thermal_cascade" =>
          Precedes(At(isHighTemperature), At(IsThrottled)) /\ Precedes(At(IsThrottled), xids)
  <2> HIDE DEF At, Told, xids
  <2> QED  BY <1>2, <1>3, <1>4
<1>12. causality = "memory_failure" => Precedes(At(HasECCErrors), xids)
  <2> HIDE DEF At, Told, xids
  <2> QED  BY <1>2, <1>3, <1>5
<1> QED  BY <1>10, <1>11, <1>12 DEF CausalityFollowsTime, timeline, causality
--------------------------------------------------------------------------------
(***************************************************************************)
(* Every answer keeps the invariant.                                       *)
(***************************************************************************)
\* The terminations of a pod's containers have a reason, a message and a time.
LEMMA TerminationsAre ==
    ASSUME NEW pod \in Pod
    PROVE  /\ Terminations(pod) \in Seq(Run)
           /\ \A t \in ToSet(Terminations(pod)) :
                 t.reason \in STRING /\ t.message \in STRING /\ t.time \in Int
<1> DEFINE Runs(containers, run) == [i \in DOMAIN containers |-> containers[i][run]]
           Failed(t) == t # Running /\ t.code # 0
           Ended(t) == t # Running /\ (t.reason = "OOMKilled" \/ t.code # 0)
           current == Runs(pod.init, "now") \o Runs(pod.containers, "now")
           previous == Runs(pod.containers, "last")
           failed == Items(current, {i \in DOMAIN current : Failed(current[i])})
           counted == Items(previous, {i \in DOMAIN previous : Ended(previous[i])})
<1>1. Terminations(pod) = failed \o counted
  BY DEF Terminations
<1>2. ASSUME NEW containers \in Seq(Container), NEW run \in {"now", "last"}
      PROVE  Runs(containers, run) \in Seq(Run)
  <2>1. \A i \in DOMAIN containers : containers[i] \in Container  OBVIOUS
  <2>2. \A c \in Container : c[run] \in Run  BY DEF Container
  <2>3. Runs(containers, run) \in [1..Len(containers) -> Run]
    <3>1. DOMAIN containers = 1..Len(containers)  OBVIOUS
    <3> QED  BY <2>1, <2>2, <3>1
  <2>4. Len(containers) \in Nat  OBVIOUS
  <2> HIDE DEF Runs
  <2> QED  BY <2>3, <2>4, MadeOf
<1>3. pod.init \in Seq(Container) /\ pod.containers \in Seq(Container)  BY DEF Pod
<1> HIDE DEF Runs
<1>4. current \in Seq(Run) /\ previous \in Seq(Run)
  BY <1>2, <1>3, JoinedAre
<1> HIDE DEF current, previous
<1>5. /\ failed \in Seq(Run)
      /\ \A t \in ToSet(failed) : t \in Run /\ t # Running
  <2>1. /\ failed \in Seq(Run)
        /\ ToSet(failed) = {current[i] : i \in {i \in DOMAIN current : Failed(current[i])}
                                                 \cap DOMAIN current}
    BY <1>4, ItemsAre
  <2> HIDE DEF failed
  <2> QED  BY <1>4, <2>1
<1>6. /\ counted \in Seq(Run)
      /\ \A t \in ToSet(counted) : t \in Run /\ t # Running
  <2>1. /\ counted \in Seq(Run)
        /\ ToSet(counted) = {previous[i] : i \in {i \in DOMAIN previous : Ended(previous[i])}
                                                   \cap DOMAIN previous}
    BY <1>4, ItemsAre
  <2> HIDE DEF counted
  <2> QED  BY <1>4, <2>1
<1> HIDE DEF failed, counted
<1>7. ToSet(Terminations(pod)) = ToSet(failed) \cup ToSet(counted)
  BY <1>1, <1>5, <1>6, JoinedAre
<1>8. Terminations(pod) \in Seq(Run)
  BY <1>1, <1>5, <1>6, JoinedAre
<1> QED  BY <1>5, <1>6, <1>7, <1>8 DEF Run

\* The trigger that buildTriggerEvent makes of a pod's failure is an event.
LEMMA TriggerBuilt ==
    ASSUME NEW pod \in Pod, ExtractPodFailure(pod) # NoFailure
    PROVE  buildTriggerEvent(pod, ExtractPodFailure(pod)) \in Event({"xid", "k8s"})
<1> DEFINE found == Terminations(pod)
           failure == ExtractPodFailure(pod)
<1>1. failure.what \in STRING /\ failure.message \in STRING /\ failure.time \in Int
  <2>1. CASE pod.phase = "Failed"
    <3>1. failure = PodFailure(pod, pod.since)  BY <2>1 DEF ExtractPodFailure
    <3> HIDE DEF failure
    <3> QED  BY <3>1 DEF Pod, PodFailure
  <2>2. CASE pod.phase # "Failed"
    <3>1. found # <<>> /\ failure = PodFailure(found[1], found[1].time)
      BY <2>2 DEF ExtractPodFailure
    <3>2. found \in Seq(Run)  BY TerminationsAre
    <3> HIDE DEF found, failure
    <3>3. found[1] \in ToSet(found)  BY <3>1, <3>2 DEF ToSet
    <3>4. /\ found[1].reason \in STRING /\ found[1].message \in STRING
          /\ found[1].time \in Int
      BY <3>3, TerminationsAre DEF found
    <3> QED  BY <3>1, <3>4 DEF PodFailure
  <2> QED  BY <2>1, <2>2
<1>2. pod.name \in Nat /\ pod.node \in STRING  BY DEF Pod
<1> HIDE DEF failure
<1>3. buildTriggerEvent(pod, failure) \in Event({"xid", "k8s"})
  BY <1>1, <1>2 DEF buildTriggerEvent, Event
<1> QED  BY <1>3 DEF failure

\* Nothing is explained at first.
LEMMA InitAboutWorld == Init => AboutWorld
<1> SUFFICES ASSUME Init PROVE AboutWorld
  OBVIOUS
<1>1. observed.of = "events" => observed.world \in Worlds  BY DEF Init
<1>2. answer = [tool |-> "none"]  BY DEF Init
<1>3. "whole" \notin DOMAIN answer  BY <1>2
<1> QED  BY <1>1, <1>3 DEF AboutWorld, Explained

\* An answer that does not explain by an incident of all that was observed.
Unexplained == observed' = observed /\ ~Explained'

\* The tools that answer without an incident, or by a remembered one, explain nothing.
LEMMA OthersUnexplained ==
    /\ \A counted, ended : AskHealth(counted, ended) => Unexplained
    /\ \A tool, allowed, routed, wanted : AskAgents(tool, allowed, routed, wanted) => Unexplained
    /\ \A counted, k, ended : DescribeNode(counted, k, ended) => Unexplained
    /\ \A request, ended : AskTimeline(request, ended) => Unexplained
    /\ ReadAgent => Unexplained
    /\ AskAgain => Unexplained
<1>1. \A counted, ended : AskHealth(counted, ended) => Unexplained
  BY DEF AskHealth, Unexplained, Explained
<1>2. \A tool, allowed, routed, wanted : AskAgents(tool, allowed, routed, wanted) => Unexplained
  BY DEF AskAgents, Unexplained, Explained
<1>3. \A counted, k, ended : DescribeNode(counted, k, ended) => Unexplained
  BY DEF DescribeNode, Unexplained, Explained
<1>4. \A request, ended : AskTimeline(request, ended) => Unexplained
  BY DEF AskTimeline, Unexplained, Explained
<1>5. ReadAgent => Unexplained
  BY DEF ReadAgent, Unexplained, Explained
<1>6. AskAgain => Unexplained
  BY DEF AskAgain, ReportID, Unexplained, Explained
<1> QED  BY <1>1, <1>2, <1>3, <1>4, <1>5, <1>6

\* An answer that explains by an incident that the correlator made of the world.
Explains(incident) ==
    /\ answer'.incident = incident
    /\ answer'.report.rootCause = Analyzer!Analyze(incident).rootCause

\* What every action that correlates has to show.
LEMMA WorldExplained ==
    ASSUME AboutWorld, observed.of = "events", observed' = observed,
           Explained' => \E trigger \in Event({"xid", "k8s"}) :
                           \E incident \in Correlate(trigger, observed.world, Whole) :
                              Explains(incident)
    PROVE  AboutWorld'
BY DEF AboutWorld, Explains

\* The callback of a watcher preserves the invariant.
LEMMA CorrelationExplained ==
    ASSUME AboutWorld, NEW trigger \in Triggers, NEW cut, AutoCorrelate(trigger, cut)
    PROVE  AboutWorld'
<1>1. PICK incident \in Correlate(trigger, observed.world, cut) :
         answer' = [tool |-> "callback", incident |-> incident, whole |-> cut = Whole,
                    report |-> Analyzer!Analyze(incident)]
  BY DEF AutoCorrelate
<1>2. answer'.incident = incident /\ answer'.report = Analyzer!Analyze(incident)
      /\ answer'.whole <=> cut = Whole
  BY <1>1
<1>3. Explained' => Explains(incident) /\ incident \in Correlate(trigger, observed.world, Whole)
  BY <1>1, <1>2 DEF Explained, Explains
<1>4. trigger \in Event({"xid", "k8s"})  BY ReportsAssumption
<1>5. observed.of = "events" /\ observed' = observed  BY DEF AutoCorrelate
<1> QED  BY <1>3, <1>4, <1>5, WorldExplained

\* The incidents of a pod's failure are correlations of its trigger.
LEMMA IncidentsAre ==
    ASSUME NEW pod \in Pods, NEW found, NEW world,
           NEW incident \in Incidents(pod, found, TRUE, world, Whole)
    PROVE  \E trigger \in Event({"xid", "k8s"}) : incident \in Correlate(trigger, world, Whole)
<1> DEFINE failure == ExtractPodFailure(pod)
           trigger == buildTriggerEvent(pod, failure)
<1>1. pod \in Pod  BY ReportsAssumption
<1>2. failure # NoFailure /\ incident \in Correlate(trigger, world, Whole)
  BY DEF Incidents
<1>3. trigger \in Event({"xid", "k8s"})  BY <1>1, <1>2, TriggerBuilt
<1> HIDE DEF trigger
<1> QED  BY <1>2, <1>3

\* explain_failure preserves the invariant.
LEMMA PodExplained ==
    ASSUME AboutWorld, NEW pod \in Pods, NEW found, NEW correlating \in BOOLEAN, NEW cut,
           ExplainPod(pod, found, correlating, cut)
    PROVE  AboutWorld'
<1> DEFINE incidents == Incidents(pod, found, correlating, observed.world, cut)
<1>1. observed.of = "events" /\ observed' = observed  BY DEF ExplainPod
<1>2. \/ \E incident \in incidents :
            answer' = [tool |-> "explain_failure", incident |-> incident,
                       whole |-> correlating /\ cut = Whole,
                       report |-> ExplainFailure(pod, incident)]
      \/ answer' = ToolError
  BY DEF ExplainPod
<1> HIDE DEF incidents
<1>3. CASE answer' = ToolError
  <2>1. ~Explained'  BY <1>3 DEF Explained, ToolError
  <2> QED  BY <1>1, <2>1, WorldExplained
<1>4. CASE answer' # ToolError
  <2>1. PICK incident \in incidents :
           answer' = [tool |-> "explain_failure", incident |-> incident,
                      whole |-> correlating /\ cut = Whole,
                      report |-> ExplainFailure(pod, incident)]
    BY <1>2, <1>4
  <2>2. /\ answer'.incident = incident /\ answer'.report = ExplainFailure(pod, incident)
        /\ answer'.whole <=> correlating /\ cut = Whole
    BY <2>1
  <2>3. Explains(incident)
    BY <2>2 DEF Explains, ExplainFailure
  <2>4. Explained' => correlating = TRUE /\ cut = Whole
    BY <2>2 DEF Explained
  <2>5. ASSUME Explained'
        PROVE  \E trigger \in Event({"xid", "k8s"}) :
                  incident \in Correlate(trigger, observed.world, Whole)
    <3>1. incident \in Incidents(pod, found, TRUE, observed.world, Whole)
      BY <2>1, <2>4, <2>5 DEF incidents
    <3> QED  BY <3>1, IncidentsAre
  <2> QED  BY <1>1, <2>3, <2>5, WorldExplained
<1> QED  BY <1>3, <1>4

\* get_incident_report preserves the invariant.
LEMMA ReportExplained ==
    ASSUME AboutWorld, NEW pod \in Pods, NEW found, NEW correlating \in BOOLEAN, NEW cut,
           NEW recording, ReportPod(pod, found, correlating, cut, recording)
    PROVE  AboutWorld'
<1> DEFINE incidents == Incidents(pod, found, correlating, observed.world, cut)
           report(incident) == IncidentReport(incident, recording, Recorded, TRUE, TRUE)
<1>1. observed.of = "events" /\ observed' = observed  BY DEF ReportPod
<1>2. \/ \E incident \in incidents :
            answer' = [tool |-> "get_incident_report", incident |-> incident,
                       whole |-> correlating /\ cut = Whole,
                       report |-> report(incident)]
      \/ answer' = ToolError
  BY DEF ReportPod
<1> HIDE DEF incidents
<1>a. \A incident : report(incident).rootCause = Analyzer!Analyze(incident).rootCause
  BY DEF IncidentReport
<1> HIDE DEF report
<1>3. CASE answer' = ToolError
  <2>1. ~Explained'  BY <1>3 DEF Explained, ToolError
  <2> QED  BY <1>1, <2>1, WorldExplained
<1>4. CASE answer' # ToolError
  <2>1. PICK incident \in incidents :
           answer' = [tool |-> "get_incident_report", incident |-> incident,
                      whole |-> correlating /\ cut = Whole,
                      report |-> report(incident)]
    BY <1>2, <1>4
  <2>2. /\ answer'.incident = incident /\ answer'.report = report(incident)
        /\ answer'.whole <=> correlating /\ cut = Whole
    BY <2>1
  <2>3. Explains(incident)
    BY <1>a, <2>2 DEF Explains
  <2>4. Explained' => correlating = TRUE /\ cut = Whole
    BY <2>2 DEF Explained
  <2>5. ASSUME Explained'
        PROVE  \E trigger \in Event({"xid", "k8s"}) :
                  incident \in Correlate(trigger, observed.world, Whole)
    <3>1. incident \in Incidents(pod, found, TRUE, observed.world, Whole)
      BY <2>1, <2>4, <2>5 DEF incidents
    <3> QED  BY <3>1, IncidentsAre
  <2> QED  BY <1>1, <2>3, <2>5, WorldExplained
<1> QED  BY <1>3, <1>4

\* So does every step.
LEMMA NextAboutWorld == AboutWorld /\ [Next]_vars => AboutWorld'
<1> SUFFICES ASSUME AboutWorld, [Next]_vars PROVE AboutWorld'
  OBVIOUS
<1>1. ASSUME Unexplained PROVE AboutWorld'
  BY <1>1 DEF AboutWorld, Unexplained
<1>2. ASSUME Ask PROVE AboutWorld'
  <2>1. \/ \E counted, ended : AskHealth(counted, ended)
        \/ \E tool, allowed, routed, wanted : AskAgents(tool, allowed, routed, wanted)
        \/ \E counted, k, ended : DescribeNode(counted, k, ended)
        \/ \E request, ended : AskTimeline(request, ended)
        \/ ReadAgent
        \/ \E trigger \in Triggers : \E cut : AutoCorrelate(trigger, cut)
        \/ \E pod \in Pods, found, correlating \in BOOLEAN : \E cut :
              ExplainPod(pod, found, correlating, cut)
        \/ \E pod \in Pods, found, correlating \in BOOLEAN : \E cut, recording :
              ReportPod(pod, found, correlating, cut, recording)
    BY <1>2 DEF Ask
  <2> QED  BY <1>1, <2>1, OthersUnexplained, CorrelationExplained, PodExplained, ReportExplained
<1>3. ASSUME UNCHANGED vars PROVE AboutWorld'
  BY <1>3 DEF vars, AboutWorld, Explained
<1> QED  BY <1>1, <1>2, <1>3, OthersUnexplained DEF Next

\* The invariant.
LEMMA AlwaysAboutWorld == Spec => []AboutWorld
BY InitAboutWorld, NextAboutWorld, PTL DEF Spec

\* The timeline of an incident is in the order of time, tells of everything near the
\* trigger and of nothing else (buildTimeline and deduplicateTimeline, correlator.go:369).
THEOREM TimelinesAreFaithful == Spec => []TimelineIsFaithful
BY AlwaysAboutWorld, FaithfulTimeline, PTL

\* Each link of a causality, taken by itself, follows time: the two of a thermal cascade
\* need not be one chain.  Memory exhaustion is not diagnosed beside a sign of broken
\* hardware (DetectCausality, correlator.go:528), in whatever order sort.Slice left the
\* entries of one time.
THEOREM LinksFollowTime == Spec => []CausalityFollowsTime
BY AlwaysAboutWorld, TimelyCausality, PTL
--------------------------------------------------------------------------------
(***************************************************************************)
(* The analyzer's verdict: weights add up, and the first of the strongest  *)
(* conclusions is reported.                                                *)
(***************************************************************************)
\* What is required of the indicators of a pattern.
Weighed(indicators) ==
    /\ Len(indicators) \in Nat
    /\ \A i \in 1..Len(indicators) : indicators[i].weight \in Nat

\* The weight that the i-th indicator adds.
Adds(indicators, matched, i) ==
    IF indicators[i].name \in matched THEN indicators[i].weight ELSE 0

TotalIs(pattern, matched) ==
    LET n == Len(pattern.indicators)
        result == Analyzer!evaluatePattern(pattern, matched)
    IN  /\ result.category = pattern.category
        /\ result.notYourCode = pattern.notYourCode
        /\ \E sum \in [0..n -> Nat] :
              /\ sum[0] = 0
              /\ \A i \in 1..n :
                    sum[i] = sum[i - 1] + Adds(pattern.indicators, matched, i)
              /\ result.confidence = IF sum[n] <= 100 THEN sum[n] ELSE 100

\* A pattern's confidence is what its matching indicators add up to, at most 100.
LEMMA ConfidenceIs ==
    ASSUME NEW pattern, Weighed(pattern.indicators), NEW matched
    PROVE  TotalIs(pattern, matched)
<1> DEFINE indicators == pattern.indicators
           n == Len(indicators)
           result == Analyzer!evaluatePattern(pattern, matched)
           Weight(i) == IF indicators[i].name \in matched THEN indicators[i].weight ELSE 0
           Step(f, i) == IF i = 0 THEN 0 ELSE f[i - 1] + Weight(i)
           Recurses(f) == f = [i \in 0..n |-> Step(f, i)]
           sum == CHOOSE f : Recurses(f)
           next == [i \in 1..n |-> [v \in Nat |-> v + Weight(i)]]
<1>1. n \in Nat /\ \A i \in 1..n : Weight(i) \in Nat
  <2>1. n \in Nat  BY DEF Weighed
  <2> SUFFICES ASSUME NEW i \in 1..n PROVE Weight(i) \in Nat
    BY <2>1
  <2>3. indicators[i].weight \in Nat  BY DEF Weighed
  <2> QED  BY <2>3
<1>2. /\ result.category = pattern.category
      /\ result.notYourCode = pattern.notYourCode
      /\ result.confidence = Analyzer!Min({sum[n], 100})
  BY DEF Analyzer!evaluatePattern
<1>3. \A i : Weight(i) = Adds(indicators, matched, i)  BY DEF Adds
<1> HIDE DEF n, result, Weight
<1>4. next \in [1..n -> [Nat -> Nat]]  BY <1>1
<1>5. PICK f : Counts(f, n, Nat, 0, next)
  <2> HIDE DEF next
  <2> QED  BY <1>1, <1>4, RecursionHasResult
<1>6. f \in [0..n -> Nat] /\ f[0] = 0 /\ \A i \in 1..n : f[i] = f[i - 1] + Weight(i)
  <2>1. \A i \in 1..n : i - 1 \in 0..n  BY <1>1
  <2> QED  BY <1>1, <1>5, <2>1 DEF Counts
<1>7. Recurses(f)
  <2>1. f = [i \in 0..n |-> f[i]]  BY <1>6
  <2>2. \A i \in 0..n : f[i] = Step(f, i)
    <3>1. \A i \in 0..n : i = 0 \/ i \in 1..n  BY <1>1
    <3> QED  BY <1>6, <3>1
  <2> HIDE DEF Step
  <2> QED  BY <2>1, <2>2
<1>8. Recurses(sum)
  <2> HIDE DEF Recurses
  <2> QED  BY <1>7
<1>9. /\ DOMAIN sum = 0..n /\ sum = [i \in 0..n |-> sum[i]]
      /\ sum[0] = 0 /\ \A i \in 1..n : sum[i] = sum[i - 1] + Weight(i)
  <2> HIDE DEF sum
  <2>1. \A i \in 0..n : sum[i] = Step(sum, i)
    <3> HIDE DEF Step
    <3> QED  BY <1>8
  <2>2. 0 \in 0..n /\ \A i \in 1..n : i \in 0..n /\ i # 0  BY <1>1
  <2>3. DOMAIN sum = 0..n /\ sum = [i \in 0..n |-> sum[i]]
    <3> HIDE DEF Step
    <3> QED  BY <1>8
  <2> QED  BY <2>1, <2>2, <2>3
<1> HIDE DEF sum
<1> DEFINE good == {i \in 0..n : sum[i] \in Nat}
<1>10. 0..n \subseteq good
  <2>1. 0 \in good  BY <1>1, <1>9
  <2>2. ASSUME NEW i \in 1..n, i - 1 \in good PROVE i \in good
    <3>1. i \in 0..n /\ i - 1 \in 0..n  BY <1>1
    <3>2. sum[i - 1] \in Nat  BY <2>2
    <3>3. Weight(i) \in Nat  BY <1>1
    <3>4. sum[i] = sum[i - 1] + Weight(i)  BY <1>9
    <3> QED  BY <3>1, <3>2, <3>3, <3>4
  <2> HIDE DEF good
  <2> QED  BY <1>1, <2>1, <2>2, ReachedByCounting
<1>11. sum \in [0..n -> Nat]  BY <1>9, <1>10
<1>12. sum[n] \in Nat  BY <1>1, <1>11
<1>13. Analyzer!Min({sum[n], 100}) = IF sum[n] <= 100 THEN sum[n] ELSE 100
  BY <1>12 DEF Analyzer!Min
<1> QED  BY <1>2, <1>3, <1>9, <1>11, <1>13 DEF n, result, TotalIs

\* A pattern none of whose indicators match has no confidence.
LEMMA UnmatchedCountsNothing ==
    ASSUME NEW pattern, Weighed(pattern.indicators), NEW matched,
           \A i \in 1..Len(pattern.indicators) : pattern.indicators[i].name \notin matched
    PROVE  Analyzer!evaluatePattern(pattern, matched).confidence = 0
<1> DEFINE n == Len(pattern.indicators)
<1>1. n \in Nat  BY DEF Weighed
<1>2. PICK sum \in [0..n -> Nat] :
         /\ sum[0] = 0
         /\ \A i \in 1..n : sum[i] = sum[i - 1] + Adds(pattern.indicators, matched, i)
         /\ Analyzer!evaluatePattern(pattern, matched).confidence
              = IF sum[n] <= 100 THEN sum[n] ELSE 100
  <2>1. TotalIs(pattern, matched)  BY ConfidenceIs
  <2> QED  BY ONLY <2>1, Zenon DEF TotalIs
<1>3. \A i \in 1..n : Adds(pattern.indicators, matched, i) = 0  BY DEF Adds
<1> HIDE DEF n
<1> DEFINE none == {i \in 0..n : sum[i] = 0}
<1>4. 0..n \subseteq none
  <2>1. 0 \in none  BY <1>1, <1>2
  <2>2. ASSUME NEW i \in 1..n, i - 1 \in none PROVE i \in none
    BY <1>1, <1>2, <1>3, <2>2
  <2> HIDE DEF none
  <2> QED  BY <1>1, <2>1, <2>2, ReachedByCounting
<1> QED  BY <1>1, <1>2, <1>4
--------------------------------------------------------------------------------
Known == Analyzer!KnownPatterns
Conclusion(i, c) == Analyzer!evaluatePattern(Known[i], Analyzer!checkIndicator(c))

\* The categories of the known patterns.
LEMMA PatternsAre ==
    /\ DOMAIN Known = 1..5
    /\ Known[1].category = "thermal_cascade" /\ Known[1].notYourCode = TRUE
    /\ Known[2].category = "ecc_failure" /\ Known[2].notYourCode = TRUE
    /\ Known[3].category = "software_oom" /\ Known[3].notYourCode = FALSE
    /\ Known[4].category = "nvlink_failure" /\ Known[4].notYourCode = TRUE
    /\ Known[5].category = "xid_79_bus_error" /\ Known[5].notYourCode = TRUE
BY DEF Known, Analyzer!KnownPatterns, Analyzer!Pattern

\* The indicators of the known patterns.
LEMMA IndicatorsAre ==
    /\ Known[1].indicators =
          <<Analyzer!Indicator("hot", 30), Analyzer!Indicator("throttled", 30),
            Analyzer!Indicator("thermal", 25), Analyzer!Indicator("xid_thermal", 15)>>
    /\ Known[2].indicators =
          <<Analyzer!Indicator("ecc", 40), Analyzer!Indicator("xid_memory", 35),
            Analyzer!Indicator("corrupted", 25)>>
    /\ Known[3].indicators =
          <<Analyzer!Indicator("full", 30), Analyzer!Indicator("oom_killed", 35),
            Analyzer!Indicator("oom", 25), Analyzer!Indicator("no_xid", 10)>>
    /\ Known[4].indicators =
          <<Analyzer!Indicator("xid_nvlink", 50), Analyzer!Indicator("nvlink", 30),
            Analyzer!Indicator("interconnect", 20)>>
    /\ Known[5].indicators =
          <<Analyzer!Indicator("xid_bus", 70), Analyzer!Indicator("thermal", 15),
            Analyzer!Indicator("throttled", 15)>>
BY DEF Known, Analyzer!KnownPatterns, Analyzer!Pattern

\* Among five numbers there is a first of the largest.
LEMMA FirstLargest ==
    ASSUME NEW f, \A i \in 1..5 : f[i] \in Int
    PROVE  \E i \in 1..5 : \A j \in 1..5 :
              IF j < i THEN f[j] < f[i] ELSE f[j] <= f[i]
<1> DEFINE tops == {i \in 1..5 : \A j \in 1..5 : f[j] <= f[i]}
<1>1. tops # {}
  <2> DEFINE T == {m \in 0..5 : m = 0 \/ \E i \in 1..m : \A j \in 1..m : f[j] <= f[i]}
  <2>1. 0 \in T  OBVIOUS
  <2>2. ASSUME NEW m \in 1..5, m - 1 \in T PROVE m \in T
    <3>1. CASE m = 1  BY <3>1
    <3>2. CASE m # 1
      <4>1. PICK i \in 1..m - 1 : \A j \in 1..m - 1 : f[j] <= f[i]  BY <2>2, <3>2
      <4>2. \A j \in 1..m : j = m \/ j \in 1..m - 1  OBVIOUS
      <4>3. i \in 1..m /\ m \in 1..m  OBVIOUS
      <4>4. CASE f[m] <= f[i]  BY <4>1, <4>2, <4>3, <4>4
      <4>5. CASE ~(f[m] <= f[i])
        <5>1. \A j \in 1..m : f[j] <= f[m]  BY <4>1, <4>2, <4>5
        <5> QED  BY <4>3, <5>1
      <4> QED  BY <4>4, <4>5
    <3> QED  BY <3>1, <3>2
  <2>3. 5 \in T
    <3> HIDE DEF T
    <3>1. 0..5 \subseteq T  BY <2>1, <2>2, ReachedByCounting
    <3> QED  BY <3>1
  <2> QED  BY <2>3
<1>2. PICK i \in tops : \A j \in tops : i <= j
  <2>1. tops \in SUBSET Nat  OBVIOUS
  <2> HIDE DEF tops
  <2> QED  BY <1>1, <2>1, LeastNumber
<1>3. \A j \in 1..5 : f[j] <= f[i]  BY <1>2
<1>4. ASSUME NEW j \in 1..5, j < i PROVE f[j] < f[i]
  <2>1. j \notin tops  BY <1>2, <1>4
  <2>2. PICK k \in 1..5 : ~(f[k] <= f[j])  BY <2>1
  <2> QED  BY <1>3, <2>2
<1> QED  BY <1>3, <1>4

\* All of them have weights.
LEMMA IndicatorsWeighed ==
    \A i \in 1..5 : Weighed(Known[i].indicators)
<1>1. \A i \in 1..5 : i = 1 \/ i = 2 \/ i = 3 \/ i = 4 \/ i = 5  OBVIOUS
<1>2. \A name, w : Analyzer!Indicator(name, w).weight = w
  BY DEF Analyzer!Indicator
<1>3. Weighed(Known[1].indicators)
  BY <1>2, IndicatorsAre DEF Weighed
<1>4. Weighed(Known[2].indicators)
  BY <1>2, IndicatorsAre DEF Weighed
<1>5. Weighed(Known[3].indicators)
  BY <1>2, IndicatorsAre DEF Weighed
<1>6. Weighed(Known[4].indicators)
  BY <1>2, IndicatorsAre DEF Weighed
<1>7. Weighed(Known[5].indicators)
  BY <1>2, IndicatorsAre DEF Weighed
<1> QED  BY <1>1, <1>3, <1>4, <1>5, <1>6, <1>7

\* The verdict is the conclusion from one of the known patterns, at least as
\* strong as that from any other, or that nothing is known.
LEMMA VerdictConcludes ==
    ASSUME NEW c
    PROVE  \E i \in 1..5 :
              /\ \A j \in 1..5 : /\ Conclusion(j, c).confidence \in Nat
                                 /\ Conclusion(j, c).confidence <= Conclusion(i, c).confidence
              /\ Analyzer!matchPatterns(c) =
                    IF Conclusion(i, c).confidence < 20 THEN Analyzer!Unknown
                    ELSE Conclusion(i, c)
<1> DEFINE results == [i \in DOMAIN Known |-> Conclusion(i, c)]
           Best(i) == \A j \in DOMAIN results :
                         IF j < i THEN results[j].confidence < results[i].confidence
                         ELSE results[j].confidence <= results[i].confidence
           best == CHOOSE i \in DOMAIN results : Best(i)
           f == [i \in 1..5 |-> Conclusion(i, c).confidence]
<1>1. Analyzer!matchPatterns(c) = IF results[best].confidence < 20 THEN Analyzer!Unknown
                                  ELSE results[best]
  BY DEF Analyzer!matchPatterns, Conclusion, Known
<1>2. DOMAIN results = 1..5 /\ \A i \in 1..5 : results[i] = Conclusion(i, c)
  BY PatternsAre
<1>3. \A i \in 1..5 : Conclusion(i, c).confidence \in Nat
  <2> SUFFICES ASSUME NEW i \in 1..5 PROVE Conclusion(i, c).confidence \in Nat
    OBVIOUS
  <2> DEFINE n == Len(Known[i].indicators)
  <2>1. Weighed(Known[i].indicators)  BY IndicatorsWeighed
  <2>2. n \in Nat  BY <2>1 DEF Weighed
  <2> DEFINE matched == Analyzer!checkIndicator(c)
             pattern == Known[i]
  <2>3. \E sum \in [0..n -> Nat] :
           Analyzer!evaluatePattern(pattern, matched).confidence
             = IF sum[n] <= 100 THEN sum[n] ELSE 100
    <3> HIDE DEF pattern, matched
    <3>1. Weighed(pattern.indicators)  BY <2>1 DEF pattern
    <3>2. n = Len(pattern.indicators)  BY DEF pattern
    <3> HIDE DEF n
    <3>3. TotalIs(pattern, matched)  BY <3>1, ConfidenceIs
    <3> QED  BY <3>2, <3>3 DEF TotalIs
  <2>5. PICK sum \in [0..n -> Nat] :
           Conclusion(i, c).confidence = IF sum[n] <= 100 THEN sum[n] ELSE 100
    BY <2>3 DEF Conclusion
  <2>4. sum[n] \in Nat
    <3> HIDE DEF n
    <3> QED  BY <2>2
  <2> QED  BY <2>5, <2>4
<1>4. \E i \in 1..5 : Best(i)
  <2>1. \A i \in 1..5 : f[i] \in Int  BY <1>3
  <2>2. PICK i \in 1..5 : \A j \in 1..5 : IF j < i THEN f[j] < f[i] ELSE f[j] <= f[i]
    <3> HIDE DEF f
    <3> QED  BY <2>1, FirstLargest
  <2>3. \A j \in 1..5 : f[j] = results[j].confidence  BY <1>2
  <2> HIDE DEF f, results
  <2> QED  BY <1>2, <2>2, <2>3
<1>5. best \in 1..5 /\ Best(best)
  <2> HIDE DEF results, Best
  <2> QED  BY <1>2, <1>4
<1> HIDE DEF best, results
<1>6. \A j \in 1..5 : Conclusion(j, c).confidence <= Conclusion(best, c).confidence
  BY <1>2, <1>3, <1>5
<1> QED  BY <1>1, <1>2, <1>3, <1>5, <1>6

\* Which indicators match.
LEMMA Matches ==
    ASSUME NEW c
    PROVE  LET matched == Analyzer!checkIndicator(c)
           IN  /\ "hot" \in matched <=> c.temperature > 82
               /\ "throttled" \in matched <=> c.throttling # {}
               /\ "thermal" \in matched <=> c.causality = "thermal_cascade"
               /\ "xid_thermal" \in matched <=> c.xid \cap {"79", "43"} # {}
               /\ "ecc" \in matched <=> c.uncorrectable > 0
               /\ "xid_memory" \in matched
                     <=> c.xid \cap {"48", "63", "64", "68", "69", "8", "92"} # {}
               /\ "corrupted" \in matched <=> c.causality = "memory_failure"
               /\ "oom_killed" \in matched <=> "OOMKilled" \in c.k8s
               /\ "oom" \in matched <=> c.causality = "software_oom"
               /\ "no_xid" \in matched <=> c.xid = {}
               /\ "xid_nvlink" \in matched <=> "74" \in c.xid
               /\ "nvlink" \in matched <=> "NVLink" \in c.k8s
               /\ "interconnect" \in matched <=> "interconnect" \in c.k8s
               /\ "xid_bus" \in matched <=> "79" \in c.xid
BY DEF Analyzer!checkIndicator

\* The worst of what the elements of a sequence show is shown by one of them.
LEMMA WorstIsShown ==
    ASSUME NEW s, NEW n \in Nat, DOMAIN s = 1..n,
           NEW f, DOMAIN f = ToSet(s), \A x \in ToSet(s) : f[x] \in Nat,
           NEW bound \in Nat,
           Analyzer!Max({0} \cup {f[x] : x \in ToSet(s)}) > bound
    PROVE  \E x \in ToSet(s) : f[x] > bound
<1> DEFINE Shown(m) == {0} \cup {f[s[i]] : i \in 1..m}
           Largest(m) == \E x \in Shown(m) : \A y \in Shown(m) : x >= y
           good == {m \in 0..n : Largest(m)}
<1>1. \A i \in 1..n : s[i] \in ToSet(s) /\ f[s[i]] \in Nat
  BY DEF ToSet
<1>2. {f[x] : x \in ToSet(s)} = {f[s[i]] : i \in 1..n}
  BY DEF ToSet
<1>3. 0..n \subseteq good
  <2>1. 0 \in good
    <3>1. Shown(0) = {0}  OBVIOUS
    <3> HIDE DEF Shown
    <3> QED  BY <3>1
  <2>2. ASSUME NEW m \in 1..n, m - 1 \in good PROVE m \in good
    <3>1. Shown(m) = Shown(m - 1) \cup {f[s[m]]}
      <4>1. 1..m = 1..(m - 1) \cup {m}  OBVIOUS
      <4> QED  BY <4>1
    <3>2. \A y \in Shown(m) : y \in Int
      BY <1>1
    <3>3. m \in 0..n  OBVIOUS
    <3>4. PICK x \in Shown(m - 1) : \A y \in Shown(m - 1) : x >= y
      <4> HIDE DEF Shown
      <4> QED  BY <2>2
    <3> HIDE DEF Shown
    <3>5. CASE x >= f[s[m]]
      BY <3>1, <3>3, <3>4, <3>5
    <3>6. CASE ~(x >= f[s[m]])
      <4>1. f[s[m]] \in Shown(m) /\ x \in Shown(m)  BY <3>1
      <4>2. \A y \in Shown(m) : f[s[m]] >= y  BY <3>1, <3>2, <3>4, <3>6, <4>1
      <4> QED  BY <3>3, <4>1, <4>2
    <3> QED  BY <3>5, <3>6
  <2> HIDE DEF good
  <2> QED  BY <2>1, <2>2, ReachedByCounting
<1>4. Largest(n)
  <2>1. n \in good
    <3> HIDE DEF good
    <3> QED  BY <1>3
  <2> HIDE DEF Largest
  <2> QED  BY <2>1
<1>5. Analyzer!Max(Shown(n)) \in Shown(n)
  <2> HIDE DEF Shown
  <2> QED  BY <1>4 DEF Analyzer!Max
<1>6. Analyzer!Max(Shown(n)) > bound  BY <1>2
<1>7. Analyzer!Max(Shown(n)) # 0  BY <1>6
<1>8. PICK i \in 1..n : Analyzer!Max(Shown(n)) = f[s[i]]
  <2> HIDE DEF Largest, good
  <2> QED  BY <1>5, <1>7
<1> QED  BY <1>1, <1>6, <1>8
--------------------------------------------------------------------------------
Context == Analyzer!extractContext(answer.incident)

\* What the report of a correlated incident goes by.
LEMMA ContextIs ==
    ASSUME AboutWorld, Explained
    PROVE  /\ \A word \in Context.xid : \E e \in NearEvents : e.type = "xid"
           /\ \A word \in Context.k8s :
                 \E e \in NearEvents \cup ToSet(observed.world.k8s) :
                    word \in {e.what, e.message}
           /\ \A e \in NearEvents : e.type = "k8s" => e.what \in Context.k8s
           /\ Context.temperature > 82 => \E s \in NearSnapshots : s.temp > 82
           /\ Context.uncorrectable > 0 => \E s \in NearSnapshots : s.uncorrectable > 0
           /\ Context.throttling # {} => \E s \in NearSnapshots : IsThrottled(s)
           /\ Context.causality = answer.incident.causality
           /\ answer.report.rootCause = Analyzer!matchPatterns(Context)
<1> DEFINE incident == answer.incident
           events == {incident.trigger} \cup ToSet(incident.related)
           snapshots == ToSet(incident.snapshots)
           Words(type) == {e.what : e \in {x \in events : x.type = type}}
           k8sMessages == {e.message : e \in {x \in events : x.type = "k8s"}}
<1>1. Analyzer!ToSet(incident.related) = TheEvents
      /\ Analyzer!ToSet(incident.snapshots) = NearSnapshots
  BY IncidentTells DEF Analyzer!ToSet, ToSet
<1>2. /\ events = {incident.trigger} \cup TheEvents
      /\ snapshots = NearSnapshots
  BY IncidentTells
<1>3. /\ Context.xid = Words("xid") /\ Context.k8s = Words("k8s") \cup k8sMessages
      /\ Context.temperature = Analyzer!Max({0} \cup {s.temp : s \in NearSnapshots})
      /\ Context.uncorrectable = Analyzer!Max({0} \cup {s.uncorrectable : s \in NearSnapshots})
      /\ Context.throttling = UNION {s.throttling : s \in NearSnapshots}
      /\ Context.causality = incident.causality
  BY <1>1, <1>2 DEF Context, Analyzer!extractContext
<1>4. /\ incident.trigger \in NearEvents
      /\ \A e \in events : e \in NearEvents \cup ToSet(observed.world.k8s)
      /\ \A e \in events : e.type = "xid" => e \in NearEvents
      /\ NearEvents \subseteq events
  BY <1>2, EventsAreNear DEF NearEvents
<1> HIDE DEF incident, events, snapshots
<1>5. answer.report.rootCause = Analyzer!matchPatterns(Context)
  BY DEF AboutWorld, Analyzer!Analyze, Context
<1>6. PICK n \in Nat : DOMAIN incident.snapshots = 1..n
  <2>1. incident.snapshots \in Seq(Observation)  BY IncidentTells DEF incident
  <2> QED  BY <2>1
<1>7. \A s \in NearSnapshots : s.temp \in Nat /\ s.uncorrectable \in Nat
  BY IncidentTells DEF Snapshot
<1>8. Context.temperature > 82 => \E s \in NearSnapshots : s.temp > 82
  <2> SUFFICES ASSUME Context.temperature > 82 PROVE \E s \in NearSnapshots : s.temp > 82
    OBVIOUS
  <2> DEFINE f == [s \in NearSnapshots |-> s.temp]
  <2>1. {s.temp : s \in NearSnapshots} = {f[s] : s \in NearSnapshots}  OBVIOUS
  <2>2. DOMAIN f = NearSnapshots /\ \A s \in NearSnapshots : f[s] = s.temp  OBVIOUS
  <2> HIDE DEF f
  <2> DEFINE seen == incident.snapshots
  <2>4. ToSet(seen) = NearSnapshots  BY <1>2 DEF snapshots
  <2>5. /\ DOMAIN seen = 1..n /\ 82 \in Nat
        /\ DOMAIN f = ToSet(seen) /\ \A s \in ToSet(seen) : f[s] \in Nat
        /\ Analyzer!Max({0} \cup {f[s] : s \in ToSet(seen)}) > 82
    BY <1>3, <1>6, <1>7, <2>1, <2>2, <2>4
  <2> HIDE DEF seen
  <2>3. \E s \in ToSet(seen) : f[s] > 82  BY ONLY <1>6, <2>5, WorstIsShown
  <2> QED  BY <2>2, <2>3, <2>4
<1>9. Context.uncorrectable > 0 => \E s \in NearSnapshots : s.uncorrectable > 0
  <2> SUFFICES ASSUME Context.uncorrectable > 0
               PROVE  \E s \in NearSnapshots : s.uncorrectable > 0
    OBVIOUS
  <2> DEFINE f == [s \in NearSnapshots |-> s.uncorrectable]
  <2>1. {s.uncorrectable : s \in NearSnapshots} = {f[s] : s \in NearSnapshots}  OBVIOUS
  <2>2. DOMAIN f = NearSnapshots /\ \A s \in NearSnapshots : f[s] = s.uncorrectable  OBVIOUS
  <2> HIDE DEF f
  <2>3. \E s \in ToSet(incident.snapshots) : f[s] > 0
    BY <1>2, <1>3, <1>6, <1>7, <2>1, <2>2, WorstIsShown DEF snapshots
  <2> QED  BY <1>2, <2>2, <2>3 DEF snapshots
<1>10. \A word \in Context.xid : \E e \in NearEvents : e.type = "xid"
  BY <1>3, <1>4
<1>11. \A word \in Context.k8s :
          \E e \in NearEvents \cup ToSet(observed.world.k8s) : word \in {e.what, e.message}
  BY <1>3, <1>4
<1>12. \A e \in NearEvents : e.type = "k8s" => e.what \in Context.k8s
  BY <1>3, <1>4
<1>13. Context.throttling # {} => \E s \in NearSnapshots : IsThrottled(s)
  BY <1>3 DEF IsThrottled
<1> QED  BY <1>3, <1>5, <1>8, <1>9, <1>10, <1>11, <1>12, <1>13 DEF incident

\* The parts of an indicator.
LEMMA IndicatorIs ==
    ASSUME NEW name, NEW w
    PROVE  Analyzer!Indicator(name, w).name = name /\ Analyzer!Indicator(name, w).weight = w
BY DEF Analyzer!Indicator

\* A pattern of which nothing matches is not concluded.
LEMMA SomethingMatched ==
    ASSUME NEW c, NEW i \in 1..5, Conclusion(i, c).confidence # 0
    PROVE  \E k \in 1..Len(Known[i].indicators) :
              Known[i].indicators[k].name \in Analyzer!checkIndicator(c)
<1>1. Weighed(Known[i].indicators)  BY IndicatorsWeighed
<1> DEFINE pattern == Known[i]
           matched == Analyzer!checkIndicator(c)
<1>2. Analyzer!evaluatePattern(pattern, matched).confidence # 0  BY DEF Conclusion
<1>3. Weighed(pattern.indicators)  BY <1>1
<1> HIDE DEF pattern, matched
<1>4. ~ \A k \in 1..Len(pattern.indicators) : pattern.indicators[k].name \notin matched
  BY <1>2, <1>3, UnmatchedCountsNothing
<1> QED  BY <1>4 DEF pattern, matched

\* A verdict that blames the hardware rests on an indicator that matched.
LEMMA SupportedBlame == AboutWorld => BlameIsSupported
<1> SUFFICES ASSUME AboutWorld, Explained, answer.report.rootCause.notYourCode
             PROVE  \/ \E e \in NearEvents : e.type = "xid"
                    \/ \E s \in NearSnapshots :
                          s.temp > 82 \/ IsThrottled(s) \/ s.uncorrectable > 0
                    \/ \E e \in NearEvents \cup ToSet(observed.world.k8s) :
                          {e.what, e.message} \cap {"NVLink", "interconnect"} # {}
  BY DEF BlameIsSupported
<1> DEFINE matched == Analyzer!checkIndicator(Context)
<1>1. PICK i \in 1..5 :
         /\ Conclusion(i, Context).confidence \in Nat
         /\ answer.report.rootCause =
               IF Conclusion(i, Context).confidence < 20 THEN Analyzer!Unknown
               ELSE Conclusion(i, Context)
  BY ContextIs, VerdictConcludes
<1>2. /\ Conclusion(i, Context).confidence \in Nat
      /\ Conclusion(i, Context).confidence # 0
      /\ Conclusion(i, Context).notYourCode
  <2>1. answer.report.rootCause # Analyzer!Unknown  BY DEF Analyzer!Unknown
  <2> QED  BY <1>1, <2>1
<1>3. Conclusion(i, Context).notYourCode = Known[i].notYourCode
  <2> DEFINE pattern == Known[i]
  <2>1. Weighed(pattern.indicators)  BY IndicatorsWeighed
  <2> HIDE DEF pattern, matched
  <2>2. TotalIs(pattern, matched)  BY <2>1, ConfidenceIs
  <2> QED  BY <2>2 DEF TotalIs, Conclusion, pattern, matched
<1>4. PICK k \in 1..Len(Known[i].indicators) : Known[i].indicators[k].name \in matched
  BY <1>2, SomethingMatched
<1>5. i = 1 \/ i = 2 \/ i = 4 \/ i = 5
  <2>1. i # 3  BY <1>2, <1>3, PatternsAre
  <2> QED  BY <2>1
<1>6. Known[i].indicators[k].name \in
         {"hot", "throttled", "thermal", "xid_thermal", "ecc", "xid_memory", "corrupted",
          "xid_nvlink", "nvlink", "interconnect", "xid_bus"}
  <2>1. CASE i = 1
    <3>1. Len(Known[1].indicators) = 4  BY IndicatorsAre
    <3>2. k = 1 \/ k = 2 \/ k = 3 \/ k = 4  BY <2>1, <3>1
    <3> QED  BY <2>1, <3>2, IndicatorsAre, IndicatorIs
  <2>2. CASE i = 2
    <3>1. Len(Known[2].indicators) = 3  BY IndicatorsAre
    <3>2. k = 1 \/ k = 2 \/ k = 3  BY <2>2, <3>1
    <3> QED  BY <2>2, <3>2, IndicatorsAre, IndicatorIs
  <2>3. CASE i = 4
    <3>1. Len(Known[4].indicators) = 3  BY IndicatorsAre
    <3>2. k = 1 \/ k = 2 \/ k = 3  BY <2>3, <3>1
    <3> QED  BY <2>3, <3>2, IndicatorsAre, IndicatorIs
  <2>4. CASE i = 5
    <3>1. Len(Known[5].indicators) = 3  BY IndicatorsAre
    <3>2. k = 1 \/ k = 2 \/ k = 3  BY <2>4, <3>1
    <3> QED  BY <2>4, <3>2, IndicatorsAre, IndicatorIs
  <2> QED  BY <1>5, <2>1, <2>2, <2>3, <2>4
<1>7. \/ Context.temperature > 82 \/ Context.throttling # {} \/ Context.uncorrectable > 0
      \/ Context.causality \in {"thermal_cascade", "memory_failure"}
      \/ Context.xid # {}
      \/ "NVLink" \in Context.k8s \/ "interconnect" \in Context.k8s
  <2> HIDE DEF matched
  <2>1. \/ "hot" \in matched \/ "throttled" \in matched \/ "thermal" \in matched
        \/ "xid_thermal" \in matched \/ "ecc" \in matched \/ "xid_memory" \in matched
        \/ "corrupted" \in matched \/ "xid_nvlink" \in matched \/ "nvlink" \in matched
        \/ "interconnect" \in matched \/ "xid_bus" \in matched
    BY <1>4, <1>6
  <2> QED  BY <2>1, Matches DEF matched
<1>8. Context.causality \in {"thermal_cascade", "memory_failure"} =>
         \E e \in NearEvents : e.type = "xid"
  <2>1. Context.causality = answer.incident.causality  BY ContextIs
  <2> QED  BY <2>1, TimelyCausality DEF CausalityFollowsTime
<1> QED  BY <1>7, <1>8, ContextIs

\* The weights of a short pattern add up.
LEMMA ThreeAddUp ==
    ASSUME NEW c, NEW i \in 1..5, Len(Known[i].indicators) = 3
    PROVE  LET A(k) == Adds(Known[i].indicators, Analyzer!checkIndicator(c), k)
               sum == A(1) + A(2) + A(3)
           IN  Conclusion(i, c).confidence = IF sum <= 100 THEN sum ELSE 100
<1> DEFINE pattern == Known[i]
           matched == Analyzer!checkIndicator(c)
           A(k) == Adds(pattern.indicators, matched, k)
<1>1. Weighed(pattern.indicators) /\ Len(pattern.indicators) = 3  BY IndicatorsWeighed
<1>2. Conclusion(i, c) = Analyzer!evaluatePattern(pattern, matched)  BY DEF Conclusion
<1> HIDE DEF pattern, matched
<1>3. PICK sum \in [0..3 -> Nat] :
         /\ sum[0] = 0
         /\ \A k \in 1..3 : sum[k] = sum[k - 1] + A(k)
         /\ Conclusion(i, c).confidence = IF sum[3] <= 100 THEN sum[3] ELSE 100
  <2>1. TotalIs(pattern, matched)  BY <1>1, ConfidenceIs
  <2> HIDE DEF A
  <2>2. \A k : A(k) = Adds(pattern.indicators, matched, k)  BY DEF A
  <2> QED  BY <1>1, <1>2, <2>1, <2>2 DEF TotalIs
<1>4. \A k \in 1..3 : A(k) \in Nat  BY <1>1 DEF Weighed, Adds
<1> HIDE DEF A
<1>5. sum[1] = sum[0] + A(1) /\ sum[2] = sum[1] + A(2)
      /\ sum[3] = sum[2] + A(3)
  BY <1>3
<1>6. sum[3] = A(1) + A(2) + A(3)  BY <1>3, <1>4, <1>5
<1> QED  BY <1>3, <1>6 DEF A, pattern, matched

\* The weights of a pattern of four indicators add up.
LEMMA FourAddUp ==
    ASSUME NEW c, NEW i \in 1..5, Len(Known[i].indicators) = 4
    PROVE  LET A(k) == Adds(Known[i].indicators, Analyzer!checkIndicator(c), k)
               sum == A(1) + A(2) + A(3) + A(4)
           IN  Conclusion(i, c).confidence = IF sum <= 100 THEN sum ELSE 100
<1> DEFINE pattern == Known[i]
           matched == Analyzer!checkIndicator(c)
           A(k) == Adds(pattern.indicators, matched, k)
<1>1. Weighed(pattern.indicators) /\ Len(pattern.indicators) = 4  BY IndicatorsWeighed
<1>2. Conclusion(i, c) = Analyzer!evaluatePattern(pattern, matched)  BY DEF Conclusion
<1> HIDE DEF pattern, matched
<1>3. PICK sum \in [0..4 -> Nat] :
         /\ sum[0] = 0
         /\ \A k \in 1..4 : sum[k] = sum[k - 1] + A(k)
         /\ Conclusion(i, c).confidence = IF sum[4] <= 100 THEN sum[4] ELSE 100
  <2>1. TotalIs(pattern, matched)  BY <1>1, ConfidenceIs
  <2> HIDE DEF A
  <2>2. \A k : A(k) = Adds(pattern.indicators, matched, k)  BY DEF A
  <2> QED  BY <1>1, <1>2, <2>1, <2>2 DEF TotalIs
<1>4. \A k \in 1..4 : A(k) \in Nat  BY <1>1 DEF Weighed, Adds
<1> HIDE DEF A
<1>5. sum[1] = sum[0] + A(1) /\ sum[2] = sum[1] + A(2)
      /\ sum[3] = sum[2] + A(3) /\ sum[4] = sum[3] + A(4)
  BY <1>3
<1>6. sum[4] = A(1) + A(2) + A(3) + A(4)  BY <1>3, <1>4, <1>5
<1> QED  BY <1>3, <1>6 DEF A, pattern, matched

\* On clean hardware no other pattern comes near the three indicators of an OOM kill.
LEMMA OomIsTheCode == AboutWorld => CleanOomIsTheCode
<1> SUFFICES ASSUME AboutWorld, Explained,
                    \E e \in NearEvents : e.type = "k8s" /\ e.what = "OOMKilled",
                    \A e \in NearEvents : e.type # "xid",
                    \A s \in NearSnapshots : ~IsThrottled(s) /\ ~HasECCErrors(s)
             PROVE  /\ answer.incident.causality = "software_oom"
                    /\ answer.report.rootCause.category = "software_oom"
                    /\ answer.report.rootCause.confidence >= 70
  BY DEF CleanOomIsTheCode
<1> DEFINE incident == answer.incident
           timeline == incident.timeline
           matched == Analyzer!checkIndicator(Context)
           C(i) == Conclusion(i, Context).confidence
<1>1. \A i \in DOMAIN timeline : TypeOf(timeline[i]) \notin {"xid", "ecc", "throttle"}
  BY EntriesTell
<1>2. hasOOMEvent(incident)
  <2>1. PICK e \in NearEvents : e.type = "k8s" /\ e.what = "OOMKilled"  OBVIOUS
  <2>2. e \in Events(incident)  BY EventsAreNear, IncidentTells DEF Events
  <2> QED  BY <2>1, <2>2 DEF hasOOMEvent
<1>3. incident.causality = "software_oom"
  <2>1. incident.causality = DetectCausality(incident, timeline)  BY IncidentTells
  <2>2. \A type \in {"xid", "ecc", "throttle"} : ~contains(timeline, type)
    BY <1>1 DEF contains
  <2>3. ~hasSequence(timeline, "throttle", "xid") /\ ~hasSequence(timeline, "ecc", "xid")
    BY <1>1 DEF hasSequence
  <2> HIDE DEF timeline, incident
  <2> QED  BY <1>2, <2>1, <2>2, <2>3 DEF DetectCausality
<1>4. /\ Context.causality = "software_oom" /\ Context.xid = {} /\ Context.throttling = {}
      /\ "OOMKilled" \in Context.k8s
      /\ ~(Context.uncorrectable > 0)
  BY <1>3, ContextIs DEF HasECCErrors
<1>5. /\ "throttled" \notin matched /\ "thermal" \notin matched /\ "xid_thermal" \notin matched
      /\ "ecc" \notin matched /\ "xid_memory" \notin matched /\ "corrupted" \notin matched
      /\ "xid_nvlink" \notin matched /\ "xid_bus" \notin matched
      /\ "oom_killed" \in matched /\ "oom" \in matched /\ "no_xid" \in matched
  BY <1>4, Matches
<1> HIDE DEF matched
<1>6. C(3) >= 70
  <2> DEFINE A(k) == Adds(Known[3].indicators, matched, k)
  <2>1. Len(Known[3].indicators) = 4  BY IndicatorsAre
  <2>2. A(1) \in {0, 30} /\ A(2) = 35 /\ A(3) = 25 /\ A(4) = 10
    BY <1>5, IndicatorsAre, IndicatorIs DEF Adds
  <2>3. C(3) = IF A(1) + A(2) + A(3) + A(4) <= 100 THEN A(1) + A(2) + A(3) + A(4) ELSE 100
    BY <2>1, FourAddUp DEF matched
  <2> HIDE DEF A, C
  <2> QED  BY <2>2, <2>3
<1>7. C(1) <= 30
  <2> DEFINE A(k) == Adds(Known[1].indicators, matched, k)
  <2>1. Len(Known[1].indicators) = 4  BY IndicatorsAre
  <2>2. A(1) \in {0, 30} /\ A(2) = 0 /\ A(3) = 0 /\ A(4) = 0
    BY <1>5, IndicatorsAre, IndicatorIs DEF Adds
  <2>3. C(1) = IF A(1) + A(2) + A(3) + A(4) <= 100 THEN A(1) + A(2) + A(3) + A(4) ELSE 100
    BY <2>1, FourAddUp DEF matched
  <2> HIDE DEF A, C
  <2> QED  BY <2>2, <2>3
<1>8. C(2) = 0
  <2> DEFINE A(k) == Adds(Known[2].indicators, matched, k)
  <2>1. Len(Known[2].indicators) = 3  BY IndicatorsAre
  <2>2. A(1) = 0 /\ A(2) = 0 /\ A(3) = 0
    BY <1>5, IndicatorsAre, IndicatorIs DEF Adds
  <2>3. C(2) = IF A(1) + A(2) + A(3) <= 100 THEN A(1) + A(2) + A(3) ELSE 100
    BY <2>1, ThreeAddUp DEF matched
  <2> HIDE DEF A, C
  <2> QED  BY <2>2, <2>3
<1>9. C(4) <= 50
  <2> DEFINE A(k) == Adds(Known[4].indicators, matched, k)
  <2>1. Len(Known[4].indicators) = 3  BY IndicatorsAre
  <2>2. A(1) = 0 /\ A(2) \in {0, 30} /\ A(3) \in {0, 20}
    BY <1>5, IndicatorsAre, IndicatorIs DEF Adds
  <2>3. C(4) = IF A(1) + A(2) + A(3) <= 100 THEN A(1) + A(2) + A(3) ELSE 100
    BY <2>1, ThreeAddUp DEF matched
  <2> HIDE DEF A, C
  <2> QED  BY <2>2, <2>3
<1>10. C(5) = 0
  <2> DEFINE A(k) == Adds(Known[5].indicators, matched, k)
  <2>1. Len(Known[5].indicators) = 3  BY IndicatorsAre
  <2>2. A(1) = 0 /\ A(2) = 0 /\ A(3) = 0
    BY <1>5, IndicatorsAre, IndicatorIs DEF Adds
  <2>3. C(5) = IF A(1) + A(2) + A(3) <= 100 THEN A(1) + A(2) + A(3) ELSE 100
    BY <2>1, ThreeAddUp DEF matched
  <2> HIDE DEF A, C
  <2> QED  BY <2>2, <2>3
<1>11. PICK i \in 1..5 :
          /\ \A j \in 1..5 : C(j) \in Nat /\ C(j) <= C(i)
          /\ Analyzer!matchPatterns(Context) =
                IF C(i) < 20 THEN Analyzer!Unknown ELSE Conclusion(i, Context)
  BY VerdictConcludes
<1>12. i = 3
  <2> HIDE DEF C
  <2>1. C(3) <= C(i) /\ C(3) \in Nat /\ C(i) \in Nat  BY <1>11
  <2>2. i = 1 \/ i = 2 \/ i = 3 \/ i = 4 \/ i = 5  OBVIOUS
  <2> QED  BY <1>6, <1>7, <1>8, <1>9, <1>10, <2>1, <2>2
<1>13. answer.report.rootCause = Conclusion(3, Context)
  <2>1. answer.report.rootCause = Analyzer!matchPatterns(Context)  BY ContextIs
  <2>2. C(3) \in Nat  BY <1>11
  <2> QED  BY <1>6, <1>11, <1>12, <2>1, <2>2
<1>14. Conclusion(3, Context).category = "software_oom"
  <2> DEFINE pattern == Known[3]
  <2>1. Weighed(pattern.indicators)  BY IndicatorsWeighed
  <2> HIDE DEF pattern
  <2>2. TotalIs(pattern, matched)  BY <2>1, ConfidenceIs
  <2> QED  BY <2>2, PatternsAre DEF TotalIs, Conclusion, pattern, matched
<1> QED  BY <1>3, <1>6, <1>13, <1>14

\* "Not your code" is said only when something near the failure speaks for it, whatever
\* was observed (matchPatterns and checkIndicator, analyzer.go).
THEOREM BlameHasSupport == Spec => []BlameIsSupported
BY AlwaysAboutWorld, SupportedBlame, PTL

\* A pod killed for its memory on clean hardware gets that verdict from the correlator
\* and the analyzer, with a confidence of at least 70 percent (DetectCausality,
\* matchPatterns).
THEOREM CleanOomIsBlamedOnTheCode == Spec => []CleanOomIsTheCode
BY AlwaysAboutWorld, OomIsTheCode, PTL
--------------------------------------------------------------------------------
(***************************************************************************)
(* Folds.  A fold over a finite set takes out one element after the other, *)
(* which pick chooses; it is a recursion over the subsets.                 *)
(***************************************************************************)
\* Whether pick chooses an element of every subset of S.
Picks(pick, S) == \A s \in SUBSET S : s # {} => pick[s] \in s

\* What is left of a subset of S without the element that pick chooses.
OneLess(pick, S) ==
    \A s \in SUBSET S : s # {} => /\ pick[s] \in S
                                 /\ s \ {pick[s]} \in SUBSET S
                                 /\ Cardinality(s \ {pick[s]}) = Cardinality(s) - 1

\* The subsets of a finite set by their size: taking an element out leaves one less.
LEMMA SubsetSizes ==
    ASSUME NEW S, IsFiniteSet(S), NEW pick, Picks(pick, S)
    PROVE  /\ Cardinality(S) \in Nat
           /\ \A s \in SUBSET S : Cardinality(s) \in 0..Cardinality(S)
           /\ \A s \in SUBSET S : Cardinality(s) = 0 <=> s = {}
           /\ OneLess(pick, S)
<1>1. Cardinality(S) \in Nat  BY FS_CardinalityType
<1>2. ASSUME NEW s \in SUBSET S
      PROVE  /\ Cardinality(s) \in 0..Cardinality(S)
             /\ Cardinality(s) = 0 <=> s = {}
             /\ s # {} => /\ pick[s] \in S
                          /\ s \ {pick[s]} \in SUBSET S
                          /\ Cardinality(s \ {pick[s]}) = Cardinality(s) - 1
  <2>1. IsFiniteSet(s) /\ Cardinality(s) <= Cardinality(S)  BY FS_Subset
  <2>2. Cardinality(s) \in Nat  BY <2>1, FS_CardinalityType
  <2>3. Cardinality(s) = 0 <=> s = {}  BY <2>1, FS_EmptySet
  <2>4. s # {} => pick[s] \in s  BY DEF Picks
  <2>5. s # {} => Cardinality(s \ {pick[s]}) = Cardinality(s) - 1
    BY <2>1, <2>4, FS_RemoveElement
  <2> QED  BY <1>1, <2>1, <2>2, <2>3, <2>4, <2>5
<1> QED  BY <1>1, <1>2 DEF OneLess

\* What holds of {} and is handed on from a set without an element to the set.
LEMMA ReachedByAdding ==
    ASSUME NEW S, IsFiniteSet(S), NEW pick, Picks(pick, S), NEW T, {} \in T,
           \A s \in SUBSET S : s # {} /\ s \ {pick[s]} \in T => s \in T
    PROVE  SUBSET S \subseteq T
<1> DEFINE n == Cardinality(S)
           Size(s) == Cardinality(s)
           full == {m \in 0..n : \A s \in SUBSET S : Size(s) = m => s \in T}
<1>1. n \in Nat /\ \A s \in SUBSET S : Size(s) \in 0..n
  BY SubsetSizes
<1>2. \A s \in SUBSET S : (Size(s) = 0 <=> s = {})
  BY SubsetSizes
<1>11. \A s \in SUBSET S : s # {} => /\ s \ {pick[s]} \in SUBSET S
                                     /\ Size(s \ {pick[s]}) = Size(s) - 1
  BY SubsetSizes DEF OneLess
<1> HIDE DEF n, Size
<1>3. 0..n \subseteq full
  <2>1. 0 \in full  BY <1>1, <1>2
  <2>2. ASSUME NEW m \in 1..n, m - 1 \in full PROVE m \in full
    <3> SUFFICES ASSUME NEW s \in SUBSET S, Size(s) = m PROVE s \in T
      BY <1>1
    <3>1. s # {}  BY <1>2
    <3>2. s \ {pick[s]} \in SUBSET S /\ Size(s \ {pick[s]}) = m - 1
      BY <1>11, <3>1
    <3>3. s \ {pick[s]} \in T  BY <2>2, <3>2
    <3> QED  BY <3>1, <3>3
  <2> HIDE DEF full
  <2> QED  BY <1>1, <2>1, <2>2, ReachedByCounting
<1> SUFFICES ASSUME NEW s \in SUBSET S PROVE s \in T
  OBVIOUS
<1>4. Size(s) \in full  BY <1>1, <1>3
<1> QED  BY <1>4

\* Whether g folds the subsets in D by the rules base and next.
Folds(g, D, V, pick, base, next) ==
    /\ g \in [D -> V] /\ g[{}] = base
    /\ \A s \in D : s # {} => g[s] = next[pick[s]][g[s \ {pick[s]}]]

\* A fold exists, whatever its rules.
LEMMA FoldHasResult ==
    ASSUME NEW S, IsFiniteSet(S), NEW pick, Picks(pick, S),
           NEW V, NEW base \in V, NEW next \in [S -> [V -> V]]
    PROVE  \E g : Folds(g, SUBSET S, V, pick, base, next)
<1> DEFINE n == Cardinality(S)
           Size(s) == Cardinality(s)
           NoLarger(m) == {s \in SUBSET S : Size(s) <= m}
           done == {m \in 0..n : \E g : Folds(g, NoLarger(m), V, pick, base, next)}
<1>1. n \in Nat /\ \A s \in SUBSET S : Size(s) \in 0..n
  BY SubsetSizes
<1>2. \A s \in SUBSET S : (Size(s) = 0 <=> s = {})
  BY SubsetSizes
<1>11. \A s \in SUBSET S : s # {} => /\ pick[s] \in S
                                     /\ s \ {pick[s]} \in SUBSET S
                                     /\ Size(s \ {pick[s]}) = Size(s) - 1
  <2>1. OneLess(pick, S)  BY SubsetSizes
  <2> QED  BY ONLY <2>1 DEF OneLess, Size
<1>3. {} \in SUBSET S  OBVIOUS
<1> HIDE DEF n, Size
<1>4. 0 \in done
  <2>1. NoLarger(0) = {{}}  BY <1>1, <1>2, <1>3
  <2>2. Folds([s \in {{}} |-> base], {{}}, V, pick, base, next)
    BY DEF Folds
  <2>3. 0 \in 0..n  BY <1>1
  <2> DEFINE g == [s \in {{}} |-> base]
  <2>4. Folds(g, NoLarger(0), V, pick, base, next)  BY <2>1, <2>2
  <2> HIDE DEF g, NoLarger
  <2> QED  BY <2>3, <2>4
<1>5. ASSUME NEW m \in 1..n, m - 1 \in done PROVE m \in done
  <2>1. PICK g : Folds(g, NoLarger(m - 1), V, pick, base, next)
    BY <1>5
  <2> DEFINE Next1(s) == next[pick[s]][g[s \ {pick[s]}]]
             h == [s \in NoLarger(m) |-> IF s = {} THEN base ELSE Next1(s)]
  <2>2. \A s \in NoLarger(m) : s # {} => s \ {pick[s]} \in NoLarger(m - 1) /\ Next1(s) \in V
    <3> SUFFICES ASSUME NEW s \in NoLarger(m), s # {}
                 PROVE  s \ {pick[s]} \in NoLarger(m - 1) /\ Next1(s) \in V
      OBVIOUS
    <3>1. s \ {pick[s]} \in NoLarger(m - 1) /\ pick[s] \in S  BY <1>1, <1>11
    <3> HIDE DEF NoLarger
    <3>2. g[s \ {pick[s]}] \in V  BY <2>1, <3>1 DEF Folds
    <3> QED  BY <3>1, <3>2
  <2>3. \A s \in NoLarger(m - 1) : s \in NoLarger(m) /\ h[s] = g[s]
    <3> SUFFICES ASSUME NEW s \in NoLarger(m - 1) PROVE s \in NoLarger(m) /\ h[s] = g[s]
      OBVIOUS
    <3>1. s \in NoLarger(m)  BY <1>1
    <3> HIDE DEF NoLarger
    <3> QED  BY <2>1, <3>1 DEF Folds
  <2>4. {} \in NoLarger(m)  BY <1>1, <1>2, <1>3
  <2>5. Folds(h, NoLarger(m), V, pick, base, next)
    <3> HIDE DEF NoLarger
    <3>1. h \in [NoLarger(m) -> V]
      <4> HIDE DEF Next1
      <4> QED  BY <2>2
    <3>2. h[{}] = base  BY <2>4
    <3>3. ASSUME NEW s \in NoLarger(m), s # {}
          PROVE  h[s] = next[pick[s]][h[s \ {pick[s]}]]
      <4>1. h[s] = Next1(s)  BY <3>3
      <4>2. h[s \ {pick[s]}] = g[s \ {pick[s]}]  BY <2>2, <2>3, <3>3
      <4> QED  BY <4>1, <4>2
    <3> HIDE DEF h
    <3> QED  BY <3>1, <3>2, <3>3 DEF Folds
  <2>6. m \in 0..n  BY <1>1
  <2> HIDE DEF h, NoLarger
  <2> QED  BY <2>5, <2>6
<1>6. n \in done
  <2> HIDE DEF done
  <2>1. 0..n \subseteq done  BY <1>1, <1>4, <1>5, ReachedByCounting
  <2> QED  BY <1>1, <2>1
<1>7. NoLarger(n) = SUBSET S  BY <1>1
<1> HIDE DEF NoLarger
<1> QED  BY <1>6, <1>7

\* Two functions that fold by the same rules are the same.
LEMMA OneFold ==
    ASSUME NEW S, IsFiniteSet(S), NEW pick, Picks(pick, S),
           NEW f, NEW g, f[{}] = g[{}],
           \A s \in SUBSET S : s # {} /\ f[s \ {pick[s]}] = g[s \ {pick[s]}] => f[s] = g[s]
    PROVE  \A s \in SUBSET S : f[s] = g[s]
<1> DEFINE same == {s \in SUBSET S : f[s] = g[s]}
<1>1. {} \in same  OBVIOUS
<1>2. \A s \in SUBSET S : s # {} /\ s \ {pick[s]} \in same => s \in same
  OBVIOUS
<1>3. SUBSET S \subseteq same
  <2> HIDE DEF same
  <2> QED  BY <1>1, <1>2, ReachedByAdding
<1> QED  BY <1>3

\* How a sum over the subsets of D chooses the next element.
Chosen(D) == [s \in SUBSET D |-> CHOOSE x \in s : TRUE]

LEMMA ChosenPicks == ASSUME NEW D PROVE Picks(Chosen(D), D)
BY DEF Picks, Chosen

\* A sum of natural numbers is one, and adds up the elements one after the other.
LEMMA SumIs ==
    ASSUME NEW f, IsFiniteSet(DOMAIN f), \A x \in DOMAIN f : f[x] \in Nat
    PROVE  \E g : /\ g \in [SUBSET DOMAIN f -> Nat] /\ g[{}] = 0
                  /\ \A s \in SUBSET DOMAIN f : s # {} =>
                       g[s] = f[Chosen(DOMAIN f)[s]] + g[s \ {Chosen(DOMAIN f)[s]}]
                  /\ SumFunction(f) = g[DOMAIN f]
<1> DEFINE D == DOMAIN f
           pick == Chosen(D)
           Step(g, s) == IF s = {} THEN 0
                         ELSE f[CHOOSE x \in s : TRUE] + g[s \ {CHOOSE x \in s : TRUE}]
           Recurses(g) == g = [s \in SUBSET D |-> Step(g, s)]
           sum == CHOOSE g : Recurses(g)
           next == [x \in D |-> [v \in Nat |-> f[x] + v]]
<1>1. SumFunction(f) = sum[D]
  BY DEF SumFunction, SumFunctionOnSet, FoldFunctionOnSet, MapThenFoldSet
<1>2. Picks(pick, D)  BY ChosenPicks
<1>3. \A s \in SUBSET D : pick[s] = CHOOSE x \in s : TRUE
  BY DEF Chosen
<1>4. next \in [D -> [Nat -> Nat]] /\ \A x \in D, v \in Nat : next[x][v] = f[x] + v
  OBVIOUS
<1> HIDE DEF pick, next
<1>5. PICK g : Folds(g, SUBSET D, Nat, pick, 0, next)
  <2>1. 0 \in Nat /\ IsFiniteSet(D)  OBVIOUS
  <2> HIDE DEF D
  <2> QED  BY <1>2, <1>4, <2>1, FoldHasResult
<1>6. /\ g \in [SUBSET D -> Nat] /\ g[{}] = 0
      /\ \A s \in SUBSET D : s # {} => g[s] = f[pick[s]] + g[s \ {pick[s]}]
  <2>1. g \in [SUBSET D -> Nat] /\ g[{}] = 0  BY <1>5 DEF Folds
  <2>2. ASSUME NEW s \in SUBSET D, s # {} PROVE g[s] = f[pick[s]] + g[s \ {pick[s]}]
    <3>1. pick[s] \in D /\ s \ {pick[s]} \in SUBSET D  BY <1>2, <2>2 DEF Picks
    <3> HIDE DEF D
    <3>2. g[s \ {pick[s]}] \in Nat /\ g[s] = next[pick[s]][g[s \ {pick[s]}]]
      BY <1>5, <2>1, <2>2, <3>1 DEF Folds
    <3> QED  BY <1>4, <3>1, <3>2
  <2> QED  BY <2>1, <2>2
<1> HIDE DEF D
<1>7. Recurses(g)
  <2>1. g = [s \in SUBSET D |-> g[s]]  BY <1>6
  <2>2. ASSUME NEW s \in SUBSET D PROVE g[s] = Step(g, s)
    <3>1. CASE s = {}  BY <1>6, <3>1
    <3>2. CASE s # {}
      <4> DEFINE x == CHOOSE x \in s : TRUE
      <4>1. g[s] = f[pick[s]] + g[s \ {pick[s]}] /\ pick[s] = x  BY <1>3, <1>6, <3>2
      <4>2. Step(g, s) = f[x] + g[s \ {x}]  BY <3>2
      <4> HIDE DEF x, Step
      <4> QED  BY <4>1, <4>2
    <3> QED  BY <3>1, <3>2
  <2> HIDE DEF Step
  <2> QED  BY <2>1, <2>2
<1>8. Recurses(sum)
  <2> HIDE DEF Recurses
  <2> QED  BY <1>7
<1>9. \A s \in SUBSET D : sum[s] = Step(sum, s)
  <2> HIDE DEF Step, sum
  <2> QED  BY <1>8
<1>10. sum[D] = g[D]
  <2>1. sum[{}] = g[{}]  BY <1>6, <1>9
  <2>2. ASSUME NEW s \in SUBSET D, s # {}, sum[s \ {pick[s]}] = g[s \ {pick[s]}]
        PROVE  sum[s] = g[s]
    <3> DEFINE x == CHOOSE x \in s : TRUE
    <3> HIDE DEF sum
    <3>1. pick[s] = x /\ g[s] = f[pick[s]] + g[s \ {pick[s]}]  BY <1>3, <1>6, <2>2
    <3>2. sum[s] = f[x] + sum[s \ {x}]  BY <1>9, <2>2
    <3> HIDE DEF x
    <3> QED  BY <2>2, <3>1, <3>2
  <2> HIDE DEF sum
  <2>3. IsFiniteSet(D)  BY DEF D
  <2>4. \A s \in SUBSET D : sum[s] = g[s]  BY <1>2, <2>1, <2>2, <2>3, OneFold
  <2> QED  BY <2>4
<1> QED  BY <1>1, <1>6, <1>10 DEF D, pick

\* A sum of numbers none of which is larger is not larger.
LEMMA SumNoLess ==
    ASSUME NEW f, NEW h, IsFiniteSet(DOMAIN f), DOMAIN h = DOMAIN f,
           \A x \in DOMAIN f : f[x] \in Nat /\ h[x] \in Nat /\ f[x] <= h[x]
    PROVE  /\ SumFunction(f) \in Nat /\ SumFunction(h) \in Nat
           /\ SumFunction(f) <= SumFunction(h)
<1> DEFINE D == DOMAIN f
           pick == Chosen(D)
<1>1. PICK g : /\ g \in [SUBSET D -> Nat] /\ g[{}] = 0
               /\ \A s \in SUBSET D : s # {} => g[s] = f[pick[s]] + g[s \ {pick[s]}]
               /\ SumFunction(f) = g[D]
  BY SumIs
<1>2. PICK k : /\ k \in [SUBSET D -> Nat] /\ k[{}] = 0
               /\ \A s \in SUBSET D : s # {} => k[s] = h[pick[s]] + k[s \ {pick[s]}]
               /\ SumFunction(h) = k[D]
  <2>1. \A x \in DOMAIN h : h[x] \in Nat  OBVIOUS
  <2>2. \E k : /\ k \in [SUBSET DOMAIN h -> Nat] /\ k[{}] = 0
               /\ \A s \in SUBSET DOMAIN h : s # {} =>
                    k[s] = h[Chosen(DOMAIN h)[s]] + k[s \ {Chosen(DOMAIN h)[s]}]
               /\ SumFunction(h) = k[DOMAIN h]
    BY ONLY IsFiniteSet(DOMAIN h), <2>1, SumIs
  <2> QED  BY ONLY DOMAIN h = DOMAIN f, <2>2 DEF D, pick
<1> DEFINE less == {s \in SUBSET D : g[s] <= k[s]}
<1>3. Picks(pick, D)  BY ChosenPicks
<1> HIDE DEF pick
<1>4. {} \in less  BY <1>1, <1>2
<1>5. \A s \in SUBSET D : s # {} /\ s \ {pick[s]} \in less => s \in less
  <2> SUFFICES ASSUME NEW s \in SUBSET D, s # {}, s \ {pick[s]} \in less
               PROVE  g[s] <= k[s]
    OBVIOUS
  <2>1. pick[s] \in D /\ s \ {pick[s]} \in SUBSET D  BY <1>3 DEF Picks
  <2>2. /\ g[s] = f[pick[s]] + g[s \ {pick[s]}] /\ k[s] = h[pick[s]] + k[s \ {pick[s]}]
        /\ g[s \ {pick[s]}] \in Nat /\ k[s \ {pick[s]}] \in Nat
    BY <1>1, <1>2, <2>1
  <2>3. f[pick[s]] \in Nat /\ h[pick[s]] \in Nat /\ f[pick[s]] <= h[pick[s]]
    BY <2>1
  <2>4. g[s \ {pick[s]}] <= k[s \ {pick[s]}]  OBVIOUS
  <2> QED  BY <2>2, <2>3, <2>4
<1>6. IsFiniteSet(D)  OBVIOUS
<1>7. D \in less
  <2> HIDE DEF less, D
  <2> QED  BY <1>3, <1>4, <1>5, <1>6, ReachedByAdding
<1> QED  BY <1>1, <1>2, <1>7
--------------------------------------------------------------------------------
(***************************************************************************)
(* The invariant: the gateway's inventory is made of the nodes observed,   *)
(* and a node's description of what the API server said of it.             *)
(***************************************************************************)
AboutCluster ==
    /\ observed.of = "agents" =>
         observed.results \in Answers /\ observed.cluster \in Clusters
    /\ answer.tool = "get_gpu_inventory" =>
         /\ observed.of = "agents"
         /\ \E allowed, routed, wanted \in BOOLEAN :
              answer.response = Gateway!Handle("get_gpu_inventory", allowed, routed,
                                               observed.results, observed.cluster, wanted)
    /\ "k" \in DOMAIN answer =>
         /\ answer.k \in KnownNodes
         /\ \E counted, devices, ended :
              answer.response = Node!Describe(counted, devices, Health!Missing,
                                              answer.k, ended)

\* The sum of numbers that the model's instances compute is the same.
LEMMA SumsAlike ==
    \A f : Gateway!SumFunction(f) = SumFunction(f) /\ Node!SumFunction(f) = SumFunction(f)
BY DEF SumFunction, SumFunctionOnSet, FoldFunctionOnSet, MapThenFoldSet,
       Gateway!SumFunction, Gateway!SumFunctionOnSet, Gateway!FoldFunctionOnSet,
       Gateway!MapThenFoldSet, Node!SumFunction, Node!SumFunctionOnSet,
       Node!FoldFunctionOnSet, Node!MapThenFoldSet

\* The GPUs that the pods of a node request are a number.
LEMMA RequestedIsNumber ==
    ASSUME NEW k, IsNode(k), NEW pods \in SUBSET k.pods
    PROVE  SumFunction([pod \in pods |-> pod.gpus]) \in Nat
<1> DEFINE f == [pod \in pods |-> pod.gpus]
<1>1. IsFiniteSet(pods)
  <2>1. IsFiniteSet(k.pods)  BY DEF IsNode
  <2> QED  BY <2>1, FS_Subset
<1>2. DOMAIN f = pods /\ \A x \in pods : f[x] \in Nat
  BY DEF IsNode
<1> HIDE DEF f
<1>3. SumFunction(f) \in Nat  BY <1>1, <1>2, SumNoLess
<1> QED  BY <1>3 DEF f

\* No node that the scheduler keeps within bounds allocates more than it may.
LEMMA NodeWithinBounds ==
    ASSUME NEW k, IsNode(k), Scheduled(k)
    PROVE  LET meta == Gateway!getNodeK8sMetadata(k)
           IN  /\ meta.capacity \in Nat /\ meta.allocatable \in Nat /\ meta.allocated \in Nat
               /\ meta.allocated <= meta.allocatable /\ meta.allocatable <= meta.capacity
<1> DEFINE running == {pod \in k.pods : pod.status \notin Gateway!Ended}
           sum == SumFunction([pod \in running |-> pod.gpus])
           meta == Gateway!getNodeK8sMetadata(k)
<1>1. running = {p \in k.pods : p.status \notin Gateway!Ended}  OBVIOUS
<1>2. sum \in Nat
  <2>1. running \in SUBSET k.pods  OBVIOUS
  <2> HIDE DEF running
  <2> QED  BY <2>1, RequestedIsNumber
<1>3. k.listed /\ k.allocatable <= k.capacity /\ sum <= k.allocatable
  BY DEF Scheduled
<1>4. Gateway!getNodeGPUAllocation(k) = sum
  BY SumsAlike DEF Gateway!getNodeGPUAllocation
<1>5. k.capacity \in Nat /\ k.allocatable \in Nat  BY DEF IsNode
<1> HIDE DEF sum
<1>6. meta.capacity = k.capacity /\ meta.allocatable = k.allocatable /\ meta.allocated = sum
  BY <1>3, <1>4 DEF Gateway!getNodeK8sMetadata
<1> HIDE DEF meta
<1> QED  BY <1>2, <1>3, <1>5, <1>6 DEF meta

\* The free GPUs of the cluster.
LEMMA ClusterWithinBounds ==
    ASSUME NEW results \in Answers, NEW cluster \in Clusters, NEW wanted \in BOOLEAN,
           \A node \in DOMAIN cluster : Scheduled(cluster[node])
    PROVE  LET total == Gateway!aggregateGPUInventory(results, cluster, wanted)
           IN  total.available \in 0..total.capacity
<1> DEFINE known == {i \in DOMAIN results : wanted /\ cluster[results[i].node].found}
           Meta(i) == Gateway!getNodeK8sMetadata(cluster[results[i].node])
           capacity == [i \in known |-> Meta(i).capacity]
           allocatable == [i \in known |-> Meta(i).allocatable]
           allocated == [i \in known |-> Meta(i).allocated]
           total == Gateway!aggregateGPUInventory(results, cluster, wanted)
<1>1. IsFiniteSet(known)
  <2>1. IsFiniteSet(DOMAIN results)  BY ReportsAssumption
  <2>2. known \subseteq DOMAIN results  OBVIOUS
  <2> QED  BY <2>1, <2>2, FS_Subset
<1>2. \A i \in known :
         /\ Meta(i).capacity \in Nat /\ Meta(i).allocatable \in Nat /\ Meta(i).allocated \in Nat
         /\ Meta(i).allocated <= Meta(i).allocatable
         /\ Meta(i).allocatable <= Meta(i).capacity
  <2> SUFFICES ASSUME NEW i \in DOMAIN results
               PROVE  /\ Meta(i).capacity \in Nat /\ Meta(i).allocatable \in Nat
                      /\ Meta(i).allocated \in Nat
                      /\ Meta(i).allocated <= Meta(i).allocatable
                      /\ Meta(i).allocatable <= Meta(i).capacity
    OBVIOUS
  <2>1. results[i].node \in DOMAIN cluster  BY ReportsAssumption
  <2>2. IsNode(cluster[results[i].node]) /\ Scheduled(cluster[results[i].node])
    BY <2>1, ReportsAssumption
  <2> QED  BY <2>2, NodeWithinBounds
<1>3. /\ total.capacity = SumFunction(capacity)
      /\ total.available = SumFunction(allocatable) - SumFunction(allocated)
  BY SumsAlike DEF Gateway!aggregateGPUInventory
<1> HIDE DEF known, Meta, total
<1>4. DOMAIN capacity = known /\ DOMAIN allocatable = known /\ DOMAIN allocated = known
  OBVIOUS
<1>5. \A i \in known : /\ capacity[i] \in Nat /\ allocatable[i] \in Nat /\ allocated[i] \in Nat
                       /\ allocated[i] <= allocatable[i] /\ allocatable[i] <= capacity[i]
  BY <1>2
<1> HIDE DEF capacity, allocatable, allocated
<1>6. /\ SumFunction(allocated) \in Nat /\ SumFunction(allocatable) \in Nat
      /\ SumFunction(allocated) <= SumFunction(allocatable)
  BY <1>1, <1>4, <1>5, SumNoLess
<1>7. /\ SumFunction(capacity) \in Nat
      /\ SumFunction(allocatable) <= SumFunction(capacity)
  BY <1>1, <1>4, <1>5, SumNoLess
<1> QED  BY <1>3, <1>6, <1>7 DEF total

\* The free GPUs of a node none of whose pods have ended.
LEMMA DescribedWithinBounds ==
    ASSUME NEW k, IsNode(k), Scheduled(k), NothingEnded(k),
           NEW counted, NEW devices, NEW ended,
           Node!Describe(counted, devices, Health!Missing, k, ended) # Node!Refused,
           Node!Describe(counted, devices, Health!Missing, k, ended).total = k.capacity
    PROVE  LET told == Node!Describe(counted, devices, Health!Missing, k, ended)
           IN  told.available \in 0..told.total
<1> DEFINE told == Node!Describe(counted, devices, Health!Missing, k, ended)
           sum == SumFunction([pod \in k.pods |-> pod.gpus])
<1>1. {pod \in k.pods : pod.status \notin Gateway!Ended} = k.pods
  BY DEF NothingEnded
<1>2. sum \in Nat  BY RequestedIsNumber
<1>3. sum <= k.allocatable /\ k.allocatable <= k.capacity
  BY <1>1 DEF Scheduled
<1>4. k.capacity \in Nat /\ k.allocatable \in Nat  BY DEF IsNode
<1>5. Node!getPodsSummary(k) = sum  BY SumsAlike DEF Node!getPodsSummary
<1> HIDE DEF sum
<1>6. \E allocated : (allocated = sum \/ allocated = 0)
                     /\ told.allocated = allocated /\ told.available = told.total - allocated
  BY <1>5 DEF Node!Describe
<1> HIDE DEF told
<1> QED  BY <1>2, <1>3, <1>4, <1>6 DEF told

\* No other question gives an answer of the two tools.
Uncounted ==
    /\ observed' = observed
    /\ answer'.tool # "get_gpu_inventory"
    /\ "k" \notin DOMAIN answer'

LEMMA OthersUncounted ==
    /\ \A counted, ended : AskHealth(counted, ended) => Uncounted
    /\ \A request, ended : AskTimeline(request, ended) => Uncounted
    /\ ReadAgent => Uncounted
    /\ \A trigger, cut : AutoCorrelate(trigger, cut) => Uncounted
    /\ \A pod, found, correlating, cut :
          ExplainPod(pod, found, correlating, cut) => Uncounted
    /\ \A pod, found, correlating, cut, recording :
          ReportPod(pod, found, correlating, cut, recording) => Uncounted
    /\ AskAgain => Uncounted
<1>1. \A counted, ended : AskHealth(counted, ended) => Uncounted
  BY DEF AskHealth, Uncounted
<1>2. \A request, ended : AskTimeline(request, ended) => Uncounted
  BY DEF AskTimeline, Uncounted
<1>3. ReadAgent => Uncounted
  BY DEF ReadAgent, Uncounted
<1>4. \A trigger, cut : AutoCorrelate(trigger, cut) => Uncounted
  BY DEF AutoCorrelate, Uncounted
<1>5. \A pod, found, correlating, cut :
         ExplainPod(pod, found, correlating, cut) => Uncounted
  BY DEF ExplainPod, Uncounted, ToolError
<1>6. \A pod, found, correlating, cut, recording :
         ReportPod(pod, found, correlating, cut, recording) => Uncounted
  <2> SUFFICES ASSUME NEW pod, NEW found, NEW correlating, NEW cut, NEW recording,
                      ReportPod(pod, found, correlating, cut, recording)
               PROVE  Uncounted
    OBVIOUS
  <2> DEFINE incidents == Incidents(pod, found, correlating, observed.world, cut)
  <2>1. observed' = observed  BY DEF ReportPod
  <2>2. \/ \E incident \in incidents :
              answer' = [tool |-> "get_incident_report", incident |-> incident,
                         whole |-> correlating /\ cut = Whole,
                         report |-> IncidentReport(incident, recording, Recorded,
                                                   TRUE, TRUE)]
        \/ answer' = ToolError
    BY DEF ReportPod
  <2>3. answer'.tool # "get_gpu_inventory" /\ "k" \notin DOMAIN answer'
    <3> HIDE DEF incidents
    <3>1. CASE answer' = ToolError
      BY <3>1 DEF ToolError
    <3>2. ASSUME NEW incident \in incidents,
                 answer' = [tool |-> "get_incident_report", incident |-> incident,
                            whole |-> correlating /\ cut = Whole,
                            report |-> IncidentReport(incident, recording, Recorded,
                                                      TRUE, TRUE)]
          PROVE  answer'.tool # "get_gpu_inventory" /\ "k" \notin DOMAIN answer'
      BY ONLY <3>2
    <3> QED  BY <2>2, <3>1, <3>2
  <2> QED  BY <2>1, <2>3 DEF Uncounted
<1>7. AskAgain => Uncounted
  BY DEF AskAgain, ReportID, Uncounted
<1> QED  BY <1>1, <1>2, <1>3, <1>4, <1>5, <1>6, <1>7

LEMMA InitAboutCluster == Init => AboutCluster
<1> SUFFICES ASSUME Init PROVE AboutCluster
  OBVIOUS
<1>1. observed.of = "agents" => observed.results \in Answers /\ observed.cluster \in Clusters
  BY DEF Init
<1>2. answer.tool = "none" /\ "k" \notin DOMAIN answer  BY DEF Init
<1> QED  BY <1>1, <1>2 DEF AboutCluster

LEMMA NextAboutCluster == AboutCluster /\ [Next]_vars => AboutCluster'
<1> SUFFICES ASSUME AboutCluster, [Next]_vars PROVE AboutCluster'
  OBVIOUS
<1>1. ASSUME Uncounted PROVE AboutCluster'
  BY <1>1 DEF AboutCluster, Uncounted
<1>2. ASSUME NEW tool \in {"get_gpu_inventory", "describe_gpu_node"},
             NEW allowed \in BOOLEAN, NEW routed \in BOOLEAN, NEW wanted \in BOOLEAN,
             AskAgents(tool, allowed, routed, wanted)
      PROVE  AboutCluster'
  <2>1. /\ observed.of = "agents" /\ observed' = observed
        /\ answer' = [tool |-> tool,
                      response |-> Gateway!Handle(tool, allowed, routed, observed.results,
                                                  observed.cluster, wanted)]
    BY <1>2 DEF AskAgents
  <2>2. /\ answer'.tool = tool /\ "k" \notin DOMAIN answer'
        /\ answer'.response = Gateway!Handle(tool, allowed, routed, observed.results,
                                             observed.cluster, wanted)
    BY <2>1
  <2>3. answer'.tool = "get_gpu_inventory" =>
          answer'.response = Gateway!Handle("get_gpu_inventory", allowed, routed,
                                            observed'.results, observed'.cluster, wanted)
    BY <2>1, <2>2
  <2> QED  BY <2>1, <2>2, <2>3 DEF AboutCluster
<1>3. ASSUME NEW k \in KnownNodes, NEW counted, NEW ended, DescribeNode(counted, k, ended)
      PROVE  AboutCluster'
  <2> DEFINE response == Node!Describe(counted, observed.devices, Health!Missing, k, ended)
  <2>1. /\ observed' = observed
        /\ answer' = [tool |-> "describe_gpu_node", k |-> k, response |-> response]
    BY <1>3 DEF DescribeNode
  <2> HIDE DEF response
  <2>2. answer'.tool # "get_gpu_inventory" /\ answer'.k = k /\ answer'.response = response
    BY <2>1
  <2>3. \E c, devices, e :
           answer'.response = Node!Describe(c, devices, Health!Missing, answer'.k, e)
    BY <2>2 DEF response
  <2>4. KnownNodes' = KnownNodes  BY DEF KnownNodes
  <2> QED  BY <2>1, <2>2, <2>3, <2>4 DEF AboutCluster
<1>4. ASSUME Ask PROVE AboutCluster'
  <2>1. \/ \E counted, ended : AskHealth(counted, ended)
        \/ \E tool \in {"get_gpu_inventory", "describe_gpu_node"},
              allowed, routed, wanted \in BOOLEAN : AskAgents(tool, allowed, routed, wanted)
        \/ \E k \in KnownNodes : \E counted, ended : DescribeNode(counted, k, ended)
        \/ \E request, ended : AskTimeline(request, ended)
        \/ ReadAgent
        \/ \E trigger, cut : AutoCorrelate(trigger, cut)
        \/ \E pod, found, correlating, cut : ExplainPod(pod, found, correlating, cut)
        \/ \E pod, found, correlating, cut, recording :
              ReportPod(pod, found, correlating, cut, recording)
    BY <1>4 DEF Ask
  <2> QED  BY <1>1, <1>2, <1>3, <2>1, OthersUncounted
<1>5. ASSUME UNCHANGED vars PROVE AboutCluster'
  BY <1>5 DEF vars, AboutCluster
<1> QED  BY <1>1, <1>4, <1>5, OthersUncounted DEF Next

(***************************************************************************)
(* For clusters of any size: where the scheduler keeps every node within   *)
(* what it may allocate, the free GPUs that the inventory and a node's     *)
(* description report are never negative and never more than there are     *)
(* (proxy.go:352, describe_gpu_node.go:246).  The pods' requests add up in *)
(* whatever order they are summed.                                         *)
(***************************************************************************)
THEOREM FreeGPUsAreReal == Spec => []AvailabilityIsReal
<1>1. AboutCluster => AvailabilityIsReal
  <2> SUFFICES ASSUME AboutCluster PROVE AvailabilityIsReal
    OBVIOUS
  <2>1. ASSUME answer.tool = "get_gpu_inventory",
               answer.response \notin {Gateway!Limited, Gateway!Unrouted},
               \A node \in DOMAIN observed.cluster : Scheduled(observed.cluster[node])
        PROVE  answer.response.available \in 0..answer.response.capacity
    <3>1. observed.results \in Answers /\ observed.cluster \in Clusters
      BY <2>1 DEF AboutCluster
    <3>2. PICK allowed \in BOOLEAN, routed \in BOOLEAN, wanted \in BOOLEAN :
             answer.response = Gateway!Handle("get_gpu_inventory", allowed, routed,
                                              observed.results, observed.cluster, wanted)
      BY <2>1 DEF AboutCluster
    <3>3. answer.response
            = Gateway!aggregateGPUInventory(observed.results, observed.cluster, wanted)
      BY <2>1, <3>2 DEF Gateway!Handle
    <3> QED  BY <2>1, <3>1, <3>3, ClusterWithinBounds
  <2>2. ASSUME "k" \in DOMAIN answer, answer.response # Node!Refused,
               Scheduled(answer.k), NothingEnded(answer.k),
               answer.response.total = answer.k.capacity
        PROVE  answer.response.available \in 0..answer.response.total
    <3>1. PICK counted, devices, ended :
             answer.response = Node!Describe(counted, devices, Health!Missing,
                                             answer.k, ended)
      BY <2>2 DEF AboutCluster
    <3>2. IsNode(answer.k)
      <4>1. PICK cluster \in Clusters : answer.k \in Range(cluster)
        BY <2>2 DEF AboutCluster, KnownNodes
      <4>2. PICK node \in DOMAIN cluster : answer.k = cluster[node]
        BY <4>1 DEF Range
      <4> QED  BY <4>1, <4>2, ReportsAssumption
    <3> QED  BY <2>2, <3>1, <3>2, DescribedWithinBounds
  <2> QED  BY <2>1, <2>2 DEF AvailabilityIsReal
<1> QED  BY <1>1, InitAboutCluster, NextAboutCluster, PTL DEF Spec

\* How FoldLeft chooses the next index of a sequence: the last one.
Largest(n) == [s \in SUBSET (1..n) |-> Max(s)]

LEMMA LargestIs ==
    ASSUME NEW n \in Nat, NEW s \in SUBSET (1..n), s # {}
    PROVE  /\ Max(s) \in s /\ \A y \in s : Max(s) >= y
           /\ \A m \in 1..n : s = 1..m => Max(s) = m
<1> DEFINE T == {n - x : x \in s}
<1>1. T \in SUBSET Nat /\ T # {}
  <2>1. \A x \in s : x \in 1..n /\ n - x \in Nat  OBVIOUS
  <2>2. PICK x : x \in s  OBVIOUS
  <2>3. n - x \in T  BY <2>2
  <2> QED  BY <2>1, <2>3
<1>2. PICK t \in T : \A u \in T : t <= u
  <2> HIDE DEF T
  <2> QED  BY <1>1, LeastNumber
<1>3. PICK x \in s : t = n - x  BY <1>2
<1>4. \A y \in s : x >= y
  <2> SUFFICES ASSUME NEW y \in s PROVE x >= y
    OBVIOUS
  <2>1. n - y \in T /\ y \in 1..n /\ x \in 1..n
    OBVIOUS
  <2>2. t <= n - y  BY <1>2, <2>1
  <2> QED  BY <1>3, <2>1, <2>2
<1>5. Max(s) \in s /\ \A y \in s : Max(s) >= y
  BY <1>4 DEF Max
<1>6. ASSUME NEW m \in 1..n, s = 1..m PROVE Max(s) = m
  <2>1. m \in s /\ Max(s) \in 1..m  BY <1>5, <1>6
  <2> QED  BY <1>5, <2>1
<1> QED  BY <1>5, <1>6

LEMMA LargestPicks == ASSUME NEW n \in Nat PROVE Picks(Largest(n), 1..n)
BY LargestIs DEF Picks, Largest

\* Whether g folds the indices of a sequence from the left, and f is g on the prefixes.
FoldsLeft(g, n, V, base, next) == Folds(g, SUBSET (1..n), V, Largest(n), base, next)
OnPrefixes(f, g, n, V, base, next) == Counts(f, n, V, base, next) /\ f[n] = g[1..n]

\* A fold of a sequence from the left goes through its prefixes.
LEMMA PrefixFold ==
    ASSUME NEW n \in Nat, NEW V, NEW base, NEW next, NEW g, FoldsLeft(g, n, V, base, next)
    PROVE  \E f : OnPrefixes(f, g, n, V, base, next)
<1> USE DEF FoldsLeft
<1> DEFINE f == [k \in 0..n |-> g[1..k]]
<1>1. \A k \in 0..n : 1..k \in SUBSET (1..n) /\ f[k] = g[1..k]
  OBVIOUS
<1>2. f[0] = base
  <2>1. 1..0 = {} /\ 0 \in 0..n  OBVIOUS
  <2> HIDE DEF f
  <2> QED  BY <1>1, <2>1 DEF Folds
<1>3. ASSUME NEW k \in 1..n PROVE f[k] = next[k][f[k - 1]]
  <2>1. 1..k \in SUBSET (1..n) /\ 1..k # {} /\ (1..k) \ {k} = 1..k - 1
    OBVIOUS
  <2>2. Largest(n)[1..k] = k
    BY <2>1, LargestIs DEF Largest
  <2>3. k \in 0..n /\ k - 1 \in 0..n  OBVIOUS
  <2> HIDE DEF f
  <2>4. g[1..k] = next[k][g[(1..k) \ {k}]]
    BY <2>1, <2>2 DEF Folds
  <2> QED  BY <1>1, <2>1, <2>3, <2>4
<1>4. f \in [0..n -> V]
  <2>1. \A k \in 0..n : f[k] \in V
    <3> HIDE DEF f
    <3> QED  BY <1>1 DEF Folds
  <2> QED  BY <2>1
<1>5. n \in 0..n  OBVIOUS
<1> HIDE DEF f
<1>6. f[n] = g[1..n]  BY <1>1, <1>5
<1> QED  BY <1>2, <1>3, <1>4, <1>6 DEF Counts, OnPrefixes

--------------------------------------------------------------------------------
(***************************************************************************)
(* Timelines of GPUs: the changes, replayed.                               *)
(***************************************************************************)
\* The operators of the node's tools are those of a correlation.
LEMMA NodeAlike ==
    /\ \A log, start : Node!Since(log, start) = Since(log, start)
    /\ \A entries : Node!SortedByTime(entries) = SortedByTime(entries)
    /\ \A s : Node!IsThrottled(s) = IsThrottled(s)
    /\ \A time, key : Node!Entry(time, key) = Entry(time, key)
    /\ \A s : Node!ToSet(s) = ToSet(s)
<1>1. \A log, start : Node!Since(log, start) = Since(log, start)
  BY DEF Node!Since, Since, Node!Min, Min
<1>2. \A s : Node!ToSet(s) = ToSet(s)
  BY DEF Node!ToSet, ToSet
<1>3. \A entries : Node!SortedByTime(entries) = SortedByTime(entries)
  BY DEF Node!SortedByTime, SortedByTime, Node!ToSet, ToSet, Node!Cardinality, Cardinality
<1>4. \A s : Node!IsThrottled(s) = IsThrottled(s)
  BY DEF Node!IsThrottled, IsThrottled
<1>5. \A time, key : Node!Entry(time, key) = Entry(time, key)
  BY DEF Node!Entry, Entry
<1> QED  BY <1>1, <1>2, <1>3, <1>4, <1>5

\* What is since a time is in the order of the log.
LEMMA SinceSorted ==
    ASSUME NEW X, NEW log \in Seq(X), Sorted(log), NEW start
    PROVE  Sorted(Since(log, start))
<1> DEFINE reached == {i \in DOMAIN log : log[i].time >= start}
           n == Len(log)
<1>1. n \in Nat /\ DOMAIN log = 1..n /\ \A i \in 1..n : log[i] \in X
  OBVIOUS
<1>2. CASE reached = {}
  <2>1. Since(log, start) = <<>>  BY <1>2 DEF Since
  <2> QED  BY <2>1 DEF Sorted
<1>3. CASE reached # {}
  <2> DEFINE m == Min(reached)
             t == SubSeq(log, m, n)
  <2>1. Since(log, start) = t  BY <1>3 DEF Since
  <2>2. m \in 1..n
    <3>1. reached \in SUBSET Nat  BY <1>1
    <3> HIDE DEF reached
    <3>2. PICK x \in reached : \A y \in reached : x <= y  BY <1>3, <3>1, LeastNumber
    <3>3. m \in reached  BY <3>2 DEF Min
    <3> QED  BY <1>1, <3>3 DEF reached
  <2> HIDE DEF m, reached
  <2>3. DOMAIN t = 1..(n - m + 1) /\ \A i \in 1..(n - m + 1) : t[i] = log[m + i - 1]
    BY <1>1, <2>2
  <2> HIDE DEF t
  <2>4. ASSUME NEW i \in DOMAIN t, NEW j \in DOMAIN t, i < j PROVE t[i].time <= t[j].time
    <3>1. m + i - 1 \in 1..n /\ m + j - 1 \in 1..n /\ m + i - 1 < m + j - 1
      BY <1>1, <2>2, <2>3, <2>4
    <3>2. t[i] = log[m + i - 1] /\ t[j] = log[m + j - 1]  BY <2>3, <2>4
    <3> QED  BY <1>1, <3>1, <3>2 DEF Sorted
  <2> QED  BY <2>1, <2>4 DEF Sorted
<1> QED  BY <1>2, <1>3

\* The entries of a timeline: the XIDs of the GPU, and the changes of its samples.
TimelineXIDs(gpu, xid, since) ==
    {Entry(e.time \div 2, <<"xid", e.what, e.time>>) :
        e \in {x \in ToSet(Since(xid, since)) : x.gpu \in {"", gpu}}}
Changed(S, i) == IsThrottled(S[i]) # IsThrottled(S[i - 1])
Changes(S) ==
    {Entry(S[i].time \div 2, <<"throttle", IsThrottled(S[i]), i>>) :
        i \in {j \in 2..Len(S) : Changed(S, j)}}

\* What a response about one GPU is made of.
LEMMA ResponseIs ==
    ASSUME NEW gpu, NEW request, NEW recording,
           NEW t \in Node!handleSingleGPU(gpu, request, recording)
    PROVE  LET since == recording.now - Node!Duration(request)
               S == Since(recording.tracked[gpu], since)
           IN  /\ t.gpu = gpu
               /\ t.points = [i \in DOMAIN S |-> [time |-> S[i].time \div 2,
                                                  throttling |-> IsThrottled(S[i])]]
               /\ t.events \in SortedByTime(TimelineXIDs(gpu, recording.xid, since)
                                            \cup Changes(S))
<1> DEFINE since == recording.now - Node!Duration(request)
           S == Since(recording.tracked[gpu], since)
           response == Node!buildResponse(gpu, S, recording.devices, request.include_stats)
           points == [i \in DOMAIN S |-> [time |-> S[i].time \div 2,
                                          throttling |-> IsThrottled(S[i])]]
<1>1. Node!GetTimeline(gpu, request, recording) = S
  BY NodeAlike DEF Node!GetTimeline
<1>2. PICK events \in Node!extractEvents(S, gpu, recording.xid, since) :
         t = [response EXCEPT !.events = events]
  BY <1>1 DEF Node!handleSingleGPU
<1>3. Node!detectThrottlingTransitions(S) = Changes(S)
  BY DEF Node!detectThrottlingTransitions, Changes, Changed, Node!Second,
         Node!IsThrottled, IsThrottled, Node!Entry, Entry
<1>4. Node!extractEvents(S, gpu, recording.xid, since)
        = SortedByTime(TimelineXIDs(gpu, recording.xid, since) \cup Changes(S))
  BY <1>3, NodeAlike DEF Node!extractEvents, TimelineXIDs, Node!Second
<1> HIDE DEF S, since
<1>5. /\ response.gpu = gpu /\ response.points = points
      /\ {"gpu", "points", "events"} \subseteq DOMAIN response
  BY NodeAlike DEF Node!buildResponse, Node!Second
<1> HIDE DEF response, points
<1>6. t.gpu = gpu /\ t.points = points /\ t.events = events
  BY <1>2, <1>5
<1> QED  BY <1>2, <1>4, <1>6 DEF S, since, points

\* Whether an event tells of throttling by a time.
Tells(e, time) == e.key[1] = "throttle" /\ e.time <= time

Replay(events, first, time) ==
    FoldLeft(LAMBDA on, e :
                IF e.key[1] = "throttle" /\ e.time <= time THEN e.key[2] ELSE on,
             first, events)

\* What is required of the events of a replay, and what it goes through.
Replayable(events, n, V, time) ==
    /\ DOMAIN events = 1..n
    /\ \A k \in 1..n : Tells(events[k], time) => events[k].key[2] \in V

Replays(f, events, n, V, first, time) ==
    /\ f \in [0..n -> V] /\ f[0] = first
    /\ \A k \in 1..n : f[k] = IF Tells(events[k], time) THEN events[k].key[2]
                              ELSE f[k - 1]
    /\ Replay(events, first, time) = f[n]

\* A replay goes through the events one after the other.
LEMMA ReplayIs ==
    ASSUME NEW n \in Nat, NEW V, NEW first \in V, NEW time, NEW events,
           Replayable(events, n, V, time)
    PROVE  \E f : Replays(f, events, n, V, first, time)
<1> USE DEF Replayable
<1> DEFINE D == 1..n
           Step(g, s) == IF s = {} THEN first
                         ELSE IF Tells(events[Max(s)], time) THEN events[Max(s)].key[2]
                         ELSE g[s \ {Max(s)}]
           Recurses(g) == g = [s \in SUBSET D |-> Step(g, s)]
           fold == CHOOSE g : Recurses(g)
           next == [k \in D |-> [v \in V |-> IF Tells(events[k], time)
                                             THEN events[k].key[2] ELSE v]]
<1>1. Replay(events, first, time) = fold[D]
  BY DEF Replay, FoldLeft, MapThenFoldSet, Tells
<1>2. Picks(Largest(n), D)  BY LargestPicks
<1>3. \A s \in SUBSET D : Largest(n)[s] = Max(s)
  BY DEF Largest
<1>4. /\ next \in [D -> [V -> V]]
      /\ \A k \in D, v \in V : next[k][v] = IF Tells(events[k], time)
                                            THEN events[k].key[2] ELSE v
  OBVIOUS
<1>5. IsFiniteSet(D)  BY FS_Interval
<1> HIDE DEF next
<1>6. PICK g : Folds(g, SUBSET D, V, Largest(n), first, next)
  <2> HIDE DEF D
  <2> QED  BY <1>2, <1>4, <1>5, FoldHasResult
<1>12. PICK f : OnPrefixes(f, g, n, V, first, next)
  <2>1. FoldsLeft(g, n, V, first, next)  BY <1>6 DEF FoldsLeft
  <2> QED  BY <2>1, PrefixFold
<1>7. /\ g \in [SUBSET D -> V] /\ g[{}] = first
      /\ \A s \in SUBSET D : s # {} => g[s] = Step(g, s)
  <2>1. g \in [SUBSET D -> V] /\ g[{}] = first  BY <1>6 DEF Folds
  <2>2. ASSUME NEW s \in SUBSET D, s # {} PROVE g[s] = Step(g, s)
    <3>1. Largest(n)[s] \in D /\ s \ {Largest(n)[s]} \in SUBSET D /\ Largest(n)[s] = Max(s)
      BY <1>2, <1>3, <2>2 DEF Picks
    <3> HIDE DEF D
    <3>2. g[s \ {Largest(n)[s]}] \in V /\ g[s] = next[Largest(n)[s]][g[s \ {Largest(n)[s]}]]
      BY <1>6, <2>1, <2>2, <3>1 DEF Folds
    <3>3. g[s] = IF Tells(events[Largest(n)[s]], time) THEN events[Largest(n)[s]].key[2]
                 ELSE g[s \ {Largest(n)[s]}]
      BY <1>4, <3>1, <3>2
    <3> QED  BY <2>2, <3>1, <3>3
  <2> QED  BY <2>1, <2>2
<1>8. Recurses(g)
  <2>1. g = [s \in SUBSET D |-> g[s]]  BY <1>7
  <2>2. ASSUME NEW s \in SUBSET D PROVE g[s] = Step(g, s)
    <3>1. CASE s = {}  BY <1>7, <3>1
    <3>2. CASE s # {}
      <4> HIDE DEF Step
      <4> QED  BY <1>7, <3>2
    <3> QED  BY <3>1, <3>2
  <2> HIDE DEF Step
  <2> QED  BY <2>1, <2>2
<1>9. Recurses(fold)
  <2> HIDE DEF Recurses
  <2> QED  BY <1>8
<1>10. \A s \in SUBSET D : fold[s] = Step(fold, s)
  <2> HIDE DEF Step, fold
  <2> QED  BY <1>9
<1> HIDE DEF fold
<1>11. fold[D] = g[D]
  <2>1. fold[{}] = g[{}]  BY <1>7, <1>10
  <2>2. ASSUME NEW s \in SUBSET D, s # {}, fold[s \ {Largest(n)[s]}] = g[s \ {Largest(n)[s]}]
        PROVE  fold[s] = g[s]
    <3>1. Largest(n)[s] = Max(s)  BY <1>3
    <3>2. fold[s] = Step(fold, s) /\ g[s] = Step(g, s)
      <4> HIDE DEF Step
      <4> QED  BY <1>7, <1>10, <2>2
    <3> QED  BY <2>2, <3>1, <3>2
  <2> HIDE DEF D, Step, Recurses
  <2>3. \A s \in SUBSET D : s # {} /\ fold[s \ {Largest(n)[s]}] = g[s \ {Largest(n)[s]}] => fold[s] = g[s]
    BY <2>2
  <2>4. \A s \in SUBSET D : fold[s] = g[s]  BY ONLY <1>2, <1>5, <2>1, <2>3, OneFold
  <2> QED  BY <2>4
<1>13. \A k \in 1..n : f[k] = IF Tells(events[k], time) THEN events[k].key[2] ELSE f[k - 1]
  <2> SUFFICES ASSUME NEW k \in 1..n
               PROVE  f[k] = IF Tells(events[k], time) THEN events[k].key[2] ELSE f[k - 1]
    OBVIOUS
  <2>1. k - 1 \in 0..n  OBVIOUS
  <2>2. f[k - 1] \in V /\ f[k] = next[k][f[k - 1]]  BY <1>12, <2>1 DEF Counts, OnPrefixes
  <2> QED  BY <1>4, <2>2
<1> QED  BY <1>1, <1>11, <1>12, <1>13 DEF Counts, OnPrefixes, Replays

\* Samples in the order of time, no two of them within one second.
Apart(S) ==
    \A i, j \in DOMAIN S : i # j => S[i].time \div 2 # S[j].time \div 2

LEMMA SecondsGrow ==
    ASSUME NEW X, \A x \in X : x.time \in Int, NEW S \in Seq(X), Sorted(S), Apart(S),
           NEW i \in DOMAIN S, NEW j \in DOMAIN S
    PROVE  /\ S[i].time \div 2 \in Int
           /\ S[i].time \div 2 <= S[j].time \div 2 <=> i <= j
<1>1. DOMAIN S = 1..Len(S) /\ Len(S) \in Nat /\ S[i] \in X /\ S[j] \in X
  OBVIOUS
<1>2. S[i].time \in Int /\ S[j].time \in Int /\ i \in Int /\ j \in Int
  BY <1>1
<1>3. \A a, b \in Int : a <= b => a \div 2 <= b \div 2
  OBVIOUS
<1>4. S[i].time \div 2 \in Int /\ S[j].time \div 2 \in Int
  BY <1>2
<1>5. i < j => S[i].time <= S[j].time  BY DEF Sorted
<1>6. j < i => S[j].time <= S[i].time  BY DEF Sorted
<1>7. i # j => S[i].time \div 2 # S[j].time \div 2  BY DEF Apart
<1>8. i < j => S[i].time \div 2 < S[j].time \div 2
  BY <1>2, <1>3, <1>4, <1>5, <1>7
<1>9. j < i => S[j].time \div 2 < S[i].time \div 2
  BY <1>2, <1>3, <1>4, <1>6, <1>7
<1> QED  BY <1>2, <1>4, <1>8, <1>9

\* Nothing changes between two samples if no sample between them is a change.
LEMMA Unchanged ==
    ASSUME NEW S, NEW i \in Nat, NEW j \in Nat, j <= i,
           \A k \in j + 1..i : ~Changed(S, k)
    PROVE  IsThrottled(S[i]) = IsThrottled(S[j])
<1> DEFINE T == {d \in 0..(i - j) : IsThrottled(S[j + d]) = IsThrottled(S[j])}
<1>1. i - j \in Nat  OBVIOUS
<1>2. 0 \in T  
  <2>1. j + 0 = j  OBVIOUS
  <2> QED  BY <1>1, <2>1
<1>3. ASSUME NEW d \in 1..(i - j), d - 1 \in T PROVE d \in T
  <2>1. j + d \in j + 1..i /\ j + (d - 1) = j + d - 1 /\ d \in 0..(i - j)  OBVIOUS
  <2>2. IsThrottled(S[j + d]) = IsThrottled(S[j + d - 1])  BY <2>1 DEF Changed
  <2>3. IsThrottled(S[j + (d - 1)]) = IsThrottled(S[j])  BY <1>3
  <2> QED  BY <2>1, <2>2, <2>3
<1>4. 0..(i - j) \subseteq T
  <2> HIDE DEF T
  <2> QED  BY <1>1, <1>2, <1>3, ReachedByCounting
<1>5. i - j \in T /\ j + (i - j) = i  BY <1>1, <1>4
<1> QED  BY <1>5

\* Whether an event tells of the change at the i-th sample.
TellsOf(e, S, i) ==
    e.time = S[i].time \div 2 /\ e.key[1] = "throttle" /\ e.key[2] = IsThrottled(S[i])

\* Whether each sample was throttled.
Samples(S) == {IsThrottled(S[j]) : j \in 1..Len(S)}

\* A replay up to the second of a sample ends with what was sampled.
LEMMA ReplayEndsAtSample ==
    ASSUME NEW X, \A x \in X : x.time \in Int, NEW S \in Seq(X), Sorted(S), Apart(S),
           NEW m \in Nat, NEW events, DOMAIN events = 1..m, Sorted(events),
           \A k \in 1..m : \/ events[k].key[1] # "throttle"
                           \/ \E j \in 2..Len(S) : TellsOf(events[k], S, j),
           \A j \in 2..Len(S) : Changed(S, j) => \E k \in 1..m : TellsOf(events[k], S, j),
           NEW i \in 1..Len(S)
    PROVE  Replay(events, IsThrottled(S[1]), S[i].time \div 2) = IsThrottled(S[i])
<1>0. PICK thr : \A j \in 1..Len(S) : thr[j] = IsThrottled(S[j])
  <2> DEFINE t == [j \in 1..Len(S) |-> IsThrottled(S[j])]
  <2>1. \A j \in 1..Len(S) : t[j] = IsThrottled(S[j])  OBVIOUS
  <2> QED  BY <2>1
<1> DEFINE n == Len(S)
           Thr(j) == thr[j]
           Sec(j) == S[j].time \div 2
           V == Samples(S)
           T(k) == Tells(events[k], Sec(i))
<1>1. n \in Nat /\ DOMAIN S = 1..n /\ i \in 1..n /\ 1 \in 1..n
  OBVIOUS
<1>2. \A a, b \in 1..n : Sec(a) \in Int /\ (Sec(a) <= Sec(b) <=> a <= b)
  BY <1>1, SecondsGrow
<1>3. \A k \in 1..m : T(k) => \E j \in 2..n : TellsOf(events[k], S, j) /\ j <= i
  <2> SUFFICES ASSUME NEW k \in 1..m, T(k)
               PROVE  \E j \in 2..n : TellsOf(events[k], S, j) /\ j <= i
    OBVIOUS
  <2>1. PICK j \in 2..n : TellsOf(events[k], S, j)
    BY DEF Tells
  <2>2. Sec(j) <= Sec(i) /\ j \in 1..n  BY <1>1, <2>1 DEF Tells, TellsOf
  <2>3. j <= i  BY <1>1, <1>2, <2>2
  <2> QED  BY <2>1, <2>3
<1>16. \A j \in 1..n : Thr(j) \in V  BY <1>0 DEF Samples
<1>4. \A k \in 1..m : T(k) => events[k].key[2] \in V
  <2> SUFFICES ASSUME NEW k \in 1..m, T(k) PROVE events[k].key[2] \in V
    OBVIOUS
  <2>1. PICK j \in 2..n : TellsOf(events[k], S, j)  BY <1>3
  <2>2. j \in 1..n  BY <1>1
  <2> QED  BY <1>0, <1>16, <2>1, <2>2 DEF TellsOf
<1>5. Thr(1) \in V  BY <1>1, <1>16
<1>6. PICK f : Replays(f, events, m, V, Thr(1), Sec(i))
  <2>1. Replayable(events, m, V, Sec(i))  BY <1>4 DEF Replayable
  <2> QED  BY <1>5, <2>1, ReplayIs
<1>15. /\ f[0] = Thr(1)
       /\ \A k \in 1..m : f[k] = IF T(k) THEN events[k].key[2] ELSE f[k - 1]
       /\ Replay(events, Thr(1), Sec(i)) = f[m]
  BY <1>6 DEF Replays
<1>7. ASSUME NEW c \in 2..i, NEW k \in 1..m, TellsOf(events[k], S, c) PROVE T(k)
  <2>1. c \in 1..n /\ c <= i  BY <1>1
  <2>2. Sec(c) <= Sec(i)  BY <1>1, <1>2, <2>1
  <2> QED  BY <1>7, <2>2 DEF Tells, TellsOf
\* Sample j was reached, and every later change is told of later.
<1> DEFINE Behind(k, j) ==
             \A c \in j + 1..i : Changed(S, c) => \E b \in k + 1..m : TellsOf(events[b], S, c)
           good == {k \in 0..m : \E j \in 1..i : f[k] = Thr(j) /\ Behind(k, j)}
<1>8. 0 \in good
  <2>1. Behind(0, 1)
    <3> SUFFICES ASSUME NEW c \in 1 + 1..i, Changed(S, c)
                 PROVE  \E b \in 0 + 1..m : TellsOf(events[b], S, c)
      OBVIOUS
    <3>1. c \in 2..n  BY <1>1
    <3> QED  BY <3>1
  <2>2. 1 \in 1..i /\ 0 \in 0..m  BY <1>1
  <2> HIDE DEF Behind, Thr
  <2> QED  BY <1>15, <2>1, <2>2
<1>9. ASSUME NEW k \in 1..m, k - 1 \in good PROVE k \in good
  <2>1. CASE T(k)
    <3>1. PICK j \in 2..n : TellsOf(events[k], S, j) /\ j <= i  BY <1>3, <2>1
    <3>2. j \in 1..i /\ j \in 1..n  BY <1>1, <3>1
    <3>3. f[k] = Thr(j)  BY <1>0, <1>15, <2>1, <3>1, <3>2 DEF TellsOf
    <3>4. Behind(k, j)
      <4> SUFFICES ASSUME NEW c \in j + 1..i, Changed(S, c)
                   PROVE  \E b \in k + 1..m : TellsOf(events[b], S, c)
        OBVIOUS
      <4>1. c \in 2..n /\ c \in 1..n /\ ~(c <= j)  BY <1>1, <3>1
      <4>2. PICK b \in 1..m : TellsOf(events[b], S, c)  BY <4>1
      <4>3. ~(Sec(c) <= Sec(j))  BY <1>2, <3>2, <4>1
      <4>4. ~(events[b].time <= events[k].time)
        BY <3>1, <4>2, <4>3 DEF TellsOf
      <4>5. b # k /\ ~(b < k)
        <5>1. CASE b < k
          <6>1. events[b].time <= events[k].time  BY <5>1 DEF Sorted
          <6> QED  BY <4>4, <6>1
        <5>2. CASE b = k
          <6>1. Sec(c) = Sec(j)  BY <3>1, <4>2, <5>2 DEF TellsOf
          <6>2. Sec(c) \in Int /\ Sec(j) \in Int  BY <1>2, <3>2, <4>1
          <6> HIDE DEF Sec
          <6> QED  BY <4>3, <6>1, <6>2
        <5> QED  BY <5>1, <5>2
      <4>6. b \in k + 1..m  BY <4>5
      <4> QED  BY <4>2, <4>6
    <3>5. k \in 0..m  OBVIOUS
    <3> HIDE DEF Behind, Thr
    <3> QED  BY <3>2, <3>3, <3>4, <3>5
  <2>2. CASE ~T(k)
    <3>1. PICK j \in 1..i : f[k - 1] = Thr(j) /\ Behind(k - 1, j)  BY <1>9
    <3>2. f[k] = Thr(j)
      BY <1>15, <2>2, <3>1
    <3>3. Behind(k, j)
      <4> SUFFICES ASSUME NEW c \in j + 1..i, Changed(S, c)
                   PROVE  \E b \in k + 1..m : TellsOf(events[b], S, c)
        OBVIOUS
      <4>1. PICK b \in k - 1 + 1..m : TellsOf(events[b], S, c)  BY <3>1
      <4>2. c \in 2..i /\ b \in 1..m  BY <1>1
      <4>3. b # k  BY <1>7, <2>2, <4>1, <4>2
      <4>4. b \in k + 1..m  BY <4>2, <4>3
      <4> QED  BY <4>1, <4>4
    <3>4. k \in 0..m  OBVIOUS
    <3> HIDE DEF Behind, Thr
    <3> QED  BY <3>1, <3>2, <3>3, <3>4
  <2> QED  BY <2>1, <2>2
<1>10. m \in good
  <2> HIDE DEF good
  <2>1. 0..m \subseteq good  BY <1>8, <1>9, ReachedByCounting
  <2> QED  BY <2>1
<1>11. PICK j \in 1..i : f[m] = Thr(j) /\ Behind(m, j)  BY <1>10
<1>12. \A c \in j + 1..i : ~Changed(S, c)
  <2>1. m + 1..m = {}  OBVIOUS
  <2> QED  BY <1>11, <2>1
<1>13. Thr(i) = Thr(j)
  <2>1. i \in Nat /\ j \in Nat /\ j <= i  BY <1>1
  <2>2. IsThrottled(S[i]) = IsThrottled(S[j])  BY <1>12, <2>1, Unchanged
  <2> QED  BY <1>0, <1>1, <2>2
<1>14. Thr(1) = IsThrottled(S[1]) /\ Thr(i) = IsThrottled(S[i])  BY <1>0, <1>1
<1> QED  BY <1>15, <1>11, <1>13, <1>14

\* The entries of a timeline are finitely many and have their times.
LEMMA TimelineEntriesAre ==
    ASSUME NEW gpu, NEW xid \in Seq(Reported), NEW since \in Int, NEW S \in Seq(Sampled)
    PROVE  LET entries == TimelineXIDs(gpu, xid, since) \cup Changes(S)
           IN  IsFiniteSet(entries) /\ \A e \in entries : e.time \in Int
<1> DEFINE shown == {x \in ToSet(Since(xid, since)) : x.gpu \in {"", gpu}}
           About(e) == Entry(e.time \div 2, <<"xid", e.what, e.time>>)
           f == [e \in shown |-> About(e)]
           changed == {j \in 2..Len(S) : Changed(S, j)}
           Change(i) == Entry(S[i].time \div 2, <<"throttle", IsThrottled(S[i]), i>>)
           g == [i \in changed |-> Change(i)]
<1>1. /\ \A x \in Reported : x.time \in Int
      /\ \A x \in Sampled : x.time \in Int
  BY DEF Reported, Sampled
<1>2. /\ IsFiniteSet(shown)
      /\ \A e \in shown : e.time \in Int
  <2>1. Since(xid, since) \in Seq(Reported)  BY <1>1, SinceIs
  <2>2. IsFiniteSet(ToSet(Since(xid, since)))  BY <2>1, ItemsAreFinite
  <2>3. shown \subseteq ToSet(Since(xid, since))  OBVIOUS
  <2>4. \A e \in ToSet(Since(xid, since)) : e \in Reported
    BY <2>1 DEF ToSet
  <2>5. IsFiniteSet(shown)  BY <2>2, <2>3, FS_Subset
  <2> QED  BY <1>1, <2>3, <2>4, <2>5
<1>3. IsFiniteSet(changed)
  <2>1. Len(S) \in Nat  OBVIOUS
  <2>2. IsFiniteSet(2..Len(S)) /\ changed \subseteq 2..Len(S)  BY <2>1, FS_Interval
  <2> QED  BY <2>2, FS_Subset
<1>4. \A i \in changed : S[i].time \in Int
  <2>1. \A i \in 2..Len(S) : S[i] \in Sampled  OBVIOUS
  <2> QED  BY <1>1, <2>1
<1> HIDE DEF shown, changed
<1>5. IsFiniteSet({About(e) : e \in shown})
  <2>1. DOMAIN f = shown /\ {f[e] : e \in shown} = {About(e) : e \in shown}  OBVIOUS
  <2> HIDE DEF f, About
  <2>2. IsFiniteSet({f[e] : e \in shown})  BY <1>2, <2>1, ImageIsFinite
  <2> QED  BY <2>1, <2>2
<1>6. IsFiniteSet({Change(i) : i \in changed})
  <2>1. DOMAIN g = changed /\ {g[i] : i \in changed} = {Change(i) : i \in changed}  OBVIOUS
  <2> HIDE DEF g, Change
  <2>2. IsFiniteSet({g[i] : i \in changed})  BY <1>3, <2>1, ImageIsFinite
  <2> QED  BY <2>1, <2>2
<1>7. \A e \in shown : About(e).time \in Int
  BY <1>2 DEF Entry
<1>8. \A i \in changed : Change(i).time \in Int
  BY <1>4 DEF Entry
<1>9. /\ TimelineXIDs(gpu, xid, since) = {About(e) : e \in shown}
      /\ Changes(S) = {Change(i) : i \in changed}
  BY DEF TimelineXIDs, Changes, shown, changed
<1> HIDE DEF About, Change
<1> QED  BY <1>5, <1>6, <1>7, <1>8, <1>9, FS_Union

\* What a timeline of one GPU promises.
KeepsPromise(t, xid, since) ==
    /\ Distinct(t.points) =>
         \A p \in ToSet(t.points) : Replayed(t, p.time) = p.throttling
    /\ \A e \in ToSet(xid) :
         e.gpu \in {"", t.gpu} /\ e.time >= since =>
             \E i \in DOMAIN t.events : t.events[i].key = <<"xid", e.what, e.time>>

LEMMA TimelineTells ==
    ASSUME NEW recording, IsRecording(recording), NEW gpu \in DOMAIN recording.tracked,
           NEW request, Node!Duration(request) \in Int,
           NEW t \in Node!handleSingleGPU(gpu, request, recording)
    PROVE  KeepsPromise(t, recording.xid, recording.now - Node!Duration(request))
<1> DEFINE since == recording.now - Node!Duration(request)
           log == recording.tracked[gpu]
           S == Since(log, since)
           xids == TimelineXIDs(gpu, recording.xid, since)
           entries == xids \cup Changes(S)
           m == Len(t.events)
<1>1. /\ t.gpu = gpu
      /\ t.points = [i \in DOMAIN S |-> [time |-> S[i].time \div 2,
                                         throttling |-> IsThrottled(S[i])]]
      /\ t.events \in SortedByTime(entries)
  BY ResponseIs
<1>2. /\ \A x \in Reported : x.time \in Int
      /\ \A x \in Sampled : x.time \in Int
  BY DEF Reported, Sampled
<1>3. /\ since \in Int /\ recording.xid \in Seq(Reported)
      /\ log \in Seq(Sampled) /\ Sorted(log)
  BY DEF IsRecording
<1> HIDE DEF since, log
<1>4. S \in Seq(Sampled) /\ Sorted(S)
  BY <1>2, <1>3, SinceIs, SinceSorted
<1>5. IsFiniteSet(entries) /\ \A e \in entries : e.time \in Int
  <2> HIDE DEF S
  <2> QED  BY <1>3, <1>4, TimelineEntriesAre
<1> HIDE DEF S, xids, entries
<1>6. t.events \in Seq(entries) /\ ToSet(t.events) = entries /\ Sorted(t.events)
  BY <1>1, <1>5, OrdersAre
<1>7. /\ m \in Nat /\ DOMAIN t.events = 1..m
      /\ \A k \in 1..m : t.events[k] \in entries
      /\ \A e \in entries : \E k \in 1..m : t.events[k] = e
  <2>1. m \in Nat /\ DOMAIN t.events = 1..m /\ \A k \in 1..m : t.events[k] \in entries
    BY <1>6
  <2> QED  BY <1>6, <2>1 DEF ToSet
<1> HIDE DEF m
<1>8. ASSUME Distinct(t.points), NEW p \in ToSet(t.points)
      PROVE  Replayed(t, p.time) = p.throttling
  <2>1. /\ DOMAIN t.points = DOMAIN S
        /\ \A i \in DOMAIN S : /\ t.points[i].time = S[i].time \div 2
                               /\ t.points[i].throttling = IsThrottled(S[i])
    BY <1>1
  <2>2. PICK i \in DOMAIN S : p = t.points[i]  BY <2>1 DEF ToSet
  <2>3. Apart(S)
    BY <1>8, <2>1 DEF Distinct, Apart
  <2>4. DOMAIN S = 1..Len(S) /\ Len(S) \in Nat /\ 1 \in DOMAIN S
    BY <1>4, <2>2
  <2>5. \A k \in 1..m : \/ t.events[k].key[1] # "throttle"
                        \/ \E j \in 2..Len(S) : TellsOf(t.events[k], S, j)
    <3> SUFFICES ASSUME NEW e \in entries
                 PROVE  \/ e.key[1] # "throttle"
                        \/ \E j \in 2..Len(S) : TellsOf(e, S, j)
      BY <1>7
    <3>1. CASE e \in xids
      <4>1. PICK x : e = Entry(x.time \div 2, <<"xid", x.what, x.time>>)
        BY <3>1 DEF xids, TimelineXIDs
      <4>2. e.key = <<"xid", x.what, x.time>>  BY <4>1 DEF Entry
      <4>3. e.key[1] = "xid"  BY <4>2
      <4> QED  BY <4>3
    <3>2. CASE e \in Changes(S)
      BY <3>2 DEF Changes, Entry, TellsOf
    <3> QED  BY <3>1, <3>2 DEF entries
  <2>6. ASSUME NEW j \in 2..Len(S), Changed(S, j)
        PROVE  \E k \in 1..m : TellsOf(t.events[k], S, j)
    <3> DEFINE e == Entry(S[j].time \div 2, <<"throttle", IsThrottled(S[j]), j>>)
    <3>1. e \in entries  BY <2>6 DEF entries, Changes
    <3>2. TellsOf(e, S, j)  BY DEF Entry, TellsOf
    <3> HIDE DEF e
    <3> QED  BY <1>7, <3>1, <3>2
  <2>9. \A j \in 2..Len(S) : Changed(S, j) => \E k \in 1..m : TellsOf(t.events[k], S, j)
    BY <2>6
  <2>10. m \in Nat /\ DOMAIN t.events = 1..m /\ Sorted(t.events) /\ i \in 1..Len(S)
    BY <1>6, <1>7, <2>2, <2>4
  <2> DEFINE told == t.events
  <2> HIDE DEF told
  <2>7. Replay(told, IsThrottled(S[1]), S[i].time \div 2) = IsThrottled(S[i])
    BY ONLY <1>2, <1>4, <2>3, <2>5, <2>9, <2>10, ReplayEndsAtSample DEF told
  <2>8. Replayed(t, p.time) = Replay(t.events, t.points[1].throttling, p.time)
    BY DEF Replayed, Replay
  <2> QED  BY <2>1, <2>2, <2>4, <2>7, <2>8 DEF told
<1>9. ASSUME NEW e \in ToSet(recording.xid), e.gpu \in {"", t.gpu}, e.time >= since
      PROVE  \E i \in DOMAIN t.events : t.events[i].key = <<"xid", e.what, e.time>>
  <2> DEFINE entry == Entry(e.time \div 2, <<"xid", e.what, e.time>>)
  <2>1. e \in ToSet(Since(recording.xid, since))  BY <1>2, <1>3, <1>9, SinceIs
  <2>2. entry \in entries
    BY <1>1, <1>9, <2>1 DEF entries, xids, TimelineXIDs
  <2>3. entry.key = <<"xid", e.what, e.time>>  BY DEF Entry
  <2> HIDE DEF entry
  <2>4. PICK k \in 1..m : t.events[k] = entry  BY <1>7, <2>2
  <2> QED  BY <1>7, <2>3, <2>4
<1> QED  BY <1>8, <1>9 DEF KeepsPromise, since

(***************************************************************************)
(* The invariant: the timelines are those of what is recorded.             *)
(***************************************************************************)
AboutRecording ==
    /\ observed.of = "recording" => observed.recording \in Recordings
    /\ answer.tool = "get_gpu_timeline" =>
         /\ observed.of = "recording"
         /\ \E ended :
              answer.response \in Node!Timeline(answer.request, observed.recording, ended)

\* Every timeline of an answer is one of a GPU that is tracked, over a time that was
\* accepted.
LEMMA TimelinesAre ==
    ASSUME NEW request, NEW recording, NEW ended,
           NEW response \in Node!Timeline(request, recording, ended),
           NEW t \in ToSet(response)
    PROVE  /\ Node!Duration(request) \in Int
           /\ \E gpu \in DOMAIN recording.tracked :
                t \in Node!handleSingleGPU(gpu, request, recording)
<1> DEFINE gpu == Node!resolveGPUUUID(request, recording.devices, recording.tracked)
<1>1. response # <<>>  BY DEF ToSet
<1>2. Node!parseArgs(request)
  BY <1>1 DEF Node!Timeline
<1>3. Node!Duration(request) \in Int
  BY <1>2 DEF Node!parseArgs
<1>4. CASE gpu = Node!AllGPUs
  <2>1. response \in Node!handleAllGPUs(request, recording, ended)
    BY <1>1, <1>4 DEF Node!Timeline
  <2> DEFINE some == {g \in DOMAIN recording.tracked :
                        Node!GetTimeline(g, request, recording) # <<>>}
             Responses(g) == Node!handleSingleGPU(g, request, recording)
  <2>2. \E D : response \in [D -> UNION {Responses(g) : g \in some}]
    BY <1>1, <2>1 DEF Node!handleAllGPUs
  <2>3. \E g \in some : t \in Responses(g)
    BY <2>2 DEF ToSet
  <2> QED  BY <1>3, <2>3
<1>5. CASE gpu # Node!AllGPUs
  <2>1. /\ gpu \in DOMAIN recording.tracked
        /\ response \in {<<r>> : r \in Node!handleSingleGPU(gpu, request, recording)}
    <3>1. response \in IF gpu \in DOMAIN recording.tracked
                       THEN {<<r>> : r \in Node!handleSingleGPU(gpu, request, recording)}
                       ELSE {<<>>}
      BY <1>1, <1>5 DEF Node!Timeline
    <3> QED  BY <1>1, <3>1
  <2>2. PICK r \in Node!handleSingleGPU(gpu, request, recording) : response = <<r>>
    BY <2>1
  <2>3. t = r  BY <2>2 DEF ToSet
  <2> QED  BY <1>3, <2>1, <2>2, <2>3
<1> QED  BY <1>4, <1>5

\* No other question gives an answer of the tool.
Untimed == observed' = observed /\ answer'.tool # "get_gpu_timeline"

LEMMA OthersUntimed ==
    /\ \A counted, ended : AskHealth(counted, ended) => Untimed
    /\ \A tool \in {"get_gpu_inventory", "describe_gpu_node"},
          allowed, routed, wanted \in BOOLEAN :
             AskAgents(tool, allowed, routed, wanted) => Untimed
    /\ \A counted, k, ended : DescribeNode(counted, k, ended) => Untimed
    /\ ReadAgent => Untimed
    /\ \A trigger, cut : AutoCorrelate(trigger, cut) => Untimed
    /\ \A pod, found, correlating, cut :
          ExplainPod(pod, found, correlating, cut) => Untimed
    /\ \A pod, found, correlating, cut, recording :
          ReportPod(pod, found, correlating, cut, recording) => Untimed
    /\ AskAgain => Untimed
<1>1. \A counted, ended : AskHealth(counted, ended) => Untimed
  BY DEF AskHealth, Untimed
<1>2. \A tool \in {"get_gpu_inventory", "describe_gpu_node"},
         allowed, routed, wanted \in BOOLEAN :
            AskAgents(tool, allowed, routed, wanted) => Untimed
  BY DEF AskAgents, Untimed
<1>3. \A counted, k, ended : DescribeNode(counted, k, ended) => Untimed
  BY DEF DescribeNode, Untimed
<1>4. ReadAgent => Untimed
  BY DEF ReadAgent, Untimed
<1>5. \A trigger, cut : AutoCorrelate(trigger, cut) => Untimed
  BY DEF AutoCorrelate, Untimed
<1>6. \A pod, found, correlating, cut :
         ExplainPod(pod, found, correlating, cut) => Untimed
  BY DEF ExplainPod, Untimed, ToolError
<1>7. ASSUME NEW pod, NEW found, NEW correlating, NEW cut, NEW recording,
             ReportPod(pod, found, correlating, cut, recording)
      PROVE  Untimed
  <2> DEFINE incidents == Incidents(pod, found, correlating, observed.world, cut)
  <2>1. observed' = observed  BY <1>7 DEF ReportPod
  <2>2. \/ \E incident \in incidents :
              answer' = [tool |-> "get_incident_report", incident |-> incident,
                         whole |-> correlating /\ cut = Whole,
                         report |-> IncidentReport(incident, recording, Recorded,
                                                   TRUE, TRUE)]
        \/ answer' = ToolError
    BY <1>7 DEF ReportPod
  <2>3. answer'.tool # "get_gpu_timeline"
    <3> HIDE DEF incidents
    <3>1. CASE answer' = ToolError
      BY <3>1 DEF ToolError
    <3>2. ASSUME NEW incident \in incidents,
                 answer' = [tool |-> "get_incident_report", incident |-> incident,
                            whole |-> correlating /\ cut = Whole,
                            report |-> IncidentReport(incident, recording, Recorded,
                                                      TRUE, TRUE)]
          PROVE  answer'.tool # "get_gpu_timeline"
      BY ONLY <3>2
    <3> QED  BY <2>2, <3>1, <3>2
  <2> QED  BY <2>1, <2>3 DEF Untimed
<1>8. AskAgain => Untimed
  BY DEF AskAgain, ReportID, Untimed
<1> QED  BY <1>1, <1>2, <1>3, <1>4, <1>5, <1>6, <1>7, <1>8

LEMMA InitAboutRecording == Init => AboutRecording
<1> SUFFICES ASSUME Init PROVE AboutRecording
  OBVIOUS
<1>1. observed.of = "recording" => observed.recording \in Recordings
  BY DEF Init
<1>2. answer.tool = "none"  BY DEF Init
<1> QED  BY <1>1, <1>2 DEF AboutRecording

LEMMA NextAboutRecording == AboutRecording /\ [Next]_vars => AboutRecording'
<1> SUFFICES ASSUME AboutRecording, [Next]_vars PROVE AboutRecording'
  OBVIOUS
<1>1. ASSUME Untimed PROVE AboutRecording'
  BY <1>1 DEF AboutRecording, Untimed
<1>2. ASSUME NEW request, NEW ended, AskTimeline(request, ended) PROVE AboutRecording'
  <2>1. PICK response \in Node!Timeline(request, observed.recording, ended) :
           answer' = [tool |-> "get_gpu_timeline", request |-> request,
                      response |-> response]
    BY <1>2 DEF AskTimeline
  <2>2. observed.of = "recording" /\ observed' = observed  BY <1>2 DEF AskTimeline
  <2>3. answer'.request = request /\ answer'.response = response  BY <2>1
  <2>4. answer'.response \in Node!Timeline(answer'.request, observed'.recording, ended)
    BY <2>2, <2>3
  <2> QED  BY <2>2, <2>4 DEF AboutRecording
<1>3. ASSUME Ask PROVE AboutRecording'
  <2>1. \/ \E counted, ended : AskHealth(counted, ended)
        \/ \E tool \in {"get_gpu_inventory", "describe_gpu_node"},
              allowed, routed, wanted \in BOOLEAN : AskAgents(tool, allowed, routed, wanted)
        \/ \E counted, k, ended : DescribeNode(counted, k, ended)
        \/ \E request, ended : AskTimeline(request, ended)
        \/ ReadAgent
        \/ \E trigger, cut : AutoCorrelate(trigger, cut)
        \/ \E pod, found, correlating, cut : ExplainPod(pod, found, correlating, cut)
        \/ \E pod, found, correlating, cut, recording :
              ReportPod(pod, found, correlating, cut, recording)
    BY <1>3 DEF Ask
  <2> QED  BY <1>1, <1>2, <2>1, OthersUntimed
<1>4. ASSUME UNCHANGED vars PROVE AboutRecording'
  BY <1>4 DEF vars, AboutRecording
<1> QED  BY <1>1, <1>3, <1>4, OthersUntimed DEF Next

(***************************************************************************)
(* For recordings of any length and any duration asked for: the changes of *)
(* throttling, replayed in the order of get_gpu_timeline's answer, give    *)
(* every sample the state it was recorded with when the samples are whole  *)
(* seconds apart, and no XID of the GPU within the duration is left out    *)
(* (get_gpu_timeline.go:495-560).                                          *)
(***************************************************************************)
THEOREM TimelinesReplay == Spec => []ThrottlingReplays
<1>1. AboutRecording => ThrottlingReplays
  <2> SUFFICES ASSUME AboutRecording, answer.tool = "get_gpu_timeline",
                      NEW t \in ToSet(answer.response)
               PROVE  KeepsPromise(t, observed.recording.xid,
                                   observed.recording.now - Node!Duration(answer.request))
    BY DEF ThrottlingReplays, KeepsPromise
  <2>1. IsRecording(observed.recording)
    BY ReportsAssumption DEF AboutRecording
  <2>2. PICK ended :
           answer.response \in Node!Timeline(answer.request, observed.recording, ended)
    BY DEF AboutRecording
  <2>3. Node!Duration(answer.request) \in Int
    BY <2>2, TimelinesAre
  <2>4. PICK gpu \in DOMAIN observed.recording.tracked :
           t \in Node!handleSingleGPU(gpu, answer.request, observed.recording)
    BY <2>2, TimelinesAre
  <2> QED  BY <2>1, <2>3, <2>4, TimelineTells
<1> QED  BY <1>1, InitAboutRecording, NextAboutRecording, PTL DEF Spec

--------------------------------------------------------------------------------
(***************************************************************************)
(* Framing.  The reader of an agent's output, character by character.      *)
(***************************************************************************)
Reading == [objects : Seq(Seq(Gateway!Char)), current : Seq(Gateway!Char), depth : Int,
            inString : BOOLEAN, escaped : BOOLEAN]
Unread == [objects |-> <<>>, current |-> <<>>, depth |-> 0,
           inString |-> FALSE, escaped |-> FALSE]

\* Of numbers up to n that are not none, there is a least and a largest one.
LEMMA BoundsOfNumbers ==
    ASSUME NEW n \in Nat, NEW s \in SUBSET (1..n), s # {}
    PROVE  /\ Gateway!Min(s) \in s /\ \A y \in s : Gateway!Min(s) <= y
           /\ Gateway!Max(s) \in s /\ \A y \in s : Gateway!Max(s) >= y
<1>1. \E x \in s : \A y \in s : x <= y
  <2>1. s \in SUBSET Nat  OBVIOUS
  <2> QED  BY <2>1, LeastNumber
<1>2. Gateway!Min(s) \in s /\ \A y \in s : Gateway!Min(s) <= y
  BY <1>1 DEF Gateway!Min
<1>3. Gateway!Max(s) = Max(s)  BY DEF Gateway!Max, Max
<1> QED  BY <1>2, <1>3, LargestIs

LEMMA TrimmedIsText == ASSUME NEW t \in Seq(Gateway!Char) PROVE Gateway!TrimSpace(t) \in Seq(Gateway!Char)
<1> DEFINE ink == {i \in DOMAIN t : t[i] # "space"}
<1>1. CASE ink = {}
  BY <1>1 DEF Gateway!TrimSpace
<1>2. CASE ink # {}
  <2>1. Len(t) \in Nat /\ ink \in SUBSET (1..Len(t))  OBVIOUS
  <2>2. Gateway!Min(ink) \in 1..Len(t) /\ Gateway!Max(ink) \in 1..Len(t)
    <3> HIDE DEF ink
    <3> QED  BY <1>2, <2>1, BoundsOfNumbers
  <2>3. Gateway!TrimSpace(t) = SubSeq(t, Gateway!Min(ink), Gateway!Max(ink))
    BY <1>2 DEF Gateway!TrimSpace
  <2> HIDE DEF ink
  <2> QED  BY <2>2, <2>3
<1> QED  BY <1>1, <1>2

\* An object behind at most one space is trimmed to itself.
LEMMA ObjectIsTrimmed ==
    ASSUME NEW t \in Seq(Gateway!Char), t # <<>>, t[1] # "space", t[Len(t)] # "space", NEW lead \in {<<>>, <<"space">>}
    PROVE  Gateway!TrimSpace(lead \o t) = t
<1> DEFINE all == lead \o t
           ink == {i \in DOMAIN all : all[i] # "space"}
           m == Len(lead)
           n == Len(all)
<1>1. /\ m \in {0, 1} /\ Len(t) \in Nat \ {0} /\ n = m + Len(t) /\ DOMAIN all = 1..n
      /\ \A i \in 1..Len(t) : all[m + i] = t[i]
      /\ m = 1 => all[1] = "space"
  OBVIOUS
<1>2. m + 1 \in ink /\ n \in ink
  <2>1. m + 1 \in 1..n /\ n \in 1..n /\ all[m + 1] = t[1] /\ all[n] = t[Len(t)]  BY <1>1
  <2> HIDE DEF all, n, m
  <2> QED  BY <1>1, <2>1
<1>3. \A i \in ink : m + 1 <= i /\ i <= n
  <2> HIDE DEF all, n, m
  <2>1. \A i \in ink : i \in 1..n /\ all[i] # "space"  BY <1>1
  <2> HIDE DEF ink
  <2> QED  BY <1>1, <2>1
<1>4. Gateway!Min(ink) = m + 1 /\ Gateway!Max(ink) = n
  <2>1. n \in Nat /\ ink \in SUBSET (1..n)  BY <1>1
  <2> HIDE DEF ink, n, m, all
  <2>2. /\ Gateway!Min(ink) \in ink /\ \A y \in ink : Gateway!Min(ink) <= y
        /\ Gateway!Max(ink) \in ink /\ \A y \in ink : Gateway!Max(ink) >= y
    BY <1>2, <2>1, BoundsOfNumbers
  <2>3. ink \subseteq 1..n /\ m \in Nat  BY <1>1, <2>1
  <2> DEFINE least == Gateway!Min(ink)
             most == Gateway!Max(ink)
  <2>4. least \in ink /\ most \in ink /\ least <= m + 1 /\ most >= n
    BY <1>2, <2>2
  <2>5. m + 1 <= least /\ most <= n
    BY <1>3, <2>4
  <2>6. least \in 1..n /\ most \in 1..n
    BY <2>3, <2>4
  <2> HIDE DEF least, most
  <2>7. least = m + 1 /\ most = n
    BY <2>1, <2>3, <2>4, <2>5, <2>6
  <2> QED  BY <2>7 DEF least, most
<1>5. Gateway!TrimSpace(all) = SubSeq(all, m + 1, n)
  BY <1>2, <1>4 DEF Gateway!TrimSpace
<1>6. SubSeq(all, m + 1, n) = t
  <2> DEFINE u == SubSeq(all, m + 1, n)
  <2>1. u \in Seq(Gateway!Char \cup {"space"}) /\ Len(u) = Len(t)
    BY <1>1
  <2>2. \A i \in 1..Len(t) : u[i] = t[i]
    BY <1>1
  <2> HIDE DEF u
  <2> QED  BY <2>1, <2>2
<1> QED  BY <1>5, <1>6

\* A reading, part by part.
Part(objects, current, depth, inString, escaped) ==
    [objects |-> objects, current |-> current, depth |-> depth,
     inString |-> inString, escaped |-> escaped]

LEMMA PartsAre ==
    ASSUME NEW o, NEW c, NEW d, NEW i, NEW e
    PROVE  /\ Part(o, c, d, i, e).objects = o /\ Part(o, c, d, i, e).current = c
           /\ Part(o, c, d, i, e).depth = d
           /\ Part(o, c, d, i, e).inString = i /\ Part(o, c, d, i, e).escaped = e
BY DEF Part

LEMMA ReadingIs ==
    /\ \A s \in Reading :
          /\ s = Part(s.objects, s.current, s.depth, s.inString, s.escaped)
          /\ s.objects \in Seq(Seq(Gateway!Char)) /\ s.current \in Seq(Gateway!Char)
          /\ s.depth \in Int /\ s.inString \in BOOLEAN /\ s.escaped \in BOOLEAN
    /\ \A o \in Seq(Seq(Gateway!Char)), c \in Seq(Gateway!Char), d \in Int,
          i, e \in BOOLEAN : Part(o, c, d, i, e) \in Reading
BY DEF Reading, Part

\* What a reader makes of a character.
Turn(b) == IF b = "open" THEN 1 ELSE IF b = "close" THEN -1 ELSE 0

Read(o, u, d, i, e, b) ==
    IF e THEN Part(o, u, d, i, FALSE)
    ELSE IF b = "backslash" /\ i THEN Part(o, u, d, i, TRUE)
    ELSE IF b = "quote" THEN Part(o, u, d, ~i, e)
    ELSE IF i THEN Part(o, u, d, i, e)
    ELSE IF b = "close" /\ d + Turn(b) = 0
         THEN Part(Append(o, Gateway!TrimSpace(u)), <<>>, 0, i, e)
    ELSE Part(o, u, d + Turn(b), i, e)

LEMMA ScanIs ==
    ASSUME NEW o, NEW c, NEW d, NEW i \in BOOLEAN, NEW e \in BOOLEAN, NEW b
    PROVE  Gateway!Scan(Part(o, c, d, i, e), b) = Read(o, Append(c, b), d, i, e, b)
<1> DEFINE s == Part(o, c, d, i, e)
           u == Append(c, b)
           t == Part(o, u, d, i, e)
           read == [s EXCEPT !.current = Append(@, b)]
           depth == s.depth + (IF b = "open" THEN 1 ELSE IF b = "close" THEN -1 ELSE 0)
           cut == Append(o, Gateway!TrimSpace(u))
<1>1. s.objects = o /\ s.depth = d /\ s.inString = i /\ s.escaped = e
  BY PartsAre
<1>2. read = t
  BY DEF Part
<1>3. depth = d + Turn(b)
  BY <1>1 DEF Turn
<1>4. Gateway!Scan(s, b) =
        IF s.escaped THEN [read EXCEPT !.escaped = FALSE]
        ELSE IF b = "backslash" /\ s.inString THEN [read EXCEPT !.escaped = TRUE]
        ELSE IF b = "quote" THEN [read EXCEPT !.inString = ~@]
        ELSE IF s.inString THEN read
        ELSE IF b = "close" /\ depth = 0
             THEN [read EXCEPT !.depth = 0, !.current = <<>>,
                               !.objects = Append(@, Gateway!TrimSpace(read.current))]
        ELSE [read EXCEPT !.depth = depth]
  BY DEF Gateway!Scan
<1> HIDE DEF s, read, depth, u
<1>11. ASSUME NEW x PROVE [t EXCEPT !.escaped = x] = Part(o, u, d, i, x)
  BY DEF Part
<1>5. [t EXCEPT !.escaped = FALSE] = Part(o, u, d, i, FALSE)
  BY ONLY <1>11, Zenon
<1>6. [t EXCEPT !.escaped = TRUE] = Part(o, u, d, i, TRUE)
  BY ONLY <1>11, Zenon
<1>7. [t EXCEPT !.inString = ~@] = Part(o, u, d, ~i, e)
  BY DEF Part
<1>8. [t EXCEPT !.depth = depth] = Part(o, u, depth, i, e)
  BY DEF Part
<1>9. [t EXCEPT !.depth = 0, !.current = <<>>,
                !.objects = Append(@, Gateway!TrimSpace(t.current))]
      = Part(cut, <<>>, 0, i, e)
  <2> DEFINE new == Append(t.objects, Gateway!TrimSpace(t.current))
             t1 == [t EXCEPT !.depth = 0]
             t2 == [t1 EXCEPT !.current = <<>>]
             t3 == [t2 EXCEPT !.objects = new]
  <2>1. new = cut  BY PartsAre
  <2>2. t1 = Part(o, u, 0, i, e)  BY DEF Part
  <2> HIDE DEF t, new, cut
  <2>3. [t EXCEPT !.depth = 0, !.current = <<>>,
                  !.objects = Append(@, Gateway!TrimSpace(t.current))] = t3
    BY DEF new
  <2> HIDE DEF t1
  <2>4. t2 = Part(o, <<>>, 0, i, e)  BY <2>2 DEF Part
  <2> HIDE DEF t2
  <2>5. t3 = Part(cut, <<>>, 0, i, e)  BY <2>1, <2>4 DEF Part
  <2> QED  BY <2>3, <2>5
<1> HIDE DEF t, cut
<1>10. Gateway!Scan(s, b) =
         IF e THEN Part(o, u, d, i, FALSE)
         ELSE IF b = "backslash" /\ i THEN Part(o, u, d, i, TRUE)
         ELSE IF b = "quote" THEN Part(o, u, d, ~i, e)
         ELSE IF i THEN t
         ELSE IF b = "close" /\ depth = 0 THEN Part(cut, <<>>, 0, i, e)
         ELSE Part(o, u, depth, i, e)
  <2>1. read.current = u  BY <1>2, PartsAre DEF t
  <2>2. Gateway!Scan(s, b) =
          IF e THEN [t EXCEPT !.escaped = FALSE]
          ELSE IF b = "backslash" /\ i THEN [t EXCEPT !.escaped = TRUE]
          ELSE IF b = "quote" THEN [t EXCEPT !.inString = ~@]
          ELSE IF i THEN t
          ELSE IF b = "close" /\ depth = 0
               THEN [t EXCEPT !.depth = 0, !.current = <<>>,
                              !.objects = Append(@, Gateway!TrimSpace(t.current))]
          ELSE [t EXCEPT !.depth = depth]
    BY <1>1, <1>2, <1>4
  <2> QED  BY <1>5, <1>6, <1>7, <1>8, <1>9, <2>2
<1> QED  BY <1>3, <1>10 DEF s, t, u, cut, Read

LEMMA ReadingGoesOn ==
    ASSUME NEW s \in Reading, NEW b \in Gateway!Char
    PROVE  Gateway!Scan(s, b) \in Reading
<1> DEFINE o == s.objects
           c == Append(s.current, b)
           d == s.depth
           i == s.inString
           e == s.escaped
<1>1. s = Part(o, s.current, d, i, e)  BY ReadingIs
<1>2. /\ o \in Seq(Seq(Gateway!Char)) /\ c \in Seq(Gateway!Char) /\ d \in Int
      /\ i \in BOOLEAN /\ e \in BOOLEAN
  <2>1. s.current \in Seq(Gateway!Char)  BY ReadingIs
  <2>2. c \in Seq(Gateway!Char)  BY <2>1
  <2> QED  BY <2>2, ReadingIs
<1>3. Gateway!TrimSpace(c) \in Seq(Gateway!Char) /\ <<>> \in Seq(Gateway!Char)
  <2> HIDE DEF c
  <2> QED  BY <1>2, TrimmedIsText
<1>4. Append(o, Gateway!TrimSpace(c)) \in Seq(Seq(Gateway!Char))
  <2> HIDE DEF o, c
  <2> QED  BY <1>2, <1>3
<1>5. d + Turn(b) \in Int
  <2> HIDE DEF d
  <2> QED  BY <1>2 DEF Turn
<1>6. Gateway!Scan(s, b) = Read(o, c, d, i, e, b)
  BY <1>1, <1>2, ScanIs
<1>7. (~i) \in BOOLEAN /\ FALSE \in BOOLEAN /\ TRUE \in BOOLEAN /\ 0 \in Int
  OBVIOUS
<1> HIDE DEF o, c, d, i, e
<1>8. /\ Part(o, c, d, i, FALSE) \in Reading /\ Part(o, c, d, i, TRUE) \in Reading
      /\ Part(o, c, d, ~i, e) \in Reading /\ Part(o, c, d, i, e) \in Reading
      /\ Part(o, c, d + Turn(b), i, e) \in Reading
      /\ Part(Append(o, Gateway!TrimSpace(c)), <<>>, 0, i, e) \in Reading
  BY <1>2, <1>3, <1>4, <1>5, <1>7, ReadingIs, Zenon
<1> QED  BY <1>6, <1>8 DEF Read

\* Whether f reads data, and what its last reading gives.
Reads(f, data) ==
    /\ f \in [0..Len(data) -> Reading] /\ f[0] = Unread
    /\ \A k \in 1..Len(data) : f[k] = Gateway!Scan(f[k - 1], data[k])
    /\ Gateway!SplitJSONObjects(data) = f[Len(data)].objects

\* Whether f and g go from smaller to larger sets of indices alike.
Alike(f, g, n) ==
    /\ f[{}] = g[{}]
    /\ \A s \in SUBSET (1..n) :
          s # {} /\ f[s \ {Largest(n)[s]}] = g[s \ {Largest(n)[s]}] => f[s] = g[s]

LEMMA FoldsAgree ==
    ASSUME NEW n \in Nat, NEW f, NEW g, Alike(f, g, n)
    PROVE  f[1..n] = g[1..n]
<1> DEFINE S == 1..n
<1>1. IsFiniteSet(S) /\ Picks(Largest(n), S)  BY FS_Interval, LargestPicks
<1>2. /\ f[{}] = g[{}]
      /\ \A s \in SUBSET S : s # {} /\ f[s \ {Largest(n)[s]}] = g[s \ {Largest(n)[s]}]
                             => f[s] = g[s]
  BY DEF Alike
<1> HIDE DEF S
<1>3. \A s \in SUBSET S : f[s] = g[s]  BY ONLY <1>1, <1>2, OneFold
<1> QED  BY <1>3 DEF S

\* Output is read one character after the other.
LEMMA SplitReads ==
    ASSUME NEW data \in Seq(Gateway!Char)
    PROVE  \E f : Reads(f, data)
<1> SUFFICES ASSUME NEW n, n = Len(data) PROVE \E f : Reads(f, data)
  OBVIOUS
<1> DEFINE D == 1..n
           V == Reading
           Step(g, s) == IF s = {} THEN Unread
                         ELSE Gateway!Scan(g[s \ {Gateway!Max(s)}], data[Gateway!Max(s)])
           Recurses(g) == g = [s \in SUBSET D |-> Step(g, s)]
           fold == CHOOSE g : Recurses(g)
           next == [k \in D |-> [v \in V |-> Gateway!Scan(v, data[k])]]
<1>1. Gateway!SplitJSONObjects(data) = fold[D].objects
  <2>1. DOMAIN data = D  OBVIOUS
  <2> QED  BY <2>1 DEF Gateway!SplitJSONObjects, Gateway!FoldLeft, Gateway!MapThenFoldSet,
                       Unread
<1>14. n \in Nat /\ \A k \in D : data[k] \in Gateway!Char
  OBVIOUS
<1>2. Picks(Largest(n), D)  BY <1>14, LargestPicks
<1>3. \A s \in SUBSET D : Largest(n)[s] = Gateway!Max(s)
  BY DEF Largest, Max, Gateway!Max
<1>4. /\ next \in [D -> [V -> V]] /\ Unread \in V
      /\ \A k \in D, v \in V : next[k][v] = Gateway!Scan(v, data[k])
  <2>1. Unread \in V
    <3>1. /\ <<>> \in Seq(Gateway!Char) /\ <<>> \in Seq(Seq(Gateway!Char)) /\ 0 \in Int
          /\ FALSE \in BOOLEAN
      OBVIOUS
    <3> QED  BY <3>1, ReadingIs, Zenon DEF Unread, Part
  <2>2. \A k \in D, v \in V : Gateway!Scan(v, data[k]) \in V
    <3> HIDE DEF D
    <3> QED  BY <1>14, ReadingGoesOn
  <2> HIDE DEF D, V
  <2> QED  BY <2>1, <2>2
<1>5. IsFiniteSet(D)  BY <1>14, FS_Interval
<1> HIDE DEF next
<1>6. PICK g : Folds(g, SUBSET D, V, Largest(n), Unread, next)
  <2> HIDE DEF D, V
  <2> QED  BY <1>2, <1>4, <1>5, FoldHasResult
<1>12. PICK f : OnPrefixes(f, g, n, V, Unread, next)
  <2>1. FoldsLeft(g, n, V, Unread, next)  BY <1>6 DEF FoldsLeft
  <2> HIDE DEF V
  <2> QED  BY <1>14, <2>1, PrefixFold
<1>7. /\ g \in [SUBSET D -> V] /\ g[{}] = Unread
      /\ \A s \in SUBSET D : s # {} => g[s] = Step(g, s)
  <2>1. g \in [SUBSET D -> V] /\ g[{}] = Unread  BY <1>6 DEF Folds
  <2>2. ASSUME NEW s \in SUBSET D, s # {} PROVE g[s] = Step(g, s)
    <3> DEFINE k == Largest(n)[s]
    <3>1. k \in D /\ s \ {k} \in SUBSET D /\ k = Gateway!Max(s)
      BY <1>2, <1>3, <2>2 DEF Picks
    <3> HIDE DEF D, V
    <3>2. g[s \ {k}] \in V /\ g[s] = next[k][g[s \ {k}]]
      BY <1>6, <2>1, <2>2, <3>1 DEF Folds
    <3> HIDE DEF k
    <3>3. g[s] = Gateway!Scan(g[s \ {k}], data[k])
      BY <1>4, <3>1, <3>2
    <3> QED  BY <2>2, <3>1, <3>3
  <2> HIDE DEF Step
  <2> QED  BY <2>1, <2>2
<1>8. Recurses(g)
  <2>1. g = [s \in SUBSET D |-> g[s]]  BY <1>7
  <2>2. ASSUME NEW s \in SUBSET D PROVE g[s] = Step(g, s)
    <3>1. CASE s = {}  BY <1>7, <3>1
    <3>2. CASE s # {}
      <4> HIDE DEF Step
      <4> QED  BY <1>7, <3>2
    <3> QED  BY <3>1, <3>2
  <2> HIDE DEF Step
  <2> QED  BY <2>1, <2>2
<1>9. Recurses(fold)
  <2> HIDE DEF Recurses
  <2> QED  BY <1>8
<1>10. \A s \in SUBSET D : fold[s] = Step(fold, s)
  <2> HIDE DEF Step, fold
  <2> QED  BY <1>9
<1> HIDE DEF fold
<1>11. fold[D] = g[D]
  <2>1. fold[{}] = g[{}]  BY <1>7, <1>10
  <2>2. ASSUME NEW s \in SUBSET D, s # {}, fold[s \ {Largest(n)[s]}] = g[s \ {Largest(n)[s]}]
        PROVE  fold[s] = g[s]
    <3>1. Largest(n)[s] = Gateway!Max(s)  BY <1>3
    <3>2. fold[s] = Step(fold, s) /\ g[s] = Step(g, s)
      <4> HIDE DEF Step
      <4> QED  BY <1>7, <1>10, <2>2
    <3> QED  BY <2>2, <3>1, <3>2
  <2> HIDE DEF V, D, Step, Recurses
  <2>3. Alike(fold, g, n)  BY <2>1, <2>2 DEF Alike, D
  <2> QED  BY <1>14, <2>3, FoldsAgree DEF D
<1>13. \A k \in 1..n : f[k] = Gateway!Scan(f[k - 1], data[k])
  <2> SUFFICES ASSUME NEW k \in 1..n PROVE f[k] = Gateway!Scan(f[k - 1], data[k])
    OBVIOUS
  <2>1. k - 1 \in 0..n  BY <1>14
  <2> HIDE DEF V
  <2>2. f[k - 1] \in V /\ f[k] = next[k][f[k - 1]]  BY <1>12, <2>1 DEF Counts, OnPrefixes
  <2> QED  BY <1>4, <2>2
<1>15. f \in [0..n -> V] /\ f[0] = Unread /\ f[n] = g[D]
  BY <1>12 DEF Counts, OnPrefixes
<1> QED  BY <1>1, <1>11, <1>13, <1>15 DEF Reads

\* The numbers of T up to i are counted one after the other.
LEMMA CountedUp ==
    ASSUME NEW T
    PROVE  /\ Cardinality(T \cap (1..0)) = 0
           /\ \A i \in Nat : Cardinality(T \cap (1..i)) \in Nat
           /\ \A i \in Nat \ {0} :
                 Cardinality(T \cap (1..i))
                 = Cardinality(T \cap (1..(i - 1))) + (IF i \in T THEN 1 ELSE 0)
<1>1. T \cap (1..0) = {}  OBVIOUS
<1>2. ASSUME NEW i \in Nat
      PROVE  IsFiniteSet(T \cap (1..i)) /\ Cardinality(T \cap (1..i)) \in Nat
  <2>1. IsFiniteSet(1..i)  BY FS_Interval
  <2>2. IsFiniteSet(T \cap (1..i))  BY <2>1, FS_Subset
  <2> QED  BY <2>2, FS_CardinalityType
<1>3. ASSUME NEW i \in Nat \ {0}
      PROVE  Cardinality(T \cap (1..i))
             = Cardinality(T \cap (1..(i - 1))) + (IF i \in T THEN 1 ELSE 0)
  <2>1. i - 1 \in Nat  OBVIOUS
  <2> DEFINE before == T \cap (1..(i - 1))
  <2>2. IsFiniteSet(before) /\ Cardinality(before) \in Nat  BY <1>2, <2>1
  <2>3. i \notin before  OBVIOUS
  <2>4. CASE i \in T
    <3>1. T \cap (1..i) = before \cup {i}  BY <2>4
    <3> HIDE DEF before
    <3>2. Cardinality(before \cup {i}) = Cardinality(before) + 1
      BY ONLY <2>2, <2>3, FS_AddElement
    <3> QED  BY <2>4, <3>1, <3>2 DEF before
  <2>5. CASE i \notin T
    <3>1. T \cap (1..i) = before  BY <2>5
    <3> HIDE DEF before
    <3>2. Cardinality(T \cap (1..i)) = Cardinality(before) + 0  BY <2>2, <3>1
    <3> QED  BY <2>5, <3>2 DEF before
  <2> QED  BY <2>4, <2>5
<1> QED  BY <1>1, <1>2, <1>3, FS_EmptySet

\* One more of a number makes an odd number even.
LEMMA OneMore ==
    ASSUME NEW n \in Nat
    PROVE  0 % 2 # 1 /\ ((n + 1) % 2 = 1 <=> n % 2 # 1)
OBVIOUS

LEMMA BackslashesGrow ==
    ASSUME NEW text
    PROVE  /\ Backslashes(text, 1) = 0
           /\ \A i \in Nat \ {0} :
                 /\ Backslashes(text, i) \in Nat
                 /\ Backslashes(text, i + 1)
                    = IF text[i] = "backslash" THEN Backslashes(text, i) + 1 ELSE 0
<1> DEFINE others(i) == {j \in 1..(i - 1) : text[j] # "backslash"}
<1>1. \A i : Backslashes(text, i)
             = IF others(i) = {} THEN i - 1 ELSE i - 1 - Max(others(i))
  BY DEF Backslashes
<1>2. ASSUME NEW i \in Nat \ {0}, others(i) # {}
      PROVE  Max(others(i)) \in others(i) /\ \A y \in others(i) : Max(others(i)) >= y
  <2>1. i - 1 \in Nat /\ others(i) \in SUBSET (1..(i - 1))  OBVIOUS
  <2> HIDE DEF others
  <2> QED  BY <1>2, <2>1, LargestIs
<1>3. others(1) = {}  OBVIOUS
<1>4. ASSUME NEW i \in Nat \ {0} PROVE Backslashes(text, i) \in Nat
  <2>1. CASE others(i) = {}
    <3> HIDE DEF others
    <3> QED  BY <1>1, <2>1
  <2>2. CASE others(i) # {}
    <3>1. Max(others(i)) \in 1..(i - 1)  BY <1>2, <2>2
    <3> HIDE DEF others
    <3> QED  BY <1>1, <2>2, <3>1
  <2> QED  BY <2>1, <2>2
<1>5. ASSUME NEW i \in Nat \ {0}
      PROVE  Backslashes(text, i + 1)
             = IF text[i] = "backslash" THEN Backslashes(text, i) + 1 ELSE 0
  <2>1. CASE text[i] = "backslash"
    <3>1. others(i + 1) = others(i)  BY <2>1
    <3>2. CASE others(i) = {}
      <4> HIDE DEF others
      <4> QED  BY <1>1, <2>1, <3>1, <3>2
    <3>3. CASE others(i) # {}
      <4>1. Max(others(i)) \in 1..(i - 1)  BY <1>2, <3>3
      <4> HIDE DEF others
      <4> QED  BY <1>1, <2>1, <3>1, <3>3, <4>1
    <3> QED  BY <3>2, <3>3
  <2>2. CASE text[i] # "backslash"
    <3>1. i \in others(i + 1) /\ others(i + 1) \subseteq 1..i /\ i + 1 \in Nat \ {0}
      BY <2>2
    <3>2. /\ Max(others(i + 1)) \in others(i + 1)
          /\ \A y \in others(i + 1) : Max(others(i + 1)) >= y
      <4> HIDE DEF others
      <4> QED  BY <1>2, <3>1
    <3> HIDE DEF others
    <3>3. Max(others(i + 1)) \in 1..i /\ Max(others(i + 1)) >= i
      BY <3>1, <3>2
    <3>4. Max(others(i + 1)) = i  BY <3>3
    <3> QED  BY <1>1, <2>2, <3>1, <3>4
  <2> QED  BY <2>1, <2>2
<1>6. Backslashes(text, 1) = 0
  <2> HIDE DEF others
  <2> QED  BY <1>1, <1>3
<1> QED  BY <1>4, <1>5, <1>6

LEMMA EscapedNext ==
    ASSUME NEW text
    PROVE  /\ ~Escaped(text, 1)
           /\ \A i \in Nat \ {0} :
                 Escaped(text, i + 1) <=> text[i] = "backslash" /\ ~Escaped(text, i)
<1>1. \A i \in Nat \ {0} :
         /\ Backslashes(text, i) \in Nat
         /\ Backslashes(text, i + 1)
            = IF text[i] = "backslash" THEN Backslashes(text, i) + 1 ELSE 0
  BY BackslashesGrow
<1>2. ~Escaped(text, 1)  BY BackslashesGrow, OneMore DEF Escaped
<1>3. ASSUME NEW i \in Nat \ {0}
      PROVE  Escaped(text, i + 1) <=> text[i] = "backslash" /\ ~Escaped(text, i)
  BY <1>1, OneMore DEF Escaped
<1> QED  BY <1>2, <1>3

LEMMA QuotedNext ==
    ASSUME NEW text
    PROVE  /\ ~Quoted(text, 1)
           /\ \A i \in Nat \ {0} :
                 Quoted(text, i + 1)
                 <=> ~(Quoted(text, i) <=> text[i] = "quote" /\ ~Escaped(text, i))
<1> DEFINE T == {j \in Nat : text[j] = "quote" /\ ~Escaped(text, j)}
           number(i) == Cardinality(T \cap (1..(i - 1)))
<1>1. ASSUME NEW i \in Nat \ {0} PROVE Quoted(text, i) <=> number(i) % 2 = 1
  <2>1. {j \in 1..(i - 1) : text[j] = "quote" /\ ~Escaped(text, j)} = T \cap (1..(i - 1))
    OBVIOUS
  <2> QED  BY <2>1 DEF Quoted
<1>2. number(1) = 0
  <2> HIDE DEF T
  <2> QED  BY CountedUp
<1>3. ASSUME NEW i \in Nat \ {0}
      PROVE  /\ number(i) \in Nat
             /\ number(i + 1) = number(i) + (IF i \in T THEN 1 ELSE 0)
  <2>1. i - 1 \in Nat /\ i + 1 - 1 = i  OBVIOUS
  <2> HIDE DEF T
  <2> QED  BY <2>1, CountedUp
<1>4. ~Quoted(text, 1)  BY <1>1, <1>2, OneMore
<1>5. ASSUME NEW i \in Nat \ {0}
      PROVE  Quoted(text, i + 1)
             <=> ~(Quoted(text, i) <=> text[i] = "quote" /\ ~Escaped(text, i))
  <2>1. i + 1 \in Nat \ {0} /\ (i \in T <=> text[i] = "quote" /\ ~Escaped(text, i))
    OBVIOUS
  <2>2. /\ Quoted(text, i) <=> number(i) % 2 = 1
        /\ Quoted(text, i + 1) <=> number(i + 1) % 2 = 1
    BY <1>1, <2>1
  <2> HIDE DEF T, number
  <2>3. CASE i \in T
    <3>1. number(i + 1) = number(i) + 1 /\ number(i) \in Nat  BY <1>3, <2>3
    <3>2. number(i + 1) % 2 = 1 <=> number(i) % 2 # 1  BY <3>1, OneMore
    <3> QED  BY <2>1, <2>2, <2>3, <3>2
  <2>4. CASE i \notin T
    <3>1. number(i + 1) = number(i)  BY <1>3, <2>4
    <3> QED  BY <2>1, <2>2, <2>4, <3>1
  <2> QED  BY <2>3, <2>4
<1> QED  BY <1>4, <1>5

LEMMA BracesNext ==
    ASSUME NEW text, NEW brace
    PROVE  /\ Braces(text, brace, 0) = 0
           /\ \A i \in Nat : Braces(text, brace, i) \in Nat
           /\ \A i \in Nat \ {0} :
                 Braces(text, brace, i)
                 = Braces(text, brace, i - 1)
                   + (IF text[i] = brace /\ ~Quoted(text, i) THEN 1 ELSE 0)
<1> DEFINE T == {j \in Nat : text[j] = brace /\ ~Quoted(text, j)}
<1>1. ASSUME NEW i \in Nat PROVE Braces(text, brace, i) = Cardinality(T \cap (1..i))
  <2>1. {j \in 1..i : text[j] = brace /\ ~Quoted(text, j)} = T \cap (1..i)
    OBVIOUS
  <2> QED  BY <2>1 DEF Braces
<1>2. \A i \in Nat \ {0} : i \in T <=> text[i] = brace /\ ~Quoted(text, i)
  OBVIOUS
<1>3. \A i \in Nat \ {0} : i - 1 \in Nat /\ i \in Nat
  OBVIOUS
<1> HIDE DEF T
<1>4. 0 \in Nat  OBVIOUS
<1> DEFINE C(i) == Cardinality(T \cap (1..i))
<1>5. C(0) = 0 /\ \A i \in Nat : C(i) \in Nat
  BY CountedUp
<1>6. \A i \in Nat \ {0} : C(i) = C(i - 1) + (IF i \in T THEN 1 ELSE 0)
  BY CountedUp
<1> HIDE DEF C
<1>7. \A i \in Nat : Braces(text, brace, i) = C(i)
  BY <1>1 DEF C
<1>8. ASSUME NEW i \in Nat \ {0}
      PROVE  Braces(text, brace, i)
             = Braces(text, brace, i - 1)
               + (IF text[i] = brace /\ ~Quoted(text, i) THEN 1 ELSE 0)
  <2>1. C(i) = C(i - 1) + (IF text[i] = brace /\ ~Quoted(text, i) THEN 1 ELSE 0)
    BY <1>2, <1>6
  <2> QED  BY <1>3, <1>7, <2>1
<1> QED  BY <1>4, <1>5, <1>7, <1>8

\* The depth goes up and down with the braces that are not quoted.
LEMMA DepthNext ==
    ASSUME NEW text
    PROVE  /\ Depth(text, 0) = 0
           /\ \A i \in Nat : Depth(text, i) \in Int
           /\ \A i \in Nat \ {0} :
                 Depth(text, i)
                 = IF Quoted(text, i) THEN Depth(text, i - 1)
                   ELSE Depth(text, i - 1) + Turn(text[i])
<1>1. \A i \in Nat : Braces(text, "open", i) \in Nat /\ Braces(text, "close", i) \in Nat
  BY BracesNext
<1>2. Depth(text, 0) = 0  BY BracesNext DEF Depth
<1>3. ASSUME NEW i \in Nat \ {0}
      PROVE  Depth(text, i) = IF Quoted(text, i) THEN Depth(text, i - 1)
                              ELSE Depth(text, i - 1) + Turn(text[i])
  <2>1. i - 1 \in Nat /\ i \in Nat  OBVIOUS
  <2>2. /\ Braces(text, "open", i) = Braces(text, "open", i - 1)
                                  + (IF text[i] = "open" /\ ~Quoted(text, i) THEN 1 ELSE 0)
        /\ Braces(text, "close", i) = Braces(text, "close", i - 1)
                                  + (IF text[i] = "close" /\ ~Quoted(text, i) THEN 1 ELSE 0)
    BY BracesNext
  <2>3. /\ Braces(text, "open", i - 1) \in Nat /\ Braces(text, "close", i - 1) \in Nat
    BY <1>1, <2>1
  <2>4. Depth(text, i) = Braces(text, "open", i) - Braces(text, "close", i)
        /\ Depth(text, i - 1) = Braces(text, "open", i - 1) - Braces(text, "close", i - 1)
    BY DEF Depth
  <2>5. CASE Quoted(text, i)  BY <2>2, <2>3, <2>4, <2>5
  <2>6. CASE ~Quoted(text, i)
    <3>1. CASE text[i] = "open"  BY <2>2, <2>3, <2>4, <2>6, <3>1 DEF Turn
    <3>2. CASE text[i] = "close"  BY <2>2, <2>3, <2>4, <2>6, <3>2 DEF Turn
    <3>3. CASE text[i] # "open" /\ text[i] # "close"  BY <2>2, <2>3, <2>4, <2>6, <3>3 DEF Turn
    <3> QED  BY <3>1, <3>2, <3>3
  <2> QED  BY <2>5, <2>6
<1>4. \A i \in Nat : Depth(text, i) \in Int  BY <1>1 DEF Depth
<1> QED  BY <1>2, <1>3, <1>4

\* In an object, only quoted characters are escaped.
LEMMA EscapedIsQuoted ==
    ASSUME NEW text \in Seq(Gateway!Char), IsObject(text), NEW i \in DOMAIN text,
           Escaped(text, i)
    PROVE  Quoted(text, i)
<1>1. Len(text) \in Nat /\ DOMAIN text = 1..Len(text)  OBVIOUS
<1>2. i # 1  BY EscapedNext
<1> DEFINE k == i - 1
<1>3. k \in Nat \ {0} /\ k \in DOMAIN text /\ k + 1 = i  BY <1>1, <1>2
<1> HIDE DEF k
<1>4. text[k] = "backslash"  BY <1>3, EscapedNext
<1>5. Quoted(text, k)  BY <1>3, <1>4 DEF IsObject
<1>6. Quoted(text, k + 1)  BY <1>3, <1>4, <1>5, QuotedNext
<1> QED  BY <1>3, <1>6

\* The last character of an object is a brace that nothing quotes.
LEMMA ObjectIsClosed ==
    ASSUME NEW text \in Seq(Gateway!Char), IsObject(text)
    PROVE  /\ Len(text) \in DOMAIN text /\ text[Len(text)] = "close"
           /\ ~Quoted(text, Len(text)) /\ ~Escaped(text, Len(text))
           /\ Depth(text, Len(text)) = 0
<1> DEFINE n == Len(text)
<1>1. n \in Nat \ {0} /\ DOMAIN text = 1..n
  <2>1. text # <<>>  BY ONLY IsObject(text), Zenon DEF IsObject
  <2> QED  BY ONLY text \in Seq(Gateway!Char), <2>1
<1> HIDE DEF n
<1>2. /\ \A i \in 1..n : Depth(text, i) >= 0 /\ (Depth(text, i) = 0 <=> i = n)
      /\ text[1] = "open"
  BY <1>1 DEF IsObject, n
<1>3. /\ Depth(text, 0) = 0 /\ \A i \in Nat : Depth(text, i) \in Int
      /\ Depth(text, n) = IF Quoted(text, n) THEN Depth(text, n - 1)
                          ELSE Depth(text, n - 1) + Turn(text[n])
  <2>1. Depth(text, 0) = 0 /\ \A i \in Nat : Depth(text, i) \in Int
    BY ONLY DepthNext
  <2>2. n \in Nat \ {0} => Depth(text, n) = IF Quoted(text, n) THEN Depth(text, n - 1)
                                            ELSE Depth(text, n - 1) + Turn(text[n])
    BY ONLY DepthNext
  <2> QED  BY <1>1, <2>1, <2>2
<1>4. Depth(text, n) = 0  BY <1>1, <1>2
<1>5. n # 1
  <2> SUFFICES ASSUME n = 1 PROVE FALSE
    OBVIOUS
  <2>1. ~Quoted(text, n)  BY QuotedNext
  <2> QED  BY <1>2, <1>3, <1>4, <2>1 DEF Turn
<1>6. n - 1 \in 1..n /\ n - 1 # n /\ n - 1 \in Nat  BY <1>1, <1>5
<1>7. Depth(text, n - 1) > 0  BY <1>2, <1>3, <1>6
<1>8. ~Quoted(text, n)  BY <1>3, <1>4, <1>7
<1>9. text[n] = "close"  BY <1>3, <1>4, <1>6, <1>7, <1>8 DEF Turn
<1>10. ~Escaped(text, n)  BY <1>1, <1>8, EscapedIsQuoted
<1> QED  BY <1>1, <1>4, <1>8, <1>9, <1>10 DEF n

\* A reader within an object: d2, q2 and e2 are what d, q and e become.
LEMMA ReadsOn ==
    ASSUME NEW o, NEW u, NEW d \in Int, NEW d2 \in Int, NEW b,
           NEW q \in BOOLEAN, NEW e \in BOOLEAN, NEW q2 \in BOOLEAN, NEW e2 \in BOOLEAN,
           e2 <=> b = "backslash" /\ ~e,
           q2 <=> ~(q <=> b = "quote" /\ ~e),
           d2 = IF q THEN d ELSE d + Turn(b),
           e => q, b = "backslash" => q, ~(~q /\ b = "close" /\ d2 = 0)
    PROVE  Read(o, u, d, q, e, b) = Part(o, u, d2, q2, e2)
<1>1. CASE e
  <2>1. e2 = FALSE /\ q2 = q /\ d2 = d  BY <1>1
  <2>2. Read(o, u, d, q, e, b) = Part(o, u, d, q, FALSE)  BY <1>1 DEF Read
  <2> QED  BY <2>1, <2>2
<1>2. CASE ~e /\ b = "backslash"
  <2>1. e2 = TRUE /\ q2 = q /\ d2 = d /\ q  BY <1>2
  <2>2. Read(o, u, d, q, e, b) = Part(o, u, d, q, TRUE)  BY <1>2, <2>1 DEF Read
  <2> QED  BY <2>1, <2>2
<1>3. CASE ~e /\ b = "quote"
  <2>1. e2 = e /\ q2 = ~q  BY <1>3
  <2>2. d2 = d  BY <1>3 DEF Turn
  <2>3. Read(o, u, d, q, e, b) = Part(o, u, d, ~q, e)  BY <1>3 DEF Read
  <2> QED  BY <2>1, <2>2, <2>3
<1>4. CASE ~e /\ b # "quote" /\ b # "backslash" /\ q
  <2>1. e2 = e /\ q2 = q /\ d2 = d  BY <1>4
  <2>2. Read(o, u, d, q, e, b) = Part(o, u, d, q, e)  BY <1>4 DEF Read
  <2> QED  BY <2>1, <2>2
<1>5. CASE ~e /\ b # "quote" /\ b # "backslash" /\ ~q
  <2>1. e2 = e /\ q2 = q /\ d2 = d + Turn(b)  BY <1>5
  <2>2. Read(o, u, d, q, e, b) = Part(o, u, d + Turn(b), q, e)
    BY <1>5, <2>1 DEF Read
  <2> QED  BY <2>1, <2>2
<1> QED  BY <1>1, <1>2, <1>3, <1>4, <1>5

\* The reading after i characters of an object.
Midway(objects, lead, text, i) ==
    Part(objects, lead \o SubSeq(text, 1, i), Depth(text, i),
         Quoted(text, i + 1), Escaped(text, i + 1))

Between(objects, lead) == Part(objects, lead, 0, FALSE, FALSE)
Leads == {<<>>, <<"space">>}

LEMMA ReadFurther ==
    ASSUME NEW text \in Seq(Gateway!Char), NEW lead \in Leads, NEW i \in 1..Len(text)
    PROVE  /\ Append(lead \o SubSeq(text, 1, i - 1), text[i]) = lead \o SubSeq(text, 1, i)
           /\ lead \o SubSeq(text, 1, 0) = lead
           /\ lead \o SubSeq(text, 1, Len(text)) = lead \o text
<1>1. Len(text) \in Nat /\ lead \in Seq(Gateway!Char)
  <2>1. "space" \in Gateway!Char  BY DEF Gateway!Char
  <2>2. <<>> \in Seq(Gateway!Char) /\ <<"space">> \in Seq(Gateway!Char)
    BY <2>1
  <2>3. Len(text) \in Nat  OBVIOUS
  <2>4. lead = <<>> \/ lead = <<"space">>  BY DEF Leads
  <2> QED  BY <2>2, <2>3, <2>4
<1>2. Append(SubSeq(text, 1, i - 1), text[i]) = SubSeq(text, 1, i)
  BY <1>1
<1>3. SubSeq(text, 1, 0) = <<>> /\ SubSeq(text, 1, Len(text)) = text
  BY <1>1
<1>4. lead \o <<>> = lead  BY <1>1
<1> DEFINE s == SubSeq(text, 1, i - 1)
           c == text[i]
<1>5. s \in Seq(Gateway!Char) /\ c \in Gateway!Char
  BY <1>1
<1>6. Append(lead \o s, c) = lead \o Append(s, c)
  <2>1. lead = <<>> \/ lead = <<"space">>  BY DEF Leads
  <2>2. "space" \in Gateway!Char  BY DEF Gateway!Char
  <2> HIDE DEF s, c
  <2>3. Append(<<>> \o s, c) = <<>> \o Append(s, c)  BY ONLY <1>5
  <2>4. Append(<<"space">> \o s, c) = <<"space">> \o Append(s, c)  BY ONLY <1>5, <2>2
  <2> QED  BY ONLY <2>1, <2>3, <2>4, Zenon
<1> QED  BY <1>2, <1>3, <1>4, <1>6

\* An object is read up to its last character, and is then complete.
LEMMA ObjectIsRead ==
    ASSUME NEW text \in Seq(Gateway!Char), IsObject(text), NEW lead \in Leads,
           NEW objects, NEW i \in 1..Len(text)
    PROVE  Gateway!Scan(Midway(objects, lead, text, i - 1), text[i])
           = IF i = Len(text) THEN Between(Append(objects, text), <<>>)
             ELSE Midway(objects, lead, text, i)
<1> DEFINE u == lead \o SubSeq(text, 1, i)
           d == Depth(text, i - 1)
           d2 == Depth(text, i)
           q == Quoted(text, i)
           e == Escaped(text, i)
           q2 == Quoted(text, i + 1)
           e2 == Escaped(text, i + 1)
           b == text[i]
<1>1. i \in Nat \ {0} /\ i - 1 \in Nat /\ i \in DOMAIN text /\ i - 1 + 1 = i /\ Len(text) \in Nat
  OBVIOUS
<1>2. d \in Int /\ d2 \in Int /\ d2 = IF q THEN d ELSE d + Turn(b)
  BY <1>1, DepthNext
<1>3. q \in BOOLEAN /\ e \in BOOLEAN /\ q2 \in BOOLEAN /\ e2 \in BOOLEAN
  BY DEF Quoted, Escaped
<1>4. Gateway!Scan(Midway(objects, lead, text, i - 1), b) = Read(objects, u, d, q, e, b)
  <2>1. Midway(objects, lead, text, i - 1)
        = Part(objects, lead \o SubSeq(text, 1, i - 1), d, q, e)
    BY <1>1 DEF Midway
  <2>2. Append(lead \o SubSeq(text, 1, i - 1), b) = u  BY ReadFurther
  <2> DEFINE c == lead \o SubSeq(text, 1, i - 1)
  <2> HIDE DEF u, d, q, e, b, c
  <2>3. Gateway!Scan(Part(objects, c, d, q, e), b) = Read(objects, Append(c, b), d, q, e, b)
    BY <1>3, ScanIs
  <2> QED  BY <2>1, <2>2, <2>3 DEF c
<1>5. CASE i = Len(text)
  <2>1. b = "close" /\ ~q /\ ~e /\ d2 = 0  BY <1>5, ObjectIsClosed
  <2>2. q = FALSE /\ e = FALSE /\ d + Turn(b) = 0
    <3> HIDE DEF q, e, d, d2, b
    <3> QED  BY <1>2, <1>3, <2>1
  <2>3. Read(objects, u, d, q, e, b)
        = Part(Append(objects, Gateway!TrimSpace(u)), <<>>, 0, q, e)
    <3> HIDE DEF q, e, d, d2, b, u
    <3> QED  BY <2>1, <2>2 DEF Read
  <2>4. u = lead \o text  BY <1>5, ReadFurther
  <2>5. text # <<>> /\ text[1] = "open"  BY DEF IsObject
  <2>6. Gateway!TrimSpace(u) = text
    <3>1. text[Len(text)] = "close"  BY <1>5, <2>1
    <3> HIDE DEF u
    <3> QED  BY <2>4, <2>5, <3>1, ObjectIsTrimmed DEF Leads
  <2> HIDE DEF q, e, d, d2, b, u
  <2> QED  BY <1>4, <1>5, <2>2, <2>3, <2>6 DEF Between, b
<1>6. CASE i # Len(text)
  <2>1. d2 # 0  BY <1>1, <1>6 DEF IsObject
  <2>2. e2 <=> b = "backslash" /\ ~e  BY <1>1, EscapedNext
  <2>3. q2 <=> ~(q <=> b = "quote" /\ ~e)  BY <1>1, QuotedNext
  <2>4. e => q  BY EscapedIsQuoted
  <2>5. b = "backslash" => q  BY <1>1 DEF IsObject
  <2>6. Midway(objects, lead, text, i) = Part(objects, u, d2, q2, e2)
    BY DEF Midway
  <2> HIDE DEF q, e, d, d2, b, u, q2, e2
  <2>7. Read(objects, u, d, q, e, b) = Part(objects, u, d2, q2, e2)
    BY <1>2, <1>3, <2>1, <2>2, <2>3, <2>4, <2>5, ReadsOn
  <2> QED  BY <1>4, <1>6, <2>6, <2>7 DEF b
<1> QED  BY <1>5, <1>6

\* Objects begin where nothing is read of them, and a space comes between two.
LEMMA ObjectBegins ==
    ASSUME NEW text, NEW lead \in Leads, NEW objects, text \in Seq(Gateway!Char)
    PROVE  Midway(objects, lead, text, 0) = Between(objects, lead)
<1>1. SubSeq(text, 1, 0) = <<>> /\ lead \o <<>> = lead
  BY DEF Leads
<1>2. Depth(text, 0) = 0 /\ ~Quoted(text, 1) /\ ~Escaped(text, 1)
  BY DepthNext, QuotedNext, EscapedNext
<1>3. Quoted(text, 1) \in BOOLEAN /\ Escaped(text, 1) \in BOOLEAN
  BY DEF Quoted, Escaped
<1>4. Quoted(text, 1) = FALSE /\ Escaped(text, 1) = FALSE  BY <1>2, <1>3
<1>5. 0 + 1 = 1  OBVIOUS
<1> QED  BY <1>1, <1>2, <1>4, <1>5 DEF Midway, Between

LEMMA SpaceIsRead ==
    ASSUME NEW objects
    PROVE  Gateway!Scan(Between(objects, <<>>), "space") = Between(objects, <<"space">>)
<1>1. Gateway!Scan(Between(objects, <<>>), "space")
      = Read(objects, Append(<<>>, "space"), 0, FALSE, FALSE, "space")
  <2>1. ASSUME NEW c, NEW d, NEW no \in BOOLEAN, NEW b
        PROVE  Gateway!Scan(Part(objects, c, d, no, no), b)
               = Read(objects, Append(c, b), d, no, no, b)
    BY ScanIs
  <2>2. FALSE \in BOOLEAN  OBVIOUS
  <2> QED  BY ONLY <2>1, <2>2, Zenon DEF Between
<1>2. Append(<<>>, "space") = <<"space">>  OBVIOUS
<1>3. 0 + Turn("space") = 0  BY DEF Turn
<1> QED  BY <1>1, <1>2, <1>3 DEF Read, Between

\* Whether t goes on where s ends.
GoesOn(s, t) == Len(s) <= Len(t) /\ \A p \in 1..Len(s) : t[p] = s[p]

\* What is put behind a sequence leaves it as it is.
LEMMA JoinedGoesOn ==
    ASSUME NEW X, NEW s \in Seq(X), NEW t \in Seq(X)
    PROVE  GoesOn(s, s \o t)
<1>1. Len(s) \in Nat /\ Len(t) \in Nat  OBVIOUS
<1>2. Len(s \o t) = Len(s) + Len(t)  OBVIOUS
<1>3. ASSUME NEW p \in 1..Len(s) PROVE (s \o t)[p] = s[p]
  <2>1. p \in Int /\ 1 <= p /\ p <= Len(s)  BY <1>1
  <2> QED  BY <2>1
<1>4. Len(s) <= Len(s \o t)  BY <1>1, <1>2
<1> QED  BY ONLY <1>3, <1>4, Zenon DEF GoesOn

\* What goes on where t ends goes on where the beginning of t ends.
LEMMA GoesOnFurther ==
    ASSUME NEW X, NEW s \in Seq(X), NEW t \in Seq(X), NEW r \in Seq(X),
           GoesOn(s, t), GoesOn(t, r)
    PROVE  GoesOn(s, r)
<1>1. Len(s) \in Nat /\ Len(t) \in Nat /\ Len(r) \in Nat  OBVIOUS
<1>2. Len(s) <= Len(t) /\ \A p \in 1..Len(s) : t[p] = s[p]  BY DEF GoesOn
<1>3. Len(t) <= Len(r) /\ \A p \in 1..Len(t) : r[p] = t[p]  BY DEF GoesOn
<1>4. Len(s) <= Len(r)  BY ONLY <1>1, <1>2, <1>3
<1>5. ASSUME NEW p \in 1..Len(s) PROVE r[p] = s[p]
  <2>1. p \in 1..Len(t)  BY ONLY <1>1, <1>2, p \in 1..Len(s)
  <2> QED  BY ONLY <1>2, <1>3, <2>1, p \in 1..Len(s), Zenon
<1> QED  BY ONLY <1>4, <1>5, Zenon DEF GoesOn

\* Of what is joined, the beginning stays.
LEMMA JoinsGoOn ==
    ASSUME NEW X, NEW seqs \in Seq(Seq(X)), NEW f, Joins(f, seqs, X), NEW i \in 0..Len(seqs)
    PROVE  GoesOn(f[i], f[Len(seqs)])
<1> SUFFICES ASSUME NEW n, n = Len(seqs) PROVE \A m \in 0..n : GoesOn(f[n - m], f[n])
  <2>1. Len(seqs) \in Nat  OBVIOUS
  <2>2. Len(seqs) - i \in 0..Len(seqs) /\ Len(seqs) - (Len(seqs) - i) = i  BY <2>1
  <2> QED  BY <2>2
<1>1. n \in Nat /\ \A k \in 1..n : seqs[k] \in Seq(X)  OBVIOUS
<1>2. f \in [0..n -> Seq(X)] /\ \A k \in 1..n : f[k] = f[k - 1] \o seqs[k]
  BY DEF Joins
<1> DEFINE good == {m \in 0..n : GoesOn(f[n - m], f[n])}
<1>3. 0 \in good
  <2>1. n - 0 = n /\ 0 \in 0..n /\ n \in 0..n  BY <1>1
  <2>2. f[n] \in Seq(X)  BY <1>2, <2>1
  <2>3. GoesOn(f[n], f[n])  BY <2>2 DEF GoesOn
  <2> QED  BY <2>1, <2>3
<1>4. ASSUME NEW m \in 1..n, m - 1 \in good PROVE m \in good
  <2> DEFINE k == n - m + 1
  <2>1. k \in 1..n /\ k - 1 = n - m /\ k = n - (m - 1) /\ k - 1 \in 0..n /\ m \in 0..n
    BY <1>1
  <2>2. GoesOn(f[k], f[n])  BY <1>4, <2>1
  <2> HIDE DEF k
  <2>3. f[k] = f[k - 1] \o seqs[k] /\ f[k - 1] \in Seq(X) /\ seqs[k] \in Seq(X)
    BY <1>1, <1>2, <2>1
  <2>4. GoesOn(f[k - 1], f[k])
    BY <2>3, JoinedGoesOn
  <2>5. f[k - 1] \in Seq(X) /\ f[k] \in Seq(X) /\ f[n] \in Seq(X)
    <3>1. n \in 0..n /\ k \in 0..n  BY <1>1, <2>1
    <3> QED  BY <1>2, <2>1, <3>1
  <2>6. GoesOn(f[k - 1], f[n])
    BY ONLY <2>2, <2>4, <2>5, GoesOnFurther
  <2> QED  BY <2>1, <2>6
<1> HIDE DEF good
<1>5. 0..n \subseteq good  BY <1>1, <1>3, <1>4, ReachedByCounting
<1> QED  BY <1>5 DEF good

\* Where the items are of a sequence behind another, and one more item.
LEMMA AppendedAt ==
    ASSUME NEW X, NEW s \in Seq(X), NEW t \in Seq(X), NEW c \in X,
           NEW r, r = s \o Append(t, c)
    PROVE  /\ Len(s) \in Nat /\ Len(t) \in Nat /\ Len(r) = Len(s) + Len(t) + 1
           /\ \A k \in 1..Len(t) : r[Len(s) + k] = t[k]
           /\ r[Len(s) + Len(t) + 1] = c
<1> DEFINE u == Append(t, c)
<1>1. /\ u \in Seq(X) /\ Len(u) = Len(t) + 1 /\ u[Len(t) + 1] = c
      /\ \A k \in 1..Len(t) : u[k] = t[k] /\ k \in 1..Len(u)
  OBVIOUS
<1>2. Len(s) \in Nat /\ Len(t) \in Nat  OBVIOUS
<1>3. u \in Seq(X)  BY <1>1
<1> HIDE DEF u
<1>4. Len(s \o u) = Len(s) + Len(u)  BY <1>3
<1>5. \A k \in 1..Len(u) : (s \o u)[Len(s) + k] = u[k]  BY <1>3
<1>6. Len(t) + 1 \in 1..Len(u) /\ Len(s) + (Len(t) + 1) = Len(s) + Len(t) + 1
  BY <1>1, <1>2
<1> QED  BY <1>1, <1>2, <1>4, <1>5, <1>6 DEF u

\* What a reader needs of the data from base on: an object and a space.
Holds(f, data, base, text) ==
    /\ \A k \in 1..(Len(text) + 1) :
          f[base + k] = Gateway!Scan(f[base + k - 1], data[base + k])
    /\ \A k \in 1..Len(text) : data[base + k] = text[k]
    /\ data[base + Len(text) + 1] = "space"

LEMMA OneObjectIsRead ==
    ASSUME NEW text \in Seq(Gateway!Char), IsObject(text), NEW lead \in Leads, NEW objects,
           NEW f, NEW data, NEW base \in Nat, f[base] = Between(objects, lead),
           Holds(f, data, base, text)
    PROVE  f[base + Len(text) + 1] = Between(Append(objects, text), <<"space">>)
<1> SUFFICES ASSUME NEW n, n = Len(text)
             PROVE  f[base + n + 1] = Between(Append(objects, text), <<"space">>)
  OBVIOUS
<1>1. n \in Nat \ {0}  BY DEF IsObject
<1>2. /\ \A k \in 1..(n + 1) : f[base + k] = Gateway!Scan(f[base + k - 1], data[base + k])
      /\ \A k \in 1..n : data[base + k] = text[k]
      /\ data[base + n + 1] = "space"
  BY DEF Holds
<1> DEFINE At(k) == IF k = n THEN Between(Append(objects, text), <<>>)
                    ELSE Midway(objects, lead, text, k)
           good == {k \in 0..n : f[base + k] = At(k)}
<1>3. 0 \in good
  <2>1. 0 \in 0..n /\ 0 # n /\ base + 0 = base  BY <1>1
  <2>2. At(0) = Between(objects, lead)  BY <2>1, ObjectBegins
  <2> HIDE DEF At
  <2> QED  BY <2>1, <2>2
<1>4. ASSUME NEW k \in 1..n, k - 1 \in good PROVE k \in good
  <2>1. k \in 0..n /\ k - 1 # n /\ k \in 1..(n + 1) /\ base + k - 1 = base + (k - 1)
    BY <1>1
  <2>2. f[base + (k - 1)] = Midway(objects, lead, text, k - 1)  BY <1>4, <2>1
  <2>3. f[base + k] = Gateway!Scan(Midway(objects, lead, text, k - 1), text[k])
    BY <1>2, <2>1, <2>2
  <2>4. Gateway!Scan(Midway(objects, lead, text, k - 1), text[k]) = At(k)
    BY ObjectIsRead
  <2> HIDE DEF At
  <2> QED  BY <2>1, <2>3, <2>4
<1>5. f[base + n] = Between(Append(objects, text), <<>>)
  <2> HIDE DEF good, At
  <2>1. 0..n \subseteq good  BY <1>1, <1>3, <1>4, ReachedByCounting
  <2>2. n \in good  BY <1>1, <2>1
  <2> QED  BY <2>2 DEF good, At
<1>6. /\ n + 1 \in 1..(n + 1) /\ base + (n + 1) - 1 = base + n
      /\ base + (n + 1) = base + n + 1
  BY <1>1
<1>7. f[base + n + 1] = Gateway!Scan(f[base + n], "space")
  BY <1>2, <1>6
<1> QED  BY <1>5, <1>7, SpaceIsRead

\* Framing.  What is framed is cut apart as it was.
LEMMA FramedIs ==
    ASSUME NEW texts \in Seq(Seq(Gateway!Char))
    PROVE  LET seqs == [i \in DOMAIN texts |-> Append(texts[i], "space")]
           IN  /\ seqs \in Seq(Seq(Gateway!Char)) /\ Len(seqs) = Len(texts)
               /\ Gateway!Framed(texts) = FlattenSeq(seqs)
<1> DEFINE seqs == [i \in DOMAIN texts |-> Append(texts[i], "space")]
<1>1. "space" \in Gateway!Char  BY DEF Gateway!Char
<1>2. \A i \in DOMAIN texts : texts[i] \in Seq(Gateway!Char)  OBVIOUS
<1>3. \A t \in Seq(Gateway!Char) : Append(t, "space") \in Seq(Gateway!Char)  BY <1>1
<1>4. DOMAIN texts = 1..Len(texts) /\ Len(texts) \in Nat  OBVIOUS
<1>5. seqs \in Seq(Seq(Gateway!Char)) /\ Len(seqs) = Len(texts)  BY <1>2, <1>3, <1>4
<1>6. Gateway!Framed(texts) = FlattenSeq(seqs)
  BY DEF Gateway!Framed, Gateway!FlattenSeq, FlattenSeq
<1> QED  BY <1>5, <1>6

LEMMA SplitIsInverse ==
    ASSUME NEW texts \in Seq(Seq(Gateway!Char)), \A i \in DOMAIN texts : IsObject(texts[i])
    PROVE  Gateway!SplitJSONObjects(Gateway!Framed(texts)) = texts
<1> DEFINE seqs == [i \in DOMAIN texts |-> Append(texts[i], "space")]
           data == Gateway!Framed(texts)
<1> SUFFICES ASSUME NEW n, n = Len(texts)
             PROVE  Gateway!SplitJSONObjects(data) = texts
  OBVIOUS
<1>1. seqs \in Seq(Seq(Gateway!Char)) /\ Len(seqs) = n /\ data = FlattenSeq(seqs)
  BY FramedIs
<1>2. n \in Nat /\ DOMAIN texts = 1..n /\ \A i \in 1..n : texts[i] \in Seq(Gateway!Char)
  OBVIOUS
<1>3. \A i \in 1..n : seqs[i] = Append(texts[i], "space")  BY <1>2
<1> HIDE DEF seqs, data
<1>4. PICK pre : Joins(pre, seqs, Gateway!Char)  BY <1>1, FlattenJoins
<1>5. /\ pre \in [0..n -> Seq(Gateway!Char)] /\ pre[0] = <<>> /\ data = pre[n]
      /\ \A i \in 1..n : pre[i] = pre[i - 1] \o seqs[i]
  BY <1>1, <1>4 DEF Joins
<1>6. n \in 0..n /\ data \in Seq(Gateway!Char)
  BY <1>2, <1>5
<1>7. PICK f : Reads(f, data)  BY <1>6, SplitReads
<1>8. /\ f[0] = Between(<<>>, <<>>)
      /\ \A k \in 1..Len(data) : f[k] = Gateway!Scan(f[k - 1], data[k])
      /\ Gateway!SplitJSONObjects(data) = f[Len(data)].objects
  BY <1>7 DEF Reads, Unread, Between, Part
<1> DEFINE Lead(i) == IF i = 0 THEN <<>> ELSE <<"space">>
           good == {i \in 0..n : f[Len(pre[i])] = Between(SubSeq(texts, 1, i), Lead(i))}
<1>9. 0 \in good
  <2>1. SubSeq(texts, 1, 0) = <<>> /\ Len(<<>>) = 0 /\ 0 \in 0..n  BY <1>2
  <2> QED  BY <1>5, <1>8, <2>1
<1>10. ASSUME NEW i \in 1..n, i - 1 \in good PROVE i \in good
  <2> DEFINE text == texts[i]
             base == Len(pre[i - 1])
  <2>1. i - 1 \in 0..n /\ i \in 0..n /\ i # 0  BY <1>2
  <2>2. text \in Seq(Gateway!Char) /\ IsObject(text)  BY <1>2
  <2>3. pre[i - 1] \in Seq(Gateway!Char) /\ pre[i] \in Seq(Gateway!Char)
        /\ pre[i] = pre[i - 1] \o Append(text, "space")
    BY <1>3, <1>5, <2>1
  <2>4. GoesOn(pre[i], data)  BY <1>1, <1>4, <1>5, <2>1, JoinsGoOn
  <2> HIDE DEF text
  <2>5. /\ base \in Nat /\ Len(text) \in Nat /\ Len(pre[i]) = base + Len(text) + 1
        /\ \A k \in 1..Len(text) : pre[i][base + k] = text[k]
        /\ pre[i][base + Len(text) + 1] = "space"
    <3>1. "space" \in Gateway!Char  BY DEF Gateway!Char
    <3>2. ASSUME NEW s \in Seq(Gateway!Char), NEW r, r = s \o Append(text, "space")
          PROVE  /\ Len(s) \in Nat /\ Len(text) \in Nat
                 /\ Len(r) = Len(s) + Len(text) + 1
                 /\ \A k \in 1..Len(text) : r[Len(s) + k] = text[k]
                 /\ r[Len(s) + Len(text) + 1] = "space"
      BY <2>2, <3>1, <3>2, AppendedAt
    <3> QED  BY <2>3, <3>2
  <2> HIDE DEF base
  <2>6. Holds(f, data, base, text)
    <3>1. Len(data) \in Nat /\ Len(pre[i]) <= Len(data)  BY <1>6, <2>4 DEF GoesOn
    <3>2. \A k \in 1..(Len(text) + 1) :
             base + k \in 1..Len(pre[i]) /\ base + k \in 1..Len(data)
      BY <2>5, <3>1
    <3>3. \A p \in 1..Len(pre[i]) : data[p] = pre[i][p]  BY <2>4 DEF GoesOn
    <3>4. \A k \in 1..Len(text) : k \in 1..(Len(text) + 1)  BY <2>5
    <3>5. Len(text) + 1 \in 1..(Len(text) + 1) /\ base + (Len(text) + 1) = base + Len(text) + 1
      BY <2>5
    <3>6. \A k \in 1..(Len(text) + 1) :
             f[base + k] = Gateway!Scan(f[base + k - 1], data[base + k])
      <4> SUFFICES ASSUME NEW k \in 1..(Len(text) + 1)
                   PROVE  f[base + k] = Gateway!Scan(f[base + k - 1], data[base + k])
        OBVIOUS
      <4>1. PICK p \in 1..Len(data) : p = base + k  BY <3>2
      <4>2. f[p] = Gateway!Scan(f[p - 1], data[p])  BY <1>8, <4>1
      <4> QED  BY <2>5, <4>1, <4>2
    <3>7. \A k \in 1..Len(text) : data[base + k] = text[k]
      BY <2>5, <3>2, <3>3, <3>4
    <3>8. data[base + Len(text) + 1] = "space"
      BY <2>5, <3>2, <3>3, <3>5
    <3> QED  BY <3>6, <3>7, <3>8 DEF Holds
  <2>7. f[base] = Between(SubSeq(texts, 1, i - 1), Lead(i - 1)) /\ Lead(i - 1) \in Leads
    BY <1>10 DEF base, Leads
  <2>8. f[base + Len(text) + 1]
        = Between(Append(SubSeq(texts, 1, i - 1), text), <<"space">>)
    <3> HIDE DEF Lead, good
    <3> QED  BY <2>2, <2>5, <2>6, <2>7, OneObjectIsRead
  <2>9. Append(SubSeq(texts, 1, i - 1), text) = SubSeq(texts, 1, i)
    BY <1>2 DEF text
  <2>10. f[Len(pre[i])] = Between(SubSeq(texts, 1, i), Lead(i))
    BY <2>1, <2>5, <2>8, <2>9
  <2> QED  BY <2>1, <2>10
<1>11. f[Len(data)] = Between(SubSeq(texts, 1, n), Lead(n))
  <2>1. 0..n \subseteq good
    <3> HIDE DEF good
    <3> QED  BY <1>2, <1>9, <1>10, ReachedByCounting
  <2> QED  BY <1>5, <1>6, <2>1
<1>12. SubSeq(texts, 1, n) = texts  BY <1>2
<1>13. f[Len(data)].objects = texts
  <2> HIDE DEF Lead
  <2>1. \A o, c, no : Part(o, c, 0, no, no).objects = o  BY PartsAre
  <2>2. Between(texts, Lead(n)).objects = texts  BY <2>1, Zenon DEF Between
  <2> QED  BY <1>11, <1>12, <2>2
<1> QED  BY <1>8, <1>13

\* What is known of an agent's output.
AboutOutput ==
    /\ observed.of = "output" => observed.texts \in Texts
    /\ answer.tool = "exec" =>
          /\ observed.of = "output"
          /\ answer.objects = Gateway!SplitJSONObjects(Gateway!Framed(observed.texts))

\* No other question gives an answer of an agent.
Unframed == observed' = observed /\ answer'.tool # "exec"

LEMMA OthersUnframed ==
    /\ \A counted, ended : AskHealth(counted, ended) => Unframed
    /\ \A tool \in {"get_gpu_inventory", "describe_gpu_node"},
          allowed, routed, wanted \in BOOLEAN :
             AskAgents(tool, allowed, routed, wanted) => Unframed
    /\ \A counted, k, ended : DescribeNode(counted, k, ended) => Unframed
    /\ \A request, ended : AskTimeline(request, ended) => Unframed
    /\ \A trigger, cut : AutoCorrelate(trigger, cut) => Unframed
    /\ \A pod, found, correlating, cut :
          ExplainPod(pod, found, correlating, cut) => Unframed
    /\ \A pod, found, correlating, cut, recording :
          ReportPod(pod, found, correlating, cut, recording) => Unframed
    /\ AskAgain => Unframed
<1>1. \A counted, ended : AskHealth(counted, ended) => Unframed
  BY DEF AskHealth, Unframed
<1>2. \A tool \in {"get_gpu_inventory", "describe_gpu_node"},
         allowed, routed, wanted \in BOOLEAN :
            AskAgents(tool, allowed, routed, wanted) => Unframed
  BY DEF AskAgents, Unframed
<1>3. \A counted, k, ended : DescribeNode(counted, k, ended) => Unframed
  BY DEF DescribeNode, Unframed
<1>4. \A request, ended : AskTimeline(request, ended) => Unframed
  BY DEF AskTimeline, Unframed
<1>5. \A trigger, cut : AutoCorrelate(trigger, cut) => Unframed
  BY DEF AutoCorrelate, Unframed
<1>6. \A pod, found, correlating, cut :
         ExplainPod(pod, found, correlating, cut) => Unframed
  BY DEF ExplainPod, Unframed, ToolError
<1>7. ASSUME NEW pod, NEW found, NEW correlating, NEW cut, NEW recording,
             ReportPod(pod, found, correlating, cut, recording)
      PROVE  Unframed
  <2> DEFINE incidents == Incidents(pod, found, correlating, observed.world, cut)
  <2>1. observed' = observed  BY <1>7 DEF ReportPod
  <2>2. \/ \E incident \in incidents :
              answer' = [tool |-> "get_incident_report", incident |-> incident,
                         whole |-> correlating /\ cut = Whole,
                         report |-> IncidentReport(incident, recording, Recorded,
                                                   TRUE, TRUE)]
        \/ answer' = ToolError
    BY <1>7 DEF ReportPod
  <2>3. answer'.tool # "exec"
    <3> HIDE DEF incidents
    <3>1. CASE answer' = ToolError
      BY <3>1 DEF ToolError
    <3>2. ASSUME NEW incident \in incidents,
                 answer' = [tool |-> "get_incident_report", incident |-> incident,
                            whole |-> correlating /\ cut = Whole,
                            report |-> IncidentReport(incident, recording, Recorded,
                                                      TRUE, TRUE)]
          PROVE  answer'.tool # "exec"
      BY ONLY <3>2
    <3> QED  BY <2>2, <3>1, <3>2
  <2> QED  BY <2>1, <2>3 DEF Unframed
<1>8. AskAgain => Unframed
  BY DEF AskAgain, ReportID, Unframed
<1> QED  BY <1>1, <1>2, <1>3, <1>4, <1>5, <1>6, <1>7, <1>8

LEMMA InitAboutOutput == Init => AboutOutput
<1> SUFFICES ASSUME Init PROVE AboutOutput
  OBVIOUS
<1>1. observed.of = "output" => observed.texts \in Texts
  BY DEF Init
<1>2. answer.tool = "none"  BY DEF Init
<1> QED  BY <1>1, <1>2 DEF AboutOutput

LEMMA NextAboutOutput == AboutOutput /\ [Next]_vars => AboutOutput'
<1> SUFFICES ASSUME AboutOutput, [Next]_vars PROVE AboutOutput'
  OBVIOUS
<1>1. ASSUME Unframed PROVE AboutOutput'
  BY <1>1 DEF AboutOutput, Unframed
<1>2. ASSUME ReadAgent PROVE AboutOutput'
  <2>1. observed.of = "output" /\ observed' = observed  BY <1>2 DEF ReadAgent
  <2>2. answer'.objects = Gateway!SplitJSONObjects(Gateway!Framed(observed.texts))
    BY <1>2 DEF ReadAgent
  <2> QED  BY <2>1, <2>2 DEF AboutOutput
<1>3. ASSUME Ask PROVE AboutOutput'
  <2>1. \/ \E counted, ended : AskHealth(counted, ended)
        \/ \E tool \in {"get_gpu_inventory", "describe_gpu_node"},
              allowed, routed, wanted \in BOOLEAN : AskAgents(tool, allowed, routed, wanted)
        \/ \E counted, k, ended : DescribeNode(counted, k, ended)
        \/ \E request, ended : AskTimeline(request, ended)
        \/ ReadAgent
        \/ \E trigger, cut : AutoCorrelate(trigger, cut)
        \/ \E pod, found, correlating, cut : ExplainPod(pod, found, correlating, cut)
        \/ \E pod, found, correlating, cut, recording :
              ReportPod(pod, found, correlating, cut, recording)
    BY <1>3 DEF Ask
  <2> QED  BY <1>1, <1>2, <2>1, OthersUnframed
<1>4. ASSUME UNCHANGED vars PROVE AboutOutput'
  BY <1>4 DEF vars, AboutOutput
<1> QED  BY <1>1, <1>3, <1>4, OthersUnframed DEF Next

(***************************************************************************)
(* For any number of objects of any length: what the gateway cuts out of   *)
(* the framed output of an agent is what the agent sent, whatever braces,  *)
(* quotes and backslashes its strings hold (framing.go:190-240).           *)
(***************************************************************************)
THEOREM FramingIsInverted == Spec => []SplitInvertsFraming
<1>1. AboutOutput => SplitInvertsFraming
  <2> SUFFICES ASSUME AboutOutput, answer.tool = "exec"
               PROVE  answer.objects = observed.texts
    BY DEF SplitInvertsFraming
  <2>1. observed.texts \in Texts  BY DEF AboutOutput
  <2> DEFINE texts == observed.texts
  <2>2. texts \in Seq(Seq(Gateway!Char))  BY <2>1, ReportsAssumption
  <2>3. ASSUME NEW i \in DOMAIN texts PROVE IsObject(texts[i])
    <3>1. texts[i] \in ToSet(texts)  BY DEF ToSet
    <3>2. texts[i] \in UNION {ToSet(t) : t \in Texts}  BY <2>1, <3>1
    <3> QED  BY <3>2, ReportsAssumption
  <2> HIDE DEF texts
  <2>4. Gateway!SplitJSONObjects(Gateway!Framed(texts)) = texts
    BY <2>2, <2>3, SplitIsInverse
  <2> QED  BY <2>4 DEF AboutOutput, texts
<1> QED  BY <1>1, InitAboutOutput, NextAboutOutput, PTL DEF Spec
================================================================================

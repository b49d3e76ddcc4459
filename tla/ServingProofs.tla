----------------------------- MODULE ServingProofs -----------------------------
(***************************************************************************)
(* Theorems about the agent process and its certificate reloader, for any  *)
(* number of handshakes, renewals, lines and requests.                     *)
(***************************************************************************)
EXTENDS Serving, SequenceTheorems, TLAPS

Files == {"cert", "key"}
Pcs == {"idle", "maybeReload", "load", "loadKey", "stat", "statKey"}

AtStat(t) == At(t, "stat") \/ At(t, "statKey")

Typed ==
    /\ disk \in [cert : Nat, key : Nat] /\ times \in [cert : Nat, key : Nat]
    /\ threads \in [Threads -> [pc : Pcs, cert : Nat, time : Nat]]

\* Recorded times are those of the files now or earlier.
TimesPassed ==
    /\ times.cert <= disk.cert /\ times.key <= disk.key
    /\ \A t \in Threads : At(t, "statKey") => threads[t].time <= disk.cert

\* What a thread has loaded is what it will record, unless it was raced.
LoadedIsOnDisk ==
    \A t \in Threads : AtStat(t) => threads[t].cert = disk.key \/ raced

ServedIsRecorded == times = disk => cached = disk.key \/ raced

ReloaderInv == Typed /\ TimesPassed /\ LoadedIsOnDisk /\ ServedIsRecorded
--------------------------------------------------------------------------------
LEMMA ReloaderInvInit == InitReloader => ReloaderInv
  BY DEF InitReloader, ReloaderInv, Typed, Pcs, TimesPassed, LoadedIsOnDisk, ServedIsRecorded,
         Thread, AtStat, At

(* A thread that moves to a place before its stats. *)
LEMMA GoKeeps ==
    ASSUME ReloaderInv, NEW t \in Threads, NEW pc \in {"idle", "load", "maybeReload"},
           Go(t, pc), UNCHANGED <<disk, cached, times, raced>>
    PROVE  ReloaderInv'
  BY DEF Go, Thread, ReloaderInv, Typed, Pcs, TimesPassed, LoadedIsOnDisk, ServedIsRecorded,
         AtStat, At

LEMMA LoadKeeps ==
    ASSUME ReloaderInv, NEW t \in Threads,
           LoadCert(t) \/ LoadKey(t) \/ Unreadable(t) \/ StatCert(t)
    PROVE  ReloaderInv'
<1>1. CASE LoadCert(t)
  BY <1>1 DEF LoadCert, ReloaderInv, Typed, Pcs, TimesPassed, LoadedIsOnDisk, ServedIsRecorded,
              AtStat, At
<1>2. CASE Fails(t) /\ UNCHANGED raced
  BY <1>2, GoKeeps DEF Fails, FailedTimes
<1>3. CASE LoadKey(t) /\ threads[t].cert = disk.key
  BY <1>3 DEF LoadKey, ReloaderInv, Typed, Pcs, TimesPassed, LoadedIsOnDisk, ServedIsRecorded,
              AtStat, At
<1>4. CASE StatCert(t)
  <2>1. /\ threads[t] \in [pc : Pcs, cert : Nat, time : Nat] /\ At(t, "stat")
        /\ threads' = [threads EXCEPT ![t] =
                         [threads[t] EXCEPT !.pc = "statKey", !.time = disk.cert]]
        /\ UNCHANGED <<disk, cached, times, raced>>
    BY <1>4 DEF StatCert, ReloaderInv, Typed
  <2>2. Typed'
    BY <2>1 DEF ReloaderInv, Typed, Pcs
  <2>3. TimesPassed' /\ LoadedIsOnDisk' /\ ServedIsRecorded'
    BY <2>1 DEF ReloaderInv, Typed, TimesPassed, LoadedIsOnDisk, ServedIsRecorded, AtStat, At
  <2> QED
    BY <2>2, <2>3 DEF ReloaderInv
<1> QED
  BY <1>1, <1>2, <1>3, <1>4 DEF LoadKey, Unreadable, Fails

LEMMA StoreKeeps ==
    ASSUME ReloaderInv, NEW t \in Threads, Store(t)
    PROVE  ReloaderInv'
<1>1. times' \in [cert : Nat, key : Nat] /\ times'.cert <= disk.cert /\ times'.key = disk.key
  BY DEF Store, AtStat, At, ReloaderInv, Typed, Pcs, TimesPassed
<1>2. cached' = disk.key \/ raced
  BY DEF Store, AtStat, At, ReloaderInv, LoadedIsOnDisk
<1>3. UNCHANGED <<disk, raced>> /\ Go(t, "idle")
  BY DEF Store
<1>4. Typed'
  BY <1>1, <1>3 DEF Go, Thread, ReloaderInv, Typed, Pcs
<1>5. TimesPassed' /\ LoadedIsOnDisk'
  BY <1>1, <1>3 DEF Go, Thread, ReloaderInv, Typed, Pcs, TimesPassed, LoadedIsOnDisk, AtStat, At
<1>6. ServedIsRecorded'
  BY <1>2, <1>3 DEF ServedIsRecorded
<1> QED
  BY <1>4, <1>5, <1>6 DEF ReloaderInv

(* A renewal makes the recorded times old, or is noted as a race. *)
LEMMA RenewKeeps ==
    ASSUME ReloaderInv, NEW files \in (SUBSET DOMAIN disk) \ {{}}, Renew(files)
    PROVE  ReloaderInv'
<1>1. DOMAIN disk = Files
  BY DEF ReloaderInv, Typed, Files
<1>2. /\ disk' = [f \in Files |-> IF f \in files THEN disk[f] + 1 ELSE disk[f]]
      /\ UNCHANGED <<cached, times, threads>>
  BY <1>1 DEF Renew
<1>3. /\ disk.cert \in Nat /\ disk.key \in Nat
      /\ disk'.cert \in Nat /\ disk'.key \in Nat
      /\ disk'.cert >= disk.cert /\ disk'.key >= disk.key
      /\ disk'.cert > disk.cert \/ disk'.key > disk.key
  <2>1. "cert" \in files \/ "key" \in files
    BY <1>1 DEF Files
  <2>2. /\ disk'.cert = IF "cert" \in files THEN disk.cert + 1 ELSE disk.cert
        /\ disk'.key = IF "key" \in files THEN disk.key + 1 ELSE disk.key
    BY <1>2 DEF Files
  <2>3. disk.cert \in Nat /\ disk.key \in Nat
    BY DEF ReloaderInv, Typed
  <2> QED
    BY <2>1, <2>2, <2>3
<1>4. disk' \in [cert : Nat, key : Nat]
  BY <1>2, <1>3 DEF Files
<1>5. raced' = \E t \in Threads : AtStat(t)
  BY DEF Renew, AtStat
<1>6. Typed'
  BY <1>2, <1>4 DEF ReloaderInv, Typed, Pcs
<1>7. TimesPassed'
  BY <1>2, <1>3 DEF ReloaderInv, Typed, Pcs, TimesPassed, AtStat, At
<1>8. LoadedIsOnDisk'
  BY <1>2, <1>5 DEF LoadedIsOnDisk, AtStat, At
<1>9. times' # disk'
  BY <1>2, <1>3 DEF ReloaderInv, Typed, Pcs, TimesPassed
<1> QED
  BY <1>6, <1>7, <1>8, <1>9 DEF ReloaderInv, ServedIsRecorded

LEMMA ReloaderInvKept == ReloaderInv /\ [ReloaderNext]_reloaderVars => ReloaderInv'
<1> SUFFICES ASSUME ReloaderInv, [ReloaderNext]_reloaderVars PROVE ReloaderInv'
  OBVIOUS
<1>1. CASE newCertReloader
  BY <1>1, GoKeeps DEF newCertReloader, Threads
<1>2. ASSUME NEW h \in Handshakes, GetCertificate(h) PROVE ReloaderInv'
  BY <1>2, GoKeeps DEF GetCertificate, Threads
<1>3. ASSUME NEW h \in Handshakes, maybeReload(h) PROVE ReloaderInv'
  <2>1. PICK pc \in {"idle", "load"} : Go(h, pc)
    BY <1>3 DEF maybeReload
  <2>2. UNCHANGED <<disk, cached, times, raced>> /\ h \in Threads
    BY <1>3 DEF maybeReload, Threads
  <2> QED
    BY <2>1, <2>2, GoKeeps
<1>4. CASE IntervalPasses \/ UNCHANGED reloaderVars
  BY <1>4 DEF IntervalPasses, reloaderVars, ReloaderInv, Typed, Pcs, TimesPassed, LoadedIsOnDisk,
              ServedIsRecorded, AtStat, At
<1> QED
  BY <1>1, <1>2, <1>3, <1>4, LoadKeeps, StoreKeeps, RenewKeeps DEF ReloaderNext, ReloadSteps
--------------------------------------------------------------------------------
(* Whatever the agent does is a step of its reloader or none of it. *)
LEMMA AgentStepsReloader == [Next]_vars => [ReloaderNext]_reloaderVars
<1> SUFFICES ASSUME [Next]_vars PROVE [ReloaderNext]_reloaderVars
  OBVIOUS
<1>1. CASE \/ Signal \/ Main \/ StartStdio \/ Receive \/ ServeStdio \/ runStdio
           \/ StartOneshot \/ Scan \/ Send \/ Run \/ processRequest
           \/ Listen \/ Serve \/ ListenAndServe \/ Respond \/ UNCHANGED vars
  BY <1>1 DEF Signal, Main, StartStdio, Receive, ServeStdio, runStdio, StartOneshot, Scan, Send,
              Run, processRequest, Listen, Serve, ListenAndServe, Respond, vars
<1>2. CASE StartHTTP
  BY <1>2 DEF StartHTTP, ReloaderNext
<1>3. CASE Connect
  BY <1>3 DEF Connect, ReloaderNext
<1>4. CASE Reload
  BY <1>4 DEF Reload, ReloaderNext
<1> QED
  BY <1>1, <1>2, <1>3, <1>4 DEF Next

(***************************************************************************)
(* The agent implements the reloader by itself: whichever transport runs   *)
(* and whenever it stops, its steps on the certificate are the reloader's  *)
(* (pkg/mcp/http.go with tls.go).                                          *)
(***************************************************************************)
THEOREM UsesReloader == Spec => ReloaderSpec
<1>1. Init => InitReloader
  BY DEF Init
<1> QED
  BY <1>1, AgentStepsReloader, PTL DEF Spec, ReloaderSpec

(***************************************************************************)
(* A complete renewal is lost only when it falls between the load of a     *)
(* pair and the stats behind it, for any number of handshakes and          *)
(* renewals, with loads that fail at any step (tls.go:131).                *)
(***************************************************************************)
THEOREM RenewalServed == Spec => []OnlyTheStatRaceLosesARenewal
<1>1. ReloaderInv => OnlyTheStatRaceLosesARenewal
  BY DEF ReloaderInv, ServedIsRecorded, OnlyTheStatRaceLosesARenewal
<1> QED
  BY <1>1, ReloaderInvInit, ReloaderInvKept, UsesReloader, PTL DEF ReloaderSpec
--------------------------------------------------------------------------------
(* The one-shot transport *)

Answerable == {i \in DOMAIN input.lines : input.lines[i] # Blank}

(* The first line that Run has not taken yet, and the first it has not done with. *)
Untaken == IF lines = <<>> THEN next ELSE next - 1
Pending == IF current = 0 THEN Untaken ELSE current

Increasing(s) == \A i, j \in DOMAIN s : i < j => s[i] < s[j]

(* The scanner is at most one line ahead, and leaves none behind. *)
ReadsAhead ==
    /\ input.lines \in Seq({Blank, Bad, Request})
    /\ next \in 1..Len(input.lines) + 1
    /\ serve = "send" => next <= Len(input.lines)
    /\ lines = <<>> \/ (lines = <<next - 1>> /\ next > 1)
    /\ current # 0 => current = Untaken - 1 /\ current \in Answerable
    /\ linesClosed => /\ transport = "oneshot" /\ serve = "done"
                      /\ cancelled \/ next > Len(input.lines) \/ errCh # <<>>

AnsweredInOrder ==
    /\ handled \in Seq(Nat) /\ Increasing(handled)
    /\ ToSet(handled) = {i \in Answerable : i < Pending}

CountsRequests ==
    /\ processed \in 0..maxRequests
    /\ run \in {"start", "certificate"} => serve = "none"
    /\ run = "certificate" => transport = "http"
    /\ current # 0 => transport = "oneshot" /\ run = "serving"
    /\ serve \in {"scan", "send"} => transport = "oneshot"
    /\ transport = "oneshot" /\ run # "returned" => processed < maxRequests /\ result = "none"
    /\ transport = "oneshot" /\ result = "nil" =>
          processed >= maxRequests \/ (lines = <<>> /\ linesClosed /\ errCh = <<>>)

OneshotInv == ReadsAhead /\ AnsweredInOrder /\ CountsRequests

LEMMA OneshotInvInit == Init => OneshotInv
<1> SUFFICES ASSUME Init PROVE OneshotInv
  OBVIOUS
<1>1. input.lines \in Seq({Blank, Bad, Request})
  <2>1. \A m \in Nat : [1..m -> {Blank, Bad, Request}] \subseteq Seq({Blank, Bad, Request})
    BY SeqDef
  <2>2. BoundedSeq({Blank, Bad, Request}, MaxLines) \subseteq Seq({Blank, Bad, Request})
    BY <2>1, ServingAssumption DEF BoundedSeq, SeqOf, ServingAssumption
  <2>3. <<>> \in Seq({Blank, Bad, Request})
    OBVIOUS
  <2> QED
    BY <2>2, <2>3 DEF Init
<1>2. handled = <<>> /\ lines = <<>> /\ next = 1 /\ processed = 0 /\ current = 0
  BY DEF Init
<1>3. ReadsAhead
  BY <1>1, <1>2, LenProperties DEF Init, ReadsAhead, Untaken
<1>4. AnsweredInOrder
  <2>1. handled \in Seq(Nat) /\ Increasing(handled) /\ ToSet(handled) = {}
    BY <1>2 DEF Increasing, ToSet
  <2>2. {i \in Answerable : i < Pending} = {}
    BY <1>1, <1>2, LenProperties DEF Answerable, Pending, Untaken
  <2> QED
    BY <2>1, <2>2 DEF AnsweredInOrder
<1>5. CountsRequests
  BY <1>2, ServingAssumption DEF Init, CountsRequests, ServingAssumption
<1> QED
  BY <1>3, <1>4, <1>5 DEF OneshotInv

(* Run takes the next line, or skips it if that is blank. *)
LEMMA RunTakes ==
    ASSUME OneshotInv, Run, lines # <<>>, lines' = <<>>,
           current' = IF input.lines[lines[1]] = Blank THEN 0 ELSE lines[1],
           UNCHANGED <<run, result>>
    PROVE  OneshotInv'
<1> DEFINE line == next - 1
<1> USE DEF OneshotInv
<1>1. /\ lines = <<line>> /\ line \in DOMAIN input.lines /\ line \in Nat \ {0} /\ next \in Nat
      /\ transport = "oneshot" /\ run = "serving" /\ current = 0
      /\ UNCHANGED <<input, next, linesClosed, serve, transport, cancelled, handled, processed,
                     errCh>>
  BY LenProperties DEF ReadsAhead, Run, processVars
<1>2. current' = IF input.lines[line] = Blank THEN 0 ELSE line
  BY <1>1
<1>3. Untaken = line /\ Untaken' = line + 1 /\ Answerable' = Answerable
  BY <1>1 DEF Untaken, Answerable
<1>4. current' # 0 => current' = line /\ line \in Answerable
  BY <1>1, <1>2 DEF Answerable
<1>5. ReadsAhead'
  BY <1>1, <1>3, <1>4 DEF ReadsAhead
<1>6. AnsweredInOrder'
  <2>1. \A i \in Answerable : i \in Nat
    BY LenProperties DEF Answerable, ReadsAhead
  <2>2. {i \in Answerable : i < Pending'} = {i \in Answerable : i < line}
    <3>1. CASE input.lines[line] = Blank
      <4>1. Pending' = line + 1 /\ line \notin Answerable
        BY <1>2, <1>3, <3>1 DEF Pending, Answerable
      <4>2. \A i \in Answerable : i < line + 1 <=> i < line
        BY <1>1, <2>1, <4>1
      <4> QED
        BY <4>1, <4>2
    <3>2. CASE input.lines[line] # Blank
      BY <1>1, <1>2, <3>2 DEF Pending
    <3> QED
      BY <3>1, <3>2
  <2>3. Pending = line
    BY <1>1, <1>3 DEF Pending
  <2> QED
    BY <1>1, <1>3, <2>2, <2>3 DEF AnsweredInOrder
<1>7. CountsRequests'
  BY <1>1 DEF CountsRequests
<1> QED
  BY <1>5, <1>6, <1>7

(* A request that is done with is answered, and counted if it counts. *)
LEMMA RequestAnswered ==
    ASSUME OneshotInv, processRequest
    PROVE  OneshotInv'
<1> USE DEF OneshotInv
<1>1. /\ current # 0 /\ current' = 0 /\ handled' = Append(handled, current)
      /\ UNCHANGED <<input, next, lines, linesClosed, serve, transport, cancelled, errCh>>
  BY DEF processRequest, processVars
<1>2. Untaken' = Untaken /\ Answerable' = Answerable
  BY <1>1 DEF Untaken, Answerable
<1>3. /\ current \in Answerable /\ Untaken = current + 1 /\ Pending = current
      /\ \A i \in Answerable : i \in Nat
  <2>1. next \in Nat /\ \A i \in Answerable : i \in Nat
    BY LenProperties DEF Answerable, ReadsAhead
  <2> QED
    BY <1>1, <2>1 DEF ReadsAhead, Untaken, Pending
<1>4. ReadsAhead'
  BY <1>1 DEF ReadsAhead
<1>5. AnsweredInOrder'
  <2>1. Pending' = current + 1
    BY <1>1, <1>2, <1>3 DEF Pending
  <2>2. \A i \in Answerable : i < current + 1 <=> i < current \/ i = current
    BY <1>3
  <2>3. handled \in Seq(Nat) /\ current \in Nat
    BY <1>3 DEF AnsweredInOrder
  <2>4. /\ handled' \in Seq(Nat) /\ DOMAIN handled' = 1..Len(handled) + 1
        /\ DOMAIN handled = 1..Len(handled) /\ Len(handled) \in Nat
        /\ \A i \in DOMAIN handled : handled'[i] = handled[i]
        /\ handled'[Len(handled) + 1] = current
    BY <1>1, <2>3, AppendProperties, LenProperties
  <2>5. ToSet(handled') = ToSet(handled) \cup {current}
    BY <2>4 DEF ToSet
  <2>6. \A i \in DOMAIN handled : handled[i] < current
    BY <1>3 DEF AnsweredInOrder, ToSet
  <2>7. Increasing(handled')
    <3> SUFFICES ASSUME NEW i \in DOMAIN handled', NEW j \in DOMAIN handled', i < j
                 PROVE  handled'[i] < handled'[j]
      BY DEF Increasing
    <3>1. i \in DOMAIN handled /\ (j \in DOMAIN handled \/ j = Len(handled) + 1)
      BY <2>4
    <3> QED
      BY <2>4, <2>6, <3>1 DEF AnsweredInOrder, Increasing
  <2> QED
    BY <1>2, <1>3, <2>1, <2>2, <2>4, <2>5, <2>7 DEF AnsweredInOrder
<1>6. CountsRequests'
  BY <1>1, ServingAssumption
     DEF CountsRequests, processRequest, LimitReached, Returns, ServingAssumption
<1> QED
  BY <1>4, <1>5, <1>6

(* What the other steps of the transport do. *)
LEMMA OneshotKeeps ==
    ASSUME OneshotInv, StartOneshot \/ Scan \/ Send \/ Run \/ processRequest
    PROVE  OneshotInv'
<1> USE DEF OneshotInv
<1>1. CASE StartOneshot
  BY <1>1 DEF StartOneshot, ReadsAhead, AnsweredInOrder, CountsRequests, Answerable, Pending,
     Untaken, oneshotVars, processVars
<1>2. CASE Scan
  <2>1. Len(input.lines) \in Nat
    BY LenProperties DEF ReadsAhead
  <2>2. UNCHANGED <<input, next, lines, current, handled, processed, run, result, transport,
                    cancelled>>
    BY <1>2 DEF Scan, processVars
  <2>3. Untaken' = Untaken /\ Pending' = Pending /\ Answerable' = Answerable
    BY <2>2 DEF Untaken, Pending, Answerable
  <2>4. ReadsAhead'
    <3>1. ~linesClosed /\ transport = "oneshot"
      BY <1>2 DEF Scan, ReadsAhead, CountsRequests
    <3>2. CASE next <= Len(input.lines) /\ serve' = "send" /\ UNCHANGED linesClosed
      BY <2>2, <2>3, <3>1, <3>2 DEF ReadsAhead
    <3>3. CASE serve' = "done" /\ (next > Len(input.lines) \/ errCh' = <<"error">>)
      BY <2>2, <2>3, <3>1, <3>3 DEF ReadsAhead
    <3> QED
      BY <1>2, <3>2, <3>3 DEF Scan
  <2>5. AnsweredInOrder'
    BY <2>2, <2>3 DEF AnsweredInOrder
  <2>6. CountsRequests'
    BY <1>2, <2>2 DEF Scan, ReadsAhead, CountsRequests
  <2> QED
    BY <2>4, <2>5, <2>6
<1>3. CASE Send
  <2>0. Len(input.lines) \in Nat /\ next \in Nat
    BY LenProperties DEF ReadsAhead
  <2>1. /\ Untaken' = Untaken /\ Pending' = Pending /\ Answerable' = Answerable
        /\ handled' = handled
    <3>1. \/ lines = <<>> /\ lines' = <<next>> /\ next' = next + 1
          \/ UNCHANGED <<lines, next>>
      BY <1>3 DEF Send
    <3>2. Untaken' = Untaken
      <4>1. <<next>> # <<>> /\ (next + 1) - 1 = next
        BY <2>0
      <4> QED
        BY <3>1, <4>1 DEF Untaken
    <3>3. input' = input /\ handled' = handled /\ current' = current
      BY <1>3 DEF Send, processVars
    <3> QED
      BY <3>2, <3>3 DEF Answerable, Pending
  <2>2. ReadsAhead'
    BY <1>3, <2>0, <2>1 DEF Send, ReadsAhead, CountsRequests, processVars
  <2>3. AnsweredInOrder'
    BY <2>1 DEF AnsweredInOrder
  <2>4. CountsRequests'
    BY <1>3 DEF Send, ReadsAhead, CountsRequests, processVars
  <2> QED
    BY <2>2, <2>3, <2>4
<1>4. CASE Run
  <2>1. CASE /\ lines # <<>> /\ lines' = <<>>
             /\ current' = IF input.lines[lines[1]] = Blank THEN 0 ELSE lines[1]
             /\ UNCHANGED <<run, result>>
    BY <1>4, <2>1, RunTakes
  <2>2. CASE \/ cancelled /\ Returns("cancelled") /\ UNCHANGED <<lines, current>>
             \/ /\ lines = <<>> /\ linesClosed
                /\ Returns(IF errCh = <<>> THEN "nil" ELSE "error")
                /\ UNCHANGED <<lines, current>>
    BY <1>4, <2>2 DEF Run, Returns, ReadsAhead, AnsweredInOrder, CountsRequests, Answerable,
       Pending, Untaken, processVars
  <2> QED
    BY <1>4, <2>1, <2>2 DEF Run
<1>5. CASE processRequest
  BY <1>5, RequestAnswered
<1> QED
  BY <1>1, <1>2, <1>3, <1>4, <1>5

LEMMA OneshotInvKept == OneshotInv /\ [Next]_vars => OneshotInv'
<1> SUFFICES ASSUME OneshotInv, [Next]_vars PROVE OneshotInv'
  OBVIOUS
<1> USE DEF OneshotInv, ReadsAhead, AnsweredInOrder, CountsRequests, Answerable, Pending,
            Untaken, oneshotVars, processVars, runVars
<1>1. CASE StartOneshot \/ Scan \/ Send \/ Run \/ processRequest
  BY <1>1, OneshotKeeps
<1>2. CASE Signal \/ Main
  BY <1>2 DEF Signal, Main
<1>3. CASE StartStdio \/ Receive \/ ServeStdio \/ runStdio
  BY <1>3 DEF StartStdio, Receive, ServeStdio, runStdio, Returns
<1>4. CASE StartHTTP \/ Listen \/ Serve \/ ListenAndServe
  BY <1>4 DEF StartHTTP, Listen, Serve, ListenAndServe, Returns
<1>5. CASE Connect \/ Respond \/ Reload
  BY <1>5 DEF Connect, Respond, Reload
<1>6. CASE UNCHANGED vars
  BY <1>6 DEF vars
<1> QED
  BY <1>1, <1>2, <1>3, <1>4, <1>5, <1>6 DEF Next

(***************************************************************************)
(* However far the scanner reads ahead, and however many lines and         *)
(* requests there are: lines are answered in order, none twice and none    *)
(* left out, up to the limit (Run in oneshot.go).                          *)
(***************************************************************************)
THEOREM LinesAreAnswered == Spec => []AnswersFollowTheInput
<1>1. OneshotInv => AnswersFollowTheInput
  <2> SUFFICES ASSUME OneshotInv PROVE AnswersFollowTheInput
    OBVIOUS
  <2>1. /\ Increasing(handled) /\ ToSet(handled) = {i \in Answerable : i < Pending}
        /\ processed <= maxRequests /\ Pending \in Nat
        /\ \A i \in Answerable : i \in Nat /\ i <= Len(input.lines)
        /\ Len(input.lines) \in Nat
    BY ServingAssumption, LenProperties DEF OneshotInv, ReadsAhead, AnsweredInOrder, CountsRequests,
       Pending, Untaken, Answerable, ServingAssumption
  <2>2. ASSUME transport = "oneshot", result = "nil", ~cancelled, processed < maxRequests
        PROVE  ToSet(handled) = Answerable
    <3>1. Pending = next /\ next > Len(input.lines)
      BY <2>1, <2>2, ServingAssumption
         DEF OneshotInv, CountsRequests, ReadsAhead, Pending, Untaken, ServingAssumption
    <3> QED
      BY <2>1, <3>1
  <2>3. \A i \in ToSet(handled) : {j \in Answerable : j < i} \subseteq ToSet(handled)
    BY <2>1
  <2> QED
    BY <2>1, <2>2, <2>3 DEF AnswersFollowTheInput, Answerable, Increasing
<1> QED
  BY <1>1, OneshotInvInit, OneshotInvKept, PTL DEF Spec
================================================================================

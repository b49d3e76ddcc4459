------------------------------ MODULE CertReloader ------------------------------
(***************************************************************************)
(* The TLS certificate reloader (pkg/mcp/tls.go): handshakes find out, at  *)
(* most once per interval, whether the files have changed, and load them   *)
(* again.  Somebody else renews the two files.                             *)
(*                                                                         *)
(* The content of a file and its modification time are its version; a      *)
(* certificate and a key make a pair when their versions are equal.        *)
(***************************************************************************)
EXTENDS Integers, TLC

CONSTANTS Handshakes,     \* goroutines of the TLS connections
          Startup,        \* the goroutine of newCertReloader
          MaxVersion      \* bound on the renewals

ASSUME ReloaderAssumption == Startup \notin Handshakes /\ MaxVersion \in Nat

Threads == Handshakes \cup {Startup}

VARIABLES disk,      \* the versions of the two files
          cached,    \* the version of the certificate that is served, or 0
          times,     \* the modification times that were recorded with it
          due,       \* lastCheck is an interval ago
          mu,        \* the threads that hold the write lock: at most one
          threads,   \* what each thread is about to do, and what it has read
          raced      \* the files last changed between a load and its stats

reloaderVars == <<disk, cached, times, due, mu, threads, raced>>

Thread(pc) == [pc |-> pc, cert |-> 0, time |-> 0]

InitReloader ==
    /\ disk = [cert |-> 1, key |-> 1]
    /\ cached = 0 /\ times = [cert |-> 0, key |-> 0]
    /\ due = FALSE
    /\ mu = {}
    /\ threads = [t \in Threads |-> Thread("idle")]
    /\ raced = FALSE

At(t, pc) == threads[t].pc = pc
Go(t, pc) == threads' = [threads EXCEPT ![t] = Thread(pc)]
--------------------------------------------------------------------------------
\* reload of newCertReloader: a load without a look at the times.
newCertReloader ==
    /\ At(Startup, "idle") /\ cached = 0 /\ mu = {}
    /\ mu' = {Startup}
    /\ Go(Startup, "load")
    /\ UNCHANGED <<disk, cached, times, due, raced>>

\* GetCertificate reads lastCheck under the read lock.
GetCertificate(h) ==
    /\ At(h, "idle") /\ cached # 0 /\ mu = {} /\ due
    /\ Go(h, "maybeReload")
    /\ UNCHANGED <<disk, cached, times, due, mu, raced>>

\* lastCheck moves before the files are looked at.
maybeReload(h) ==
    /\ At(h, "maybeReload") /\ mu = {}
    /\ due' = FALSE
    /\ \/ /\ due
          /\ \/ disk # times /\ mu' = {h} /\ Go(h, "load")
             \/ Go(h, "idle") /\ UNCHANGED mu       \* no change, or stat failed
       \/ ~due /\ Go(h, "idle") /\ UNCHANGED mu
    /\ UNCHANGED <<disk, cached, times, raced>>

\* LoadX509KeyPair reads one file after the other.
LoadCert(t) ==
    /\ At(t, "load")
    /\ threads' = [threads EXCEPT ![t].pc = "loadKey", ![t].cert = disk.cert]
    /\ UNCHANGED <<disk, cached, times, due, mu, raced>>

\* A fault: the times are recorded even if the load fails.
FailedTimesKept == times' = disk

\* A failed load leaves what is cached, and is tried again an interval later.
FailedTimes == UNCHANGED times

Fails(t) ==
    /\ mu' = {}
    /\ Go(t, "idle")
    /\ FailedTimes
    /\ UNCHANGED <<disk, cached, due, raced>>

LoadKey(t) ==
    /\ At(t, "loadKey")
    /\ \/ /\ threads[t].cert = disk.key
          /\ threads' = [threads EXCEPT ![t].pc = "stat"]
          /\ UNCHANGED <<disk, cached, times, due, mu, raced>>
       \/ threads[t].cert # disk.key /\ Fails(t)

StatCert(t) ==
    /\ At(t, "stat")
    /\ threads' = [threads EXCEPT ![t].pc = "statKey", ![t].time = disk.cert]
    /\ UNCHANGED <<disk, cached, times, due, mu, raced>>

\* The times are those of the files after the load.
Store(t) ==
    /\ At(t, "statKey")
    /\ cached' = threads[t].cert
    /\ times' = [cert |-> threads[t].time, key |-> disk.key]
    /\ due' = FALSE
    /\ mu' = {}
    /\ Go(t, "idle")
    /\ UNCHANGED <<disk, raced>>

\* A file that is missing for a moment fails any step of the reload.
Unreadable(t) ==
    /\ \E pc \in {"load", "loadKey", "stat", "statKey"} : At(t, pc)
    /\ Fails(t)
--------------------------------------------------------------------------------
\* The files are renewed together, as by the swap of a volume, or one by one.
Renew(files) ==
    /\ \A f \in files : disk[f] < MaxVersion /\ \A g \in DOMAIN disk : disk[f] <= disk[g]
    /\ disk' = [f \in DOMAIN disk |-> IF f \in files THEN disk[f] + 1 ELSE disk[f]]
    /\ raced' = \E t \in Threads : At(t, "stat") \/ At(t, "statKey")
    /\ UNCHANGED <<cached, times, due, mu, threads>>

IntervalPasses ==
    /\ ~due
    /\ due' = TRUE
    /\ UNCHANGED <<disk, cached, times, mu, threads, raced>>

ReloadSteps ==
    \/ \E t \in Threads :
          LoadCert(t) \/ LoadKey(t) \/ StatCert(t) \/ Store(t) \/ Unreadable(t)
    \/ \E h \in Handshakes : maybeReload(h)
    \/ \E files \in (SUBSET DOMAIN disk) \ {{}} : Renew(files)
    \/ IntervalPasses

ReloaderNext ==
    \/ newCertReloader
    \/ \E h \in Handshakes : GetCertificate(h)
    \/ ReloadSteps

ReloaderSpec == InitReloader /\ [][ReloaderNext]_reloaderVars
--------------------------------------------------------------------------------
(***************************************************************************)
(* A complete renewal is never forgotten, whichever loads fail in between: *)
(* while no thread reloads, a pair whose times are recorded is the pair    *)
(* that is served.  The one exception is a renewal between a load and the  *)
(* stats behind it (tls.go:137).                                           *)
(***************************************************************************)
OnlyTheStatRaceLosesARenewal ==
    mu = {} /\ ~raced /\ disk.cert = disk.key /\ times = disk => cached = disk.cert
================================================================================

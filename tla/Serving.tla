-------------------------------- MODULE Serving --------------------------------
(***************************************************************************)
(* The agent process (cmd/agent/main.go) and the three ways its MCP server *)
(* runs (pkg/mcp): on standard input and output, on them for a number of   *)
(* requests (oneshot.go), or over HTTP with TLS (http.go, CertReloader).   *)
(* A signal may stop it at any time.                                       *)
(***************************************************************************)
EXTENDS CertReloader, Sequences, SequencesExt

CONSTANTS maxRequests,    \* -oneshot
          MaxLines,       \* bound on the input
          MaxInFlight     \* bound on the requests handled at once

ASSUME ServingAssumption ==
    maxRequests \in Nat \ {0} /\ MaxLines \in Nat /\ MaxInFlight \in Nat

Blank == "blank"
Bad == "bad"              \* not JSON
Request == "request"

VARIABLES transport,
          signalled,
          main,           \* what main waits for: any event, the end of Run, nothing
          cancelled,      \* ctx
          run,            \* where Run is
          result,         \* what Run returned
          serve,          \* the goroutine of Run: it serves, or scans the input
          errCh,          \* the error of that goroutine: sent, or kept by the scanner
          input,          \* the lines standard input holds, and whether it ends
          next,           \* the line the scanner reads next
          lines,          \* the channel: numbers of lines
          linesClosed,
          current,        \* the line whose request is being handled, 0 if none
          handled,        \* the numbers of the lines that were handled
          processed,
          inFlight        \* requests being handled, over HTTP and by ServeStdio

oneshotVars == <<next, lines, linesClosed, current, handled, processed>>
processVars == <<transport, signalled, main, cancelled, input>>
runVars == <<run, result, serve, errCh, inFlight>>
vars == <<processVars, runVars, oneshotVars, reloaderVars>>

Init ==
    /\ transport \in {"stdio", "oneshot", "http"}
    /\ signalled = FALSE
    /\ main = "select" /\ cancelled = FALSE
    /\ run = "start" /\ result = "none"
    /\ serve = "none" /\ errCh = <<>>
    /\ input \in [lines : IF transport = "oneshot"
                          THEN BoundedSeq({Blank, Bad, Request}, MaxLines) ELSE {<<>>},
                  ends : BOOLEAN]
    /\ next = 1 /\ lines = <<>> /\ linesClosed = FALSE
    /\ current = 0 /\ handled = <<>> /\ processed = 0
    /\ inFlight = 0
    /\ InitReloader

Returns(r) == run' = "returned" /\ result' = r
--------------------------------------------------------------------------------
\* main: the select, then the wait for Run after a signal.
Signal ==
    /\ ~signalled
    /\ signalled' = TRUE
    /\ UNCHANGED <<transport, main, cancelled, input, runVars, oneshotVars, reloaderVars>>

Main ==
    /\ \/ main = "select" /\ signalled /\ main' = "wait" /\ cancelled' = TRUE
       \/ run = "returned" /\ main' = "exited" /\ UNCHANGED cancelled
    /\ UNCHANGED <<transport, signalled, input, runVars, oneshotVars, reloaderVars>>
--------------------------------------------------------------------------------
\* runStdio.  ServeStdio ends with its input, which runStdio closes after a
\* signal, or with an error, and not before the requests it has taken are
\* handled; only an error is sent.
StartStdio ==
    /\ transport = "stdio" /\ run = "start"
    /\ run' = "serving" /\ serve' = "serving"
    /\ UNCHANGED <<result, errCh, inFlight, processVars, oneshotVars, reloaderVars>>

Receive ==
    /\ transport = "stdio" /\ run = "serving" /\ serve = "serving"
    /\ inFlight < MaxInFlight
    /\ inFlight' = inFlight + 1
    /\ UNCHANGED <<run, result, serve, errCh, processVars, oneshotVars, reloaderVars>>

ServeStdio ==
    /\ transport = "stdio" /\ serve = "serving"
    /\ inFlight = 0
    /\ serve' = "done"
    /\ \/ (input.ends \/ run = "drain") /\ UNCHANGED errCh
       \/ errCh' = <<"error">>
    /\ UNCHANGED <<run, result, inFlight, processVars, oneshotVars, reloaderVars>>

runStdio ==
    /\ transport = "stdio"
    /\ \/ run = "serving" /\ cancelled /\ run' = "drain" /\ UNCHANGED <<result, errCh>>
       \/ run = "serving" /\ errCh # <<>> /\ Returns("error") /\ errCh' = <<>>
       \/ run = "drain" /\ serve = "done" /\ Returns("nil") /\ errCh' = <<>>
    /\ UNCHANGED <<serve, inFlight, processVars, oneshotVars, reloaderVars>>
--------------------------------------------------------------------------------
\* OneshotTransport.Run: the scanner keeps a line in hand and one in the channel.
StartOneshot ==
    /\ transport = "oneshot" /\ run = "start"
    /\ run' = "serving" /\ serve' = "scan"
    /\ UNCHANGED <<result, errCh, inFlight, processVars, oneshotVars, reloaderVars>>

\* It stops at the end of the input, or at a line that it cannot read.
Scan ==
    /\ serve = "scan"
    /\ \/ /\ next <= Len(input.lines)
          /\ serve' = "send"
          /\ UNCHANGED <<linesClosed, errCh>>
       \/ /\ next > Len(input.lines) /\ input.ends
          /\ serve' = "done" /\ linesClosed' = TRUE
          /\ UNCHANGED errCh
       \/ serve' = "done" /\ linesClosed' = TRUE /\ errCh' = <<"error">>
    /\ UNCHANGED <<next, lines, current, handled, processed, run, result, inFlight,
                   processVars, reloaderVars>>

Send ==
    /\ serve = "send"
    /\ \/ /\ lines = <<>>
          /\ lines' = <<next>> /\ next' = next + 1
          /\ serve' = "scan"
          /\ UNCHANGED linesClosed
       \/ /\ cancelled
          /\ serve' = "done" /\ linesClosed' = TRUE
          /\ UNCHANGED <<lines, next>>
    /\ UNCHANGED <<current, handled, processed, run, result, errCh, inFlight, processVars,
                   reloaderVars>>

\* A fault: one request too many.
LimitOneMore(count) == count > maxRequests

LimitReached(count) == count >= maxRequests

\* The select of the loop: the cancelled context, the next line, or the end of
\* the lines.  A blank line is skipped.
Run ==
    /\ transport = "oneshot" /\ run = "serving" /\ current = 0
    /\ \/ cancelled /\ Returns("cancelled") /\ UNCHANGED <<lines, current>>
       \/ /\ lines # <<>> /\ lines' = <<>>
          /\ current' = IF input.lines[lines[1]] = Blank THEN 0 ELSE lines[1]
          /\ UNCHANGED <<run, result>>
       \/ /\ lines = <<>> /\ linesClosed
          /\ Returns(IF errCh = <<>> THEN "nil" ELSE "error")
          /\ UNCHANGED <<lines, current>>
    /\ UNCHANGED <<next, linesClosed, handled, processed, serve, errCh, inFlight, processVars,
                   reloaderVars>>

\* The loop goes on when the request is handled and its answer written, which may
\* be never.  A line that is not JSON, and an answer that cannot be written, do
\* not count.
processRequest ==
    /\ current # 0
    /\ current' = 0
    /\ handled' = Append(handled, current)
    /\ \/ input.lines[current] = Request /\ processed' = processed + 1
       \/ UNCHANGED processed
    /\ IF LimitReached(processed') THEN Returns("nil") ELSE UNCHANGED <<run, result>>
    /\ UNCHANGED <<next, lines, linesClosed, serve, errCh, inFlight, processVars, reloaderVars>>
--------------------------------------------------------------------------------
\* ListenAndServe: the certificate and the listener first.
StartHTTP ==
    /\ transport = "http" /\ run = "start"
    /\ newCertReloader
    /\ run' = "certificate"
    /\ UNCHANGED <<result, serve, errCh, inFlight, processVars, oneshotVars>>

Listen ==
    /\ run = "certificate" /\ At(Startup, "idle")
    /\ \/ cached # 0 /\ run' = "serving" /\ serve' = "serving" /\ UNCHANGED result
       \/ Returns("error") /\ UNCHANGED serve
    /\ UNCHANGED <<errCh, inFlight, processVars, oneshotVars, reloaderVars>>

Serve ==
    /\ transport = "http" /\ serve = "serving"
    /\ serve' = "done"
    /\ errCh' = IF run = "grace" THEN <<>> ELSE <<"error">>
    /\ UNCHANGED <<run, result, inFlight, processVars, oneshotVars, reloaderVars>>

\* A fault: Shutdown waits for the requests however long they take.
GraceEndsNever == FALSE

\* The ten seconds of Shutdown.
GraceEnds == TRUE

ListenAndServe ==
    /\ transport = "http"
    /\ \/ run = "serving" /\ cancelled /\ run' = "grace" /\ UNCHANGED result
       \/ run = "serving" /\ errCh # <<>> /\ Returns("error")
       \/ run = "grace" /\ inFlight = 0 /\ Returns("nil")
       \/ run = "grace" /\ GraceEnds /\ Returns("error")
    /\ UNCHANGED <<serve, errCh, inFlight, processVars, oneshotVars, reloaderVars>>

\* The certificate is read under the read lock.
Connect ==
    /\ run = "serving" /\ serve = "serving" /\ transport = "http"
    /\ \/ \E h \in Handshakes : GetCertificate(h) /\ UNCHANGED inFlight
       \/ /\ mu = {} /\ inFlight < MaxInFlight /\ inFlight' = inFlight + 1
          /\ UNCHANGED reloaderVars
    /\ UNCHANGED <<run, result, serve, errCh, processVars, oneshotVars>>

Respond ==
    /\ inFlight > 0
    /\ inFlight' = inFlight - 1
    /\ UNCHANGED <<run, result, serve, errCh, processVars, oneshotVars, reloaderVars>>
--------------------------------------------------------------------------------
Reload ==
    /\ transport = "http" /\ ReloadSteps
    /\ UNCHANGED <<processVars, runVars, oneshotVars>>

LoadsAtStartup ==
    /\ \/ LoadCert(Startup) \/ LoadKey(Startup) \/ StatCert(Startup) \/ Store(Startup)
    /\ UNCHANGED <<processVars, runVars, oneshotVars>>

Next ==
    /\ main # "exited"
    /\ \/ Signal \/ Main
       \/ StartStdio \/ Receive \/ ServeStdio \/ runStdio
       \/ StartOneshot \/ Scan \/ Send \/ Run \/ processRequest
       \/ StartHTTP \/ Listen \/ Serve \/ ListenAndServe \/ Connect \/ Respond
       \/ Reload

\* Goroutines are scheduled, and ServeStdio, once its input is closed, notices.
\* Nothing is assumed of a request: a tool may never return (Respond and
\* processRequest), and nobody need send anything.
Fairness ==
    /\ WF_vars(Main) /\ WF_vars(StartStdio) /\ WF_vars(StartOneshot) /\ WF_vars(StartHTTP)
    /\ WF_vars(run = "drain" /\ ServeStdio) /\ WF_vars(runStdio) /\ WF_vars(Run)
    /\ WF_vars(LoadsAtStartup) /\ WF_vars(Listen) /\ WF_vars(ListenAndServe)

Spec == Init /\ [][Next]_vars /\ Fairness
--------------------------------------------------------------------------------
Handling == current # 0 \/ inFlight # 0

(***************************************************************************)
(* Once it has received a signal, the agent exits, whichever error comes   *)
(* at the same time (main.go:285).  Over HTTP it does so however long a    *)
(* request takes, for Shutdown gives up after ten seconds; on standard     *)
(* input only if no request is handled for ever, because both transports   *)
(* wait for the one they have taken (oneshot.go:179, server.go:330).       *)
(***************************************************************************)
SignalStopsTheAgent ==
    transport = "http" \/ []<>~Handling => (signalled ~> main = "exited")

(***************************************************************************)
(* The one-shot transport answers the lines of its input in their order    *)
(* and each at most once, although another goroutine reads ahead; no more  *)
(* than it was asked for; and, when it ends before that and was neither    *)
(* cancelled nor unable to read on, all of them (oneshot.go:108).          *)
(***************************************************************************)
AnswersFollowTheInput ==
    LET answerable == {i \in DOMAIN input.lines : input.lines[i] # Blank}
        answered == ToSet(handled)
    IN  /\ \A i, j \in DOMAIN handled : i < j => handled[i] < handled[j]
        /\ answered \subseteq answerable
        /\ \A i \in answered : {j \in answerable : j < i} \subseteq answered
        /\ processed <= maxRequests
        /\ transport = "oneshot" /\ result = "nil" /\ ~cancelled /\ processed < maxRequests
              => answered = answerable
================================================================================

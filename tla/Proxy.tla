--------------------------------- MODULE Proxy ---------------------------------
(***************************************************************************)
(* What a proxy handler makes of the agents' answers (pkg/gateway/proxy.go *)
(* and framing.go): cutting the output of a one-shot agent into messages,  *)
(* reading the tool's result, and aggregating the results of all nodes.    *)
(*                                                                         *)
(* Text matters to SplitJSONObjects alone.  It is a sequence of the        *)
(* characters it tells apart; "x" stands for every other one.              *)
(***************************************************************************)
EXTENDS Integers, SequencesExt

Char == {"open", "close", "quote", "backslash", "space", "x"}

TrimSpace(text) ==
    LET ink == {i \in DOMAIN text : text[i] # "space"}
    IN  IF ink = {} THEN <<>> ELSE SubSeq(text, Min(ink), Max(ink))

\* A fault: backslashes escape nothing.
ScanUnescaped(s, b) ==
    LET read == [s EXCEPT !.current = Append(@, b)]
        depth == s.depth + (IF b = "open" THEN 1 ELSE IF b = "close" THEN -1 ELSE 0)
    IN  IF b = "quote" THEN [read EXCEPT !.inString = ~@]
        ELSE IF s.inString THEN read
        ELSE IF b = "close" /\ depth = 0
             THEN [read EXCEPT !.depth = 0, !.current = <<>>,
                               !.objects = Append(@, TrimSpace(read.current))]
        ELSE [read EXCEPT !.depth = depth]

\* One round of the loop over the bytes of the data.
Scan(s, b) ==
    LET read == [s EXCEPT !.current = Append(@, b)]
        depth == s.depth + (IF b = "open" THEN 1 ELSE IF b = "close" THEN -1 ELSE 0)
    IN  IF s.escaped THEN [read EXCEPT !.escaped = FALSE]
        ELSE IF b = "backslash" /\ s.inString THEN [read EXCEPT !.escaped = TRUE]
        ELSE IF b = "quote" THEN [read EXCEPT !.inString = ~@]
        ELSE IF s.inString THEN read
        ELSE IF b = "close" /\ depth = 0
             THEN [read EXCEPT !.depth = 0, !.current = <<>>,
                               !.objects = Append(@, TrimSpace(read.current))]
        ELSE [read EXCEPT !.depth = depth]

SplitJSONObjects(data) ==
    FoldLeft(Scan, [objects |-> <<>>, current |-> <<>>, depth |-> 0,
                    inString |-> FALSE, escaped |-> FALSE], data).objects

\* BuildMCPRequest and one-shot agents end every message with a newline.
Framed(texts) == FlattenSeq([i \in DOMAIN texts |-> Append(texts[i], "space")])
--------------------------------------------------------------------------------
(***************************************************************************)
(* An answer is the sequence of its messages.  A message is "noise" (text  *)
(* without braces), "rpc_error", "tool_error", "empty" (a result without   *)
(* content), or the value that its content holds.                          *)
(***************************************************************************)
Failure == [error |-> TRUE]
Nothing == [nothing |-> TRUE]

ToolResult(message) ==
    CASE message.kind \in {"noise", "rpc_error", "tool_error"} -> Failure
      [] message.kind = "empty" -> Nothing
      [] message.kind = "value" -> message.value

\* A single message; two messages in a row are not a JSON text.
ParseHTTPResponse(response) ==
    IF Len(response) # 1 THEN Failure ELSE ToolResult(response[1])

\* The last object of several: the one before it answers "initialize".  Noise in
\* front of an object is cut out with it, and the two are not a JSON text.
ParseStdioResponse(response) ==
    LET objects == {i \in DOMAIN response : response[i].kind # "noise"}
        lastObj == Max(objects)
    IN  IF objects = {} THEN Failure
        ELSE IF lastObj > 1 /\ lastObj - 1 \notin objects THEN Failure
        ELSE ToolResult(response[lastObj])

\* An error of the agent becomes data of the answer.
parseToolResponse(response) ==
    IF ParseHTTPResponse(response) # Failure
    THEN ParseHTTPResponse(response)
    ELSE ParseStdioResponse(response)
--------------------------------------------------------------------------------
\* A result of the router has the node, whether it failed, and the response.
aggregateDefault(results) ==
    LET errors == Quantify(DOMAIN results, LAMBDA i : results[i].failed)
        successes == Len(results) - errors
    IN  [status |-> IF errors > 0 /\ successes = 0 THEN "error"
                    ELSE IF errors > 0 THEN "partial" ELSE "success",
         node_count |-> Len(results),
         success_count |-> successes, error_count |-> errors,
         nodes |-> [i \in DOMAIN results |->
                      [name |-> results[i].node, failed |-> results[i].failed,
                       data |-> IF results[i].failed THEN Nothing
                                ELSE parseToolResponse(results[i].response)]]]

(***************************************************************************)
(* What the API server says of a node: its GPUs, and its pods with the     *)
(* GPUs they request; `found` and `listed` say whether the two queries     *)
(* succeed.                                                                *)
(***************************************************************************)
Ended == {"Succeeded", "Failed"}

\* A fault: pods that have ended keep their GPUs.
getNodeGPUAllocationEver(k) == SumFunction([pod \in k.pods |-> pod.gpus])

getNodeGPUAllocation(k) ==
    SumFunction([pod \in {p \in k.pods : p.status \notin Ended} |-> pod.gpus])

getNodeK8sMetadata(k) ==
    [capacity |-> k.capacity, allocatable |-> k.allocatable,
     allocated |-> IF k.listed THEN getNodeGPUAllocation(k)
                   ELSE k.capacity - k.allocatable]

\* The devices of an inventory, none when the response is anything else.
Devices(response) ==
    LET inventory == parseToolResponse(response)
    IN  IF "devices" \in DOMAIN inventory THEN inventory.devices ELSE <<>>

\* cluster: what the API server says of each node; wanted: include_k8s_metadata.
aggregateGPUInventory(results, cluster, wanted) ==
    LET Ready == {i \in DOMAIN results : ~results[i].failed}
        Known == {i \in DOMAIN results : wanted /\ cluster[results[i].node].found}
        Meta(i) == getNodeK8sMetadata(cluster[results[i].node])
        allocatable == SumFunction([i \in Known |-> Meta(i).allocatable])
        allocated == SumFunction([i \in Known |-> Meta(i).allocated])
    IN  [total_nodes |-> Len(results),
         ready_nodes |-> Cardinality(Ready),
         total_gpus |-> SumFunction([i \in Ready |-> Len(Devices(results[i].response))]),
         gpu_types |-> UNION {ToSet(Devices(results[i].response)) : i \in Ready},
         capacity |-> SumFunction([i \in Known |-> Meta(i).capacity]),
         allocatable |-> allocatable,
         allocated |-> allocated,
         available |-> allocatable - allocated]

(***************************************************************************)
(* Handle: the rate limiter, the route (failed when no node answered) and  *)
(* the aggregation of its results.                                         *)
(***************************************************************************)
Limited == [status |-> "rate limited"]
Unrouted == [status |-> "failed to route"]

Handle(tool, allowed, routed, results, cluster, wanted) ==
    IF ~allowed THEN Limited
    ELSE IF ~routed THEN Unrouted
    ELSE IF tool = "get_gpu_inventory"
         THEN aggregateGPUInventory(results, cluster, wanted)
    ELSE aggregateDefault(results)
================================================================================

----------------------------- MODULE McpServer ------------------------------
(* The MCP server Claude Code starts (internal/claudeactor, mcp.go): one connection's    *)
(* tool calls, each forwarded once to the actor's bridge, and answered again from its    *)
(* record when its request id is used again. Which replies are kept is bounded, which    *)
(* ids were used is not forgotten.                                                       *)
EXTENDS Naturals, Sequences, FiniteSets, FiniteSetsExt

CONSTANTS CallIds, Inputs, NoInput,
          MaxInFlight, MaxRecorded, MaxConnection,  \* maxMCPInFlight, maxRecordedCalls, maxConnectionCalls
          MaxMessages                               \* bound: messages on the connection

ASSUME McpAssumption == NoInput \notin Inputs

VARIABLES
    calls,      \* calls: each request id's input, whether it is done, and its result
    completed,  \* completed: ids whose full reply is kept, oldest first
    dispatches, \* dispatches of each id still under way: how far each got
    waiting,    \* used-again ids waiting for their record
    replies,    \* what was replied to each id
    sent,       \* how often each id was dispatched
    reached,    \* ids whose request the bridge has
    messages    \* messages so far, for MaxMessages

mcpVars == <<calls, completed, dispatches, waiting, replies, sent, reached, messages>>

NoCall == [input |-> NoInput, result |-> "none"]

McpTypeOK ==
    /\ \A i \in CallIds : calls[i].input \in Inputs \cup {NoInput}
    /\ dispatches \in [CallIds -> {"none", "dial", "written"}] /\ reached \subseteq CallIds
    /\ Len(completed) <= MaxRecorded

McpInit ==
    /\ calls = [i \in CallIds |-> NoCall] /\ completed = <<>> /\ dispatches = [i \in CallIds |-> "none"]
    /\ waiting = [i \in CallIds |-> 0] /\ replies = [i \in CallIds |-> {}] /\ sent = [i \in CallIds |-> 0]
    /\ reached = {} /\ messages = 0

InFlight == Cardinality({i \in CallIds : dispatches[i] # "none"}) + MapThenSumSet(LAMBDA i : waiting[i], CallIds)
Known == {i \in CallIds : calls[i].input # NoInput}

\* ServeMCPController: the id was used before on this connection.
Reused(i) == i \in Known

\* tools/call: refused when too many are in flight, when the id's input differs or the history
\* is full; used again it waits for the one outcome; new, it is recorded and dispatched.
ToolsCall(i, input) ==
    /\ messages < MaxMessages /\ messages' = messages + 1
    /\ IF InFlight >= MaxInFlight \/ (Reused(i) /\ calls[i].input # input) \/ (~Reused(i) /\ Cardinality(Known) >= MaxConnection)
         THEN UNCHANGED <<calls, waiting, dispatches, sent>>
         ELSE IF Reused(i)
           THEN waiting' = [waiting EXCEPT ![i] = @ + 1] /\ UNCHANGED <<calls, dispatches, sent>>
           ELSE /\ calls' = [calls EXCEPT ![i] = [input |-> input, result |-> "none"]]
                /\ dispatches' = [dispatches EXCEPT ![i] = "dial"] /\ sent' = [sent EXCEPT ![i] = @ + 1]
                /\ UNCHANGED waiting
    /\ UNCHANGED <<completed, replies, reached>>

\* Forward: the whole request is written, and the bridge may have it from then on, also when
\* nobody waits for its reply any more.
ForwardWrites(i) ==
    /\ dispatches[i] = "dial" /\ dispatches' = [dispatches EXCEPT ![i] = "written"]
    /\ UNCHANGED <<calls, completed, waiting, replies, sent, reached, messages>>
BridgeReads(i) ==
    /\ dispatches[i] = "written" \/ "uncertain" \in replies[i]
    /\ i \notin reached /\ reached' = reached \cup {i}
    /\ UNCHANGED <<calls, completed, dispatches, waiting, replies, sent, messages>>

\* Forward: not delivered before the write, uncertain after it unless a reply comes.
Forwarded(i) == IF dispatches[i] = "dial" THEN {"undelivered"} ELSE {"uncertain"} \cup (IF i \in reached THEN {"answer"} ELSE {})

\* The outcome is recorded and replied; the oldest full reply over the bound is dropped.
CompleteCall(i, r) ==
    /\ dispatches[i] # "none" /\ r \in Forwarded(i)
    /\ LET kept == Append(completed, i)
           over == Len(kept) > MaxRecorded
       IN /\ completed' = IF over THEN Tail(kept) ELSE kept
          /\ calls' = [j \in CallIds |-> CASE over /\ j = Head(kept) -> [calls[j] EXCEPT !.result = "evicted"]
                                           [] ~(over /\ j = Head(kept)) /\ j = i -> [calls[j] EXCEPT !.result = r]
                                           [] OTHER -> calls[j]]
    /\ dispatches' = [dispatches EXCEPT ![i] = "none"]
    /\ replies' = [replies EXCEPT ![i] = @ \cup {r}]
    /\ UNCHANGED <<waiting, sent, reached, messages>>

\* A used-again id is answered with what its record says now.
Repeat(i) ==
    /\ waiting[i] > 0 /\ calls[i].result # "none" /\ waiting' = [waiting EXCEPT ![i] = @ - 1]
    /\ replies' = [replies EXCEPT ![i] = @ \cup {calls[i].result}]
    /\ UNCHANGED <<calls, completed, dispatches, sent, reached, messages>>

McpNext ==
    \E i \in CallIds :
        \/ \E input \in Inputs : ToolsCall(i, input)
        \/ ForwardWrites(i) \/ BridgeReads(i) \/ Repeat(i)
        \/ \E r \in {"undelivered", "uncertain", "answer"} : CompleteCall(i, r)

\* A call has one outcome however often its id is used: it is dispatched once, its replies
\* agree or say that the outcome is no longer kept, and it is called undelivered only if the
\* bridge never had it (Forward: "which invites a resend that would duplicate the effect").
OneOutcome ==
    \A i \in CallIds :
        /\ sent[i] <= 1 /\ Cardinality(replies[i] \ {"evicted"}) <= 1
        /\ "undelivered" \in replies[i] => i \notin reached
=============================================================================

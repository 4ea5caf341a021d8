------------------------------ MODULE MCGuests ------------------------------
(* The protocols at a guest's edge, which share no state with one another: its coding    *)
(* actors and their tool calls, its mail, its qualification, the provider's fence, the    *)
(* clients that call the services, its registry, packages and base.                      *)
EXTENDS Calls, ProviderFence, CodexSeat, ClaudeActor, McpServer, MailChannel, QualPhase,
        InstallTrace, PackageCache, BaseImages

CONSTANT Part   \* the parts explored
VARIABLE part

vars == <<part, callVars, fenceVars, seatVars, claudeVars, mcpVars, mailVars, qualVars,
          traceVars, cacheVars, baseVars>>
Init ==
    /\ part \in Part /\ CallsInit /\ FenceInit /\ SeatInit /\ ActorInit /\ McpInit /\ MailInit /\ QualInit
    /\ TraceInit /\ CacheInit /\ BaseInit
    /\ part = "calls" \/ style = CHOOSE s \in Styles : TRUE
Next ==
    /\ UNCHANGED part
    /\ IF part = "calls" THEN CallsNext ELSE UNCHANGED callVars
    /\ IF part = "fence" THEN FenceNext ELSE UNCHANGED fenceVars
    /\ IF part = "seat" THEN SeatNext ELSE UNCHANGED seatVars
    /\ IF part = "actor" THEN ActorNext ELSE UNCHANGED claudeVars
    /\ IF part = "mcp" THEN McpNext ELSE UNCHANGED mcpVars
    /\ IF part = "mail" THEN MailNext ELSE UNCHANGED mailVars
    /\ IF part = "phase" THEN QualNext ELSE UNCHANGED qualVars
    /\ IF part = "trace" THEN TraceNext ELSE UNCHANGED traceVars
    /\ IF part = "cache" THEN CacheNext ELSE UNCHANGED cacheVars
    /\ IF part = "base" THEN BaseNext ELSE UNCHANGED baseVars
Spec == Init /\ [][Next]_vars
TypeOK ==
    /\ CallsTypeOK /\ FenceTypeOK /\ SeatTypeOK /\ ActorTypeOK /\ McpTypeOK /\ MailTypeOK /\ QualTypeOK
    /\ TraceTypeOK /\ CacheTypeOK /\ BaseTypeOK
\* The names of each part are of two kinds, interchangeable within each.
Symmetric == Permutations(Clients) \cup Permutations(Bindings)

\* ClaudeActor and McpServer: a tool call is put to the controller once, by whichever way
\* it comes, has one outcome, and does not outlive its turn.
ToolCallsOnce == AskedOnce /\ NoneOutlivesTurn /\ OneOutcome

\* QualPhase and InstallTrace: a qualification's terminal record, and its verdict on the
\* install's progress, are what happened.
QualificationTrue == TerminalTrue /\ ProgressTrue

\* PackageCache and BaseImages: what a guest is given from a cache or a base is what the
\* digest that stands for it says, although most uses do not hash it again.
ArtifactsTrue == AnsweredTrue /\ BaseTrue
=============================================================================

---------------------------- MODULE ClaudeActor -----------------------------
(* The Claude Code actor (internal/claudeactor): turns on one session that may move from *)
(* one process to the next, the stream each process writes, and the bridge over which    *)
(* its tool calls are put to the controller. A bridge request may also be made up by     *)
(* the coding user.                                                                      *)
EXTENDS Naturals, Sequences, FiniteSets

CONSTANTS Queries,      \* bridge requests
          MaxWaiting,   \* maxBridgeWaiting
          MaxTurns, MaxProcs, MaxUses   \* bounds

ASSUME ActorAssumption == MaxTurns \in Nat /\ MaxProcs \in Nat /\ MaxUses \in Nat

VARIABLES
    proc,       \* a.proc: the session's process, 0 for none
    turn,       \* a.turn, 0 for none
    begun,      \* a.started
    halted,     \* a.interrupt
    lost,       \* a.err: the actor is done
    badAuth,    \* a.authFailed
    toolUses,   \* a.toolUses: each known tool call, asked about or not
    process,    \* each process: its life, the turn it works on, its output not read yet
    emit,       \* what each process's reader is about to report
    query,      \* each bridge request
    reports,    \* the broker's view: each turn's started and completed reports
    active,     \* the turn the broker waits for
    raised,     \* requests the broker has recorded and not answered
    answered,   \* requests the controller accepted
    turnsMade, procsMade, usesMade  \* counters, for the bounds

claudeVars == <<proc, turn, begun, halted, lost, badAuth, toolUses, process, emit, query, reports, active, raised, answered, turnsMade, procsMade, usesMade>>
stateVars == <<proc, turn, begun, halted, lost, badAuth, toolUses>>
brokerVars == <<reports, active, raised, answered>>
counters == <<turnsMade, procsMade, usesMade>>

Turns == 1..MaxTurns
Procs == 1..MaxProcs
Uses == 1..MaxUses
NoProcess == [life |-> "none", turn |-> 0, out |-> <<>>]
NoQuery == [pc |-> "none", kind |-> "none", use |-> 0, at |-> 0, decision |-> "none"]
NoEmit == [what |-> "none", turn |-> 0]
Line(kind, t, u) == [kind |-> kind, turn |-> t, use |-> u]

ActorTypeOK ==
    /\ proc \in 0..MaxProcs /\ turn \in 0..MaxTurns /\ toolUses \in [Uses -> {"none", "seen", "asked"}]
    /\ \A p \in Procs : process[p].life \in {"none", "idle", "busy", "gone"}
    /\ \A q \in Queries : query[q].pc \in {"none", "bind", "raise", "wait", "allowed", "denied"}

ActorInit ==
    /\ proc = 0 /\ turn = 0 /\ begun = FALSE /\ halted = FALSE /\ lost = FALSE /\ badAuth = FALSE
    /\ toolUses = [u \in Uses |-> "none"] /\ process = [p \in Procs |-> NoProcess] /\ emit = [p \in Procs |-> NoEmit]
    /\ query = [q \in Queries |-> NoQuery] /\ reports = [t \in Turns |-> <<>>] /\ active = 0
    /\ raised = {} /\ answered = {} /\ turnsMade = 0 /\ procsMade = 0 /\ usesMade = 0

(******************************* the broker's calls *********************************)
\* startThread, resumeThread, launch: a process of the session.
StartThread ==
    /\ proc = 0 /\ ~lost /\ procsMade = 0
    /\ procsMade' = 1 /\ proc' = 1 /\ process' = [process EXCEPT ![1].life = "idle"]
    /\ UNCHANGED <<turn, begun, halted, lost, badAuth, toolUses, emit, query, brokerVars, turnsMade, usesMade>>

\* startTurn: a session without a process is resumed in a new one; the turn is written to it.
StartTurn ==
    /\ active = 0 /\ ~lost /\ procsMade > 0 /\ turn = 0 /\ turnsMade < MaxTurns
    /\ LET p == IF proc = 0 THEN procsMade + 1 ELSE proc
       IN /\ p \in Procs /\ process[p].life # "gone"
          /\ procsMade' = IF proc = 0 THEN p ELSE procsMade
          /\ turnsMade' = turnsMade + 1 /\ turn' = turnsMade' /\ active' = turnsMade'
          /\ proc' = p /\ process' = [process EXCEPT ![p].life = "busy", ![p].turn = turnsMade']
    /\ begun' = FALSE /\ halted' = FALSE /\ toolUses' = [u \in Uses |-> "none"]
    /\ UNCHANGED <<lost, badAuth, emit, query, reports, raised, answered, usesMade>>

\* interruptTurn: the process group is signalled; its result is taken for the turn's interruption.
InterruptTurn ==
    /\ proc # 0 /\ turn # 0 /\ active # 0 /\ ~halted /\ halted' = TRUE
    /\ UNCHANGED <<proc, turn, begun, lost, badAuth, toolUses, process, emit, query, brokerVars, counters>>

\* signedInAgain: an idle process with the old credential is retired.
SignedInAgain == badAuth' = FALSE /\ proc' = IF turn = 0 THEN 0 ELSE proc

\* completeLogin: the code is accepted after the credential failed.
CompleteLogin ==
    /\ badAuth /\ SignedInAgain
    /\ UNCHANGED <<turn, begun, halted, lost, toolUses, process, emit, query, brokerVars, counters>>

(********************************* the processes ************************************)
Outputs(p, line) == process' = [process EXCEPT ![p].out = Append(@, line)]
ProcessAsks(p) ==
    /\ process[p].life = "busy" /\ usesMade < MaxUses /\ usesMade' = usesMade + 1
    /\ Outputs(p, Line("use", process[p].turn, usesMade'))
    /\ UNCHANGED <<stateVars, emit, query, brokerVars, turnsMade, procsMade>>
ProcessLosesAuth(p) ==
    /\ process[p].life = "busy" /\ ~badAuth /\ \A i \in DOMAIN process[p].out : process[p].out[i].kind # "auth"
    /\ Outputs(p, Line("auth", process[p].turn, 0))
    /\ UNCHANGED <<stateVars, emit, query, brokerVars, counters>>
ProcessResult(p) ==
    /\ process[p].life = "busy"
    /\ process' = [process EXCEPT ![p].life = "idle", ![p].out = Append(@, Line("result", process[p].turn, 0))]
    /\ UNCHANGED <<stateVars, emit, query, brokerVars, counters>>
ProcessExits(p) ==
    /\ process[p].life \in {"idle", "busy"} /\ process' = [process EXCEPT ![p].life = "gone"]
    /\ UNCHANGED <<stateVars, emit, query, brokerVars, counters>>

(***************************** reading the stream ***********************************)
\* recordToolUses: a tool call Claude Code wrote in this turn may be asked about.
RecordToolUses(u) == [toolUses EXCEPT ![u] = IF @ = "none" THEN "seen" ELSE @]

\* cancelPermissions: what waits for the controller when a turn ends is answered: cancelled.
CancelPermissions ==
    [q \in Queries |-> IF query[q].pc \in {"raise", "wait"} /\ query[q].decision = "none"
        THEN [query[q] EXCEPT !.decision = "cancel"] ELSE query[q]]

\* handle: a line counts for the turn there is. A result ends it; interrupted, the process
\* is retired too. The report follows, outside the lock.
Handle(p) ==
    /\ process[p].out # <<>> /\ emit[p] = NoEmit
    /\ LET l == Head(process[p].out)
       IN /\ process' = [process EXCEPT ![p].out = Tail(@)]
          /\ emit' = [emit EXCEPT ![p] = IF turn = 0 THEN NoEmit
                ELSE [what |-> IF l.kind = "result" THEN (IF halted THEN "interrupted" ELSE "completed") ELSE "item", turn |-> turn]]
          /\ begun' = (turn # 0 /\ l.kind # "result")
          /\ IF turn # 0 /\ l.kind = "result"
               THEN /\ turn' = 0 /\ halted' = FALSE /\ toolUses' = [u \in Uses |-> "none"]
                    /\ proc' = IF halted THEN 0 ELSE proc
                    /\ query' = CancelPermissions
               ELSE /\ toolUses' = IF turn # 0 /\ l.kind = "use" THEN RecordToolUses(l.use) ELSE toolUses
                    /\ UNCHANGED <<turn, halted, proc, query>>
          /\ badAuth' = (badAuth \/ (turn # 0 /\ l.kind = "auth"))
    /\ UNCHANGED <<lost, brokerVars, counters>>

\* emit: the broker records it; a completed turn is no longer awaited.
Emit(p) ==
    /\ emit[p] # NoEmit /\ emit' = [emit EXCEPT ![p] = NoEmit]
    /\ LET e == emit[p]
       IN /\ reports' = IF e.what = "item" THEN reports ELSE [reports EXCEPT ![e.turn] = Append(@, e.what)]
          /\ active' = IF e.what # "item" /\ active = e.turn THEN 0 ELSE active
    /\ UNCHANGED <<stateVars, process, query, raised, answered, counters>>

\* read, finish: the end of the session's process ends the actor, that of a retired one does not.
Finish(p) ==
    /\ process[p].life = "gone" /\ process[p].out = <<>> /\ emit[p] = NoEmit /\ proc = p /\ ~lost
    /\ lost' = TRUE
    /\ UNCHANGED <<proc, turn, begun, halted, badAuth, toolUses, process, emit, query, brokerVars, counters>>

(************************************ the bridge ************************************)
Pending == Cardinality({q \in Queries : query[q].pc = "bind" \/ (query[q].pc \in {"raise", "wait"} /\ query[q].decision = "none")})

\* serveBridgeConn: a request is taken only within a turn and up to a bound.
Request(q, kind, u) ==
    /\ query[q] = NoQuery
    /\ query' = [query EXCEPT ![q] = [pc |-> IF turn = 0 \/ Pending >= MaxWaiting THEN "denied" ELSE "bind",
                                      kind |-> kind, use |-> u, at |-> turn, decision |-> "none"]]
    /\ UNCHANGED <<stateVars, process, emit, brokerVars, counters>>

RequestPermission(q, u) == Request(q, "permission", u)
RequestController(q) == Request(q, "controller", 0)

\* bindToolUseByContent takes any tool call that asks for the same, bindToolUse the one named.
ByContent == {u \in Uses : toolUses[u] = "seen"}
Claimable(q) == IF query[q].kind = "controller" THEN ByContent ELSE ByContent \cap {query[q].use}

\* Fault: a claimed call may be claimed again.
BindToolUseAgain(q) ==
    /\ query[q].pc = "bind"
    /\ \E u \in Claimable(q) : query' = [query EXCEPT ![q].use = u, ![q].pc = IF turn = query[q].at THEN "raise" ELSE "denied"]
    /\ UNCHANGED <<stateVars, process, emit, brokerVars, counters>>

\* A call that is known and not asked about is claimed, once; the turn must still be the same.
BindToolUse(q) ==
    /\ query[q].pc = "bind"
    /\ \E u \in Claimable(q) :
         /\ toolUses' = [toolUses EXCEPT ![u] = "asked"]
         /\ query' = [query EXCEPT ![q].use = u, ![q].pc = IF turn = query[q].at THEN "raise" ELSE "denied"]
    /\ UNCHANGED <<proc, turn, begun, halted, lost, badAuth, process, emit, brokerVars, counters>>

\* Asked about already, not a call of this turn within the wait, or the actor ended.
Unbound(q) ==
    /\ query[q].pc = "bind" /\ query' = [query EXCEPT ![q].pc = "denied"]
    /\ UNCHANGED <<stateVars, process, emit, brokerVars, counters>>

\* observe: the broker records the request, or refuses it.
Raise(q) ==
    /\ query[q].pc = "raise"
    /\ \/ raised' = raised \cup {q} /\ query' = [query EXCEPT ![q].pc = "wait"]
       \/ query' = [query EXCEPT ![q].pc = "denied"] /\ UNCHANGED raised
    /\ UNCHANGED <<stateVars, process, emit, reports, active, answered, counters>>

\* answerPermission, answerController: the decision reaches the call that waits, or none.
Waits(q) == query[q].pc = "wait" /\ query[q].decision = "none"
Answer(q, accept) ==
    /\ q \in raised /\ raised' = raised \ {q}
    /\ IF Waits(q)
         THEN /\ query' = [query EXCEPT ![q].decision = IF accept THEN "accept" ELSE "decline"]
              /\ answered' = IF accept THEN answered \cup {q} ELSE answered
         ELSE UNCHANGED <<query, answered>>
    /\ UNCHANGED <<stateVars, process, emit, reports, active, counters>>

\* The waiting call ends with its decision, or with the actor.
Reply(q) ==
    /\ query[q].pc = "wait"
    /\ \/ query[q].decision # "none" /\ query' = [query EXCEPT ![q].pc = IF query[q].decision = "accept" THEN "allowed" ELSE "denied"]
       \/ lost /\ query' = [query EXCEPT ![q].pc = "denied"]
    /\ UNCHANGED <<stateVars, process, emit, brokerVars, counters>>

ActorNext ==
    \/ StartThread \/ StartTurn \/ InterruptTurn \/ CompleteLogin
    \/ \E p \in Procs : ProcessAsks(p) \/ ProcessLosesAuth(p) \/ ProcessResult(p) \/ ProcessExits(p) \/ Handle(p) \/ Emit(p) \/ Finish(p)
    \/ \E q \in Queries :
         \/ RequestController(q) \/ \E u \in Uses : RequestPermission(q, u)
         \/ BindToolUse(q) \/ Unbound(q) \/ Raise(q) \/ Reply(q) \/ \E accept \in BOOLEAN : Answer(q, accept)

(********************************* properties ***************************************)
\* Every tool call is put to the controller at most once, and one is allowed only where the
\* controller accepted it: whatever the coding user asks for and whenever turns end.
AskedOnce ==
    /\ \A q \in Queries : query[q].pc = "allowed" => q \in answered
    /\ \A q, r \in Queries : (q # r /\ query[q].pc \in {"raise", "wait", "allowed"} /\ query[r].pc \in {"raise", "wait", "allowed"}) => query[q].use # query[r].use

\* Nothing waits for the controller on behalf of a turn that has ended, and a turn's end is
\* reported once, though it may be interrupted, resumed in another process or signed in for.
NoneOutlivesTurn ==
    /\ \A q \in Queries : (query[q].pc \in {"raise", "wait"} /\ query[q].decision = "none") => query[q].at = turn
    /\ \A t \in Turns : Len(reports[t]) <= 1
=============================================================================

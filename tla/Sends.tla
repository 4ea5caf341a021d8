------------------------------- MODULE Sends -------------------------------
(* Sends to one session of the session service (internal/sessiond): the operations the *)
(* service remembers, the readiness its adapter reports, and the adapter's connections. *)
(* A retry of a remembered operation changes nothing, so it is no step of the model.    *)
EXTENDS Naturals, Sequences, FiniteSets

CONSTANTS SendOps,      \* operation IDs of sends
          Slots,        \* requests being served at one time
          Conns,        \* connections an adapter makes, each used once
          SendKinds,    \* kinds of sends: raw or when-ready, with the held operations acknowledged or not
          MaxOps,       \* remembered operations (maxOps)
          MaxSends,     \* bound: sends begun
          MaxReports    \* bound: reports and resets of the agent's state

NoConn == "none"         \* no connection
NoSend == "none"         \* no operation

ASSUME KindsAssumption == SendKinds \subseteq {"raw", "raw-acked", "ready", "ready-acked"}
ASSUME SendsAssumption ==
    /\ NoSend \notin SendOps /\ NoConn \notin Conns
    /\ MaxOps \in Nat /\ MaxSends \in Nat /\ MaxReports \in Nat

Chunks == 2             \* frames one text is queued in

VARIABLES
    agent,      \* TermSession.agent: state, the report that set it, reports, the input accepted
    by,         \* the connection whose report set the state (history)
    latest,     \* adapter.conn
    stateOf,    \* adapter.stateConn and stateSeq
    reader,     \* each connection's read loop: where it is and the sequence it holds
    superseded, \* connections a newer one replaced (history)
    readyUsed,  \* Server.readyUsed of the session, 0 when there is none
    ops,        \* Server.ops: "none", "running" or a settled outcome
    sendOrder,    \* Server.opOrder
    req,        \* each request's send: its step, operation, flags, claim, frames, wake-up
    wrote,      \* times an operation's text was begun since the service last learned of it (history)
    spent,      \* texts begun on each readiness (history)
    held,       \* the journal of operations holds an acceptance_unknown one
    alive,      \* the session's program runs
    begun       \* sends begun, for MaxSends

svars == <<agent, by, latest, stateOf, reader, superseded, readyUsed, ops, sendOrder, req,
           wrote, spent, held, alive, begun>>
adapterVars == <<agent, by, latest, stateOf, reader, superseded>>
sendVars == <<readyUsed, ops, sendOrder, req, wrote, spent, begun>>

Idle == [pc |-> "idle", op |-> NoSend, kind |-> "raw", seen |-> 0, seq |-> 0, n |-> 0, woken |-> FALSE]

SendsTypeOK ==
    /\ agent \in [state: {"unknown", "running", "waiting"}, stateSeq: 0..MaxReports, seq: 0..MaxReports, accepted: SendOps \cup {NoSend}]
    /\ latest \in Conns \cup {NoConn} /\ by \in Conns \cup {NoConn} /\ superseded \subseteq Conns
    /\ stateOf \in [conn: Conns \cup {NoConn}, seq: 0..MaxReports]
    /\ reader \in [Conns -> [pc: {"off", "open", "reported", "resetting", "done"}, seq: 0..MaxReports]]
    /\ readyUsed \in 0..MaxReports
    /\ ops \in [SendOps -> {"none", "running", "partial", "uncertain", "written", "accepted"}]
    /\ sendOrder \in Seq(SendOps)
    /\ \A q \in Slots : req[q].pc \in {"idle", "begun", "await", "look", "asleep", "ready", "control", "write", "told", "back", "wake", "drop"}
    /\ held \in BOOLEAN /\ alive \in BOOLEAN

SendsInit ==
    /\ agent = [state |-> "unknown", stateSeq |-> 0, seq |-> 0, accepted |-> NoSend]
    /\ by = NoConn /\ latest = NoConn /\ superseded = {}
    /\ stateOf = [conn |-> NoConn, seq |-> 0]
    /\ reader = [c \in Conns |-> [pc |-> "off", seq |-> 0]]
    /\ readyUsed = 0
    /\ ops = [o \in SendOps |-> "none"] /\ sendOrder = <<>>
    /\ req = [q \in Slots |-> Idle]
    /\ wrote = [o \in SendOps |-> 0] /\ spent = [s \in 1..MaxReports |-> 0]
    /\ held = FALSE /\ alive = TRUE /\ begun = 0

(***************************** the adapter's channel *******************************)
\* agentCh is closed and remade: whoever took it before has its wake-up.
AllWoken == [q \in Slots |-> [req[q] EXCEPT !.woken = @ \/ req[q].pc \in {"look", "asleep"}]]

\* adapter.serve: the latest connection is the adapter's, the one before it is closed.
Accept(c) ==
    /\ alive /\ reader[c].pc = "off"
    /\ reader' = [reader EXCEPT ![c].pc = "open"]
    /\ superseded' = superseded \cup ({latest} \ {NoConn})
    /\ latest' = c
    /\ UNCHANGED <<agent, by, stateOf, sendVars, held, alive>>

\* read, ReportAgent: a report of a state. A closed connection may still have lines buffered.
ReportState(c, state) ==
    /\ reader[c].pc = "open" /\ agent.seq < MaxReports
    /\ agent' = [agent EXCEPT !.state = state, !.stateSeq = agent.seq + 1, !.seq = @ + 1]
    /\ by' = c
    /\ reader' = [reader EXCEPT ![c] = [pc |-> "reported", seq |-> agent.seq + 1]]
    /\ req' = AllWoken
    /\ UNCHANGED <<latest, stateOf, superseded, readyUsed, ops, sendOrder, wrote, spent, begun, held, alive>>

\* read, ReportAgent: a report of only an acceptance leaves the state as it is.
ReportAccepted(c, o) ==
    /\ reader[c].pc = "open" /\ agent.seq < MaxReports
    /\ agent' = [agent EXCEPT !.accepted = o, !.seq = @ + 1]
    /\ req' = AllWoken
    /\ UNCHANGED <<by, latest, stateOf, reader, superseded, readyUsed, ops, sendOrder, wrote, spent, begun, held, alive>>

\* Fault: the sequence read back after the report, which a newer report may have moved.
RecordReadBack(c) ==
    /\ reader[c].pc = "reported"
    /\ stateOf' = IF agent.stateSeq > stateOf.seq THEN [conn |-> c, seq |-> agent.stateSeq] ELSE stateOf
    /\ reader' = [reader EXCEPT ![c].pc = "open"]
    /\ UNCHANGED <<agent, by, latest, superseded, sendVars, held, alive>>

\* read: the connection owns the state, unless a fresher report was recorded meanwhile.
Record(c) ==
    /\ reader[c].pc = "reported"
    /\ stateOf' = IF reader[c].seq > stateOf.seq THEN [conn |-> c, seq |-> reader[c].seq] ELSE stateOf
    /\ reader' = [reader EXCEPT ![c].pc = "open"]
    /\ UNCHANGED <<agent, by, latest, superseded, sendVars, held, alive>>

\* adapter.disconnected: only the latest connection's own end takes its state back.
Disconnected(c) ==
    /\ reader[c].pc = "open"
    /\ latest' = IF latest = c THEN NoConn ELSE latest
    /\ IF latest = c /\ stateOf.conn = c
         THEN /\ stateOf' = [stateOf EXCEPT !.conn = NoConn]
              /\ reader' = [reader EXCEPT ![c] = [pc |-> "resetting", seq |-> stateOf.seq]]
         ELSE /\ reader' = [reader EXCEPT ![c] = [pc |-> "done", seq |-> 0]]
              /\ UNCHANGED stateOf
    /\ UNCHANGED <<agent, by, superseded, sendVars, held, alive>>

\* ResetAgentUnknown, outside the adapter's lock: nothing, once a fresher report has landed.
ResetAgentUnknown(c) ==
    /\ reader[c].pc = "resetting" /\ agent.seq < MaxReports
    /\ IF agent.state = "unknown" \/ agent.stateSeq # reader[c].seq
         THEN UNCHANGED <<agent, by, req>>
         ELSE /\ agent' = [agent EXCEPT !.state = "unknown", !.stateSeq = agent.seq + 1, !.seq = @ + 1]
              /\ by' = NoConn
              /\ req' = AllWoken
    /\ reader' = [reader EXCEPT ![c] = [pc |-> "done", seq |-> 0]]
    /\ UNCHANGED <<latest, stateOf, superseded, readyUsed, ops, sendOrder, wrote, spent, begun, held, alive>>

\* opJournal.finish with an outcome that is not known, at any time; the hold is for good.
Hold == ~held /\ held' = TRUE /\ UNCHANGED <<adapterVars, sendVars, alive>>

\* The program ends: Done wakes every wait.
ProgramExits ==
    /\ alive /\ alive' = FALSE
    /\ req' = AllWoken
    /\ UNCHANGED <<adapterVars, readyUsed, ops, sendOrder, wrote, spent, begun, held>>

(********************************* operations ***************************************)
\* Fault: a record still running does not stop its retry.
RememberedDone(o) == ops[o] \notin {"none", "running"}

\* begin: the operation has a record, running or settled, and its retry gets it back.
Remembered(o) == ops[o] # "none"

\* begin: settled operations at the front of the order are forgotten beyond MaxOps.
Evicted ==
    LET over == IF Len(sendOrder) + 1 > MaxOps THEN Len(sendOrder) + 1 - MaxOps ELSE 0
        settled == {i \in 1..over : \A k \in 1..i : ops[sendOrder[k]] # "running"}
    IN {sendOrder[i] : i \in settled}

Begin(q, o, kind) ==
    /\ req[q].pc = "idle" /\ begun < MaxSends /\ ~Remembered(o)
    /\ sendOrder' = Append(SelectSeq(sendOrder, LAMBDA x : x \notin Evicted), o)
    /\ ops' = [x \in SendOps |-> IF x = o THEN "running" ELSE IF x \in Evicted THEN "none" ELSE ops[x]]
    /\ wrote' = [x \in SendOps |-> IF x \in Evicted THEN 0 ELSE wrote[x]]
    /\ req' = [req EXCEPT ![q] = [Idle EXCEPT !.pc = "begun", !.op = o, !.kind = kind]]
    /\ begun' = begun + 1
    /\ UNCHANGED <<adapterVars, readyUsed, spent, held, alive>>

\* drop: an operation that did nothing is forgotten.
Forgotten(o) ==
    /\ ops' = [x \in SendOps |-> IF x = o THEN "none" ELSE ops[x]]
    /\ sendOrder' = SelectSeq(sendOrder, LAMBDA x : x # o)

\* settle: what the operation did is kept for every retry of it.
Settle(q, outcome) ==
    /\ ops' = [ops EXCEPT ![req[q].op] = outcome]
    /\ req' = [req EXCEPT ![q] = Idle]

(************************************* send *****************************************)
HeldRefusal(q) == held /\ req[q].kind \in {"raw", "ready"}

\* The first checks: the program ended, the request is stale, or an operation is held.
FirstRefusal(q) ==
    /\ req[q].pc = "begun"
    /\ Forgotten(req[q].op)
    /\ req' = [req EXCEPT ![q] = Idle]
    /\ UNCHANGED <<adapterVars, readyUsed, wrote, spent, begun, held, alive>>

Checked(q) ==
    /\ req[q].pc = "begun" /\ alive /\ ~HeldRefusal(q)
    /\ req' = [req EXCEPT ![q].pc = IF req[q].kind \in {"ready", "ready-acked"} THEN "await" ELSE "ready"]
    /\ UNCHANGED <<adapterVars, readyUsed, ops, sendOrder, wrote, spent, begun, held, alive>>

\* awaitReady: the agent's state and the channel the next report closes.
Look(q) ==
    /\ req[q].pc = "await"
    /\ req' = [req EXCEPT ![q].pc = "look", ![q].woken = FALSE,
                          ![q].seen = IF agent.state = "waiting" THEN agent.stateSeq ELSE 0]
    /\ UNCHANGED <<adapterVars, readyUsed, ops, sendOrder, wrote, spent, begun, held, alive>>

\* awaitReady: a report no send has used is claimed; otherwise the send sleeps.
Claim(q) ==
    /\ req[q].pc = "look"
    /\ IF readyUsed < req[q].seen
         THEN /\ readyUsed' = req[q].seen
              /\ req' = [req EXCEPT ![q].pc = "ready", ![q].seq = req[q].seen, ![q].seen = 0, ![q].woken = FALSE]
         ELSE /\ req' = [req EXCEPT ![q].pc = "asleep", ![q].seen = 0]
              /\ UNCHANGED readyUsed
    /\ UNCHANGED <<adapterVars, ops, sendOrder, wrote, spent, begun, held, alive>>

Woken(q) ==
    /\ req[q].pc = "asleep" /\ req[q].woken /\ alive
    /\ req' = [req EXCEPT ![q].pc = "await", ![q].woken = FALSE]
    /\ UNCHANGED <<adapterVars, readyUsed, ops, sendOrder, wrote, spent, begun, held, alive>>

\* The wait ends, or the program did: nothing was written.
NotReady(q) ==
    /\ req[q].pc = "asleep"
    /\ Forgotten(req[q].op)
    /\ req' = [req EXCEPT ![q] = Idle]
    /\ UNCHANGED <<adapterVars, readyUsed, wrote, spent, begun, held, alive>>

\* Attach and Control; they fail, or the session changed meanwhile, and the claim goes back.
TakeControl(q) ==
    /\ req[q].pc = "ready"
    /\ \/ alive /\ req' = [req EXCEPT ![q].pc = "control"]
       \/ req' = [req EXCEPT ![q].pc = "back"]
    /\ UNCHANGED <<adapterVars, readyUsed, ops, sendOrder, wrote, spent, begun, held, alive>>

\* The check that gates the write: a held operation drops the send, then its claim goes back.
SecondCheck(q) ==
    /\ req[q].pc = "control"
    /\ IF HeldRefusal(q)
         THEN /\ Forgotten(req[q].op)
              /\ req' = [req EXCEPT ![q].pc = "back", ![q].op = NoSend]
         ELSE /\ req' = [req EXCEPT ![q].pc = "write"]
              /\ UNCHANGED <<ops, sendOrder>>
    /\ UNCHANGED <<adapterVars, readyUsed, wrote, spent, begun, held, alive>>

\* Fault: the claim is given back without a wake-up for the sends that wait.
GiveBackQuietly(q) ==
    /\ req[q].pc = "back"
    /\ readyUsed' = IF req[q].seq # 0 /\ readyUsed = req[q].seq THEN 0 ELSE readyUsed
    /\ req' = [req EXCEPT ![q].pc = "drop"]
    /\ UNCHANGED <<adapterVars, ops, sendOrder, wrote, spent, begun, held, alive>>

\* unclaimReady: the claim goes back, unless a newer one was made since.
GiveBack(q) ==
    /\ req[q].pc = "back"
    /\ IF req[q].seq # 0 /\ readyUsed = req[q].seq
         THEN readyUsed' = 0 /\ req' = [req EXCEPT ![q].pc = "wake"]
         ELSE req' = [req EXCEPT ![q].pc = "drop"] /\ UNCHANGED readyUsed
    /\ UNCHANGED <<adapterVars, ops, sendOrder, wrote, spent, begun, held, alive>>

\* WakeAgentWaiters.
WakeAgentWaiters(q) ==
    /\ req[q].pc = "wake"
    /\ req' = [AllWoken EXCEPT ![q].pc = "drop"]
    /\ UNCHANGED <<adapterVars, readyUsed, ops, sendOrder, wrote, spent, begun, held, alive>>

Drop(q) ==
    /\ req[q].pc = "drop"
    /\ Forgotten(req[q].op)
    /\ req' = [req EXCEPT ![q] = Idle]
    /\ UNCHANGED <<adapterVars, readyUsed, wrote, spent, begun, held, alive>>

\* Input: one frame of the text is queued, or refused and the send settled as partial.
Queue(q) ==
    /\ req[q].pc = "write" /\ req[q].n < Chunks
    /\ \/ /\ req' = [req EXCEPT ![q].n = @ + 1]
          /\ wrote' = [wrote EXCEPT ![req[q].op] = IF req[q].n = 0 THEN @ + 1 ELSE @]
          /\ spent' = [s \in DOMAIN spent |-> spent[s] + IF req[q].n = 0 /\ s = req[q].seq THEN 1 ELSE 0]
          /\ UNCHANGED ops
       \/ Settle(q, "partial") /\ UNCHANGED <<wrote, spent>>
    /\ UNCHANGED <<adapterVars, readyUsed, sendOrder, begun, held, alive>>

\* Outcomes: every frame was written, some were not, or the wait for them ended.
Confirm(q) ==
    /\ req[q].pc = "write" /\ req[q].n = Chunks
    /\ \/ req' = [req EXCEPT ![q].pc = "told"] /\ UNCHANGED ops
       \/ \E outcome \in {"partial", "uncertain"} : Settle(q, outcome)
    /\ UNCHANGED <<adapterVars, readyUsed, sendOrder, wrote, spent, begun, held, alive>>

\* awaitAccepted: the adapter's word that the input was accepted, or the wait's end.
AwaitAccepted(q) ==
    /\ req[q].pc = "told"
    /\ Settle(q, IF agent.accepted = req[q].op THEN "accepted" ELSE "written")
    /\ UNCHANGED <<adapterVars, readyUsed, sendOrder, wrote, spent, begun, held, alive>>

SendStep(q) ==
    \/ \E o \in SendOps, kind \in SendKinds : Begin(q, o, kind)
    \/ FirstRefusal(q) \/ Checked(q) \/ Look(q) \/ Claim(q) \/ Woken(q) \/ NotReady(q)
    \/ TakeControl(q) \/ SecondCheck(q) \/ GiveBack(q) \/ WakeAgentWaiters(q) \/ Drop(q)
    \/ Queue(q) \/ Confirm(q) \/ AwaitAccepted(q)

AdapterStep(c) ==
    \/ Accept(c) \/ Record(c) \/ Disconnected(c) \/ ResetAgentUnknown(c)
    \/ \E state \in {"running", "waiting"} : ReportState(c, state)
    \/ \E o \in SendOps : ReportAccepted(c, o)

SendsNext == (\E q \in Slots : SendStep(q)) \/ (\E c \in Conns : AdapterStep(c)) \/ Hold \/ ProgramExits

(********************************* properties ***************************************)
\* The text of an operation is begun once for as long as the service remembers it, and an
\* operation the service dropped began none (begin, drop and settle around send's waits).
WrittenOnce == \A o \in SendOps : wrote[o] <= (IF ops[o] = "none" THEN 0 ELSE 1)

\* "claims that report, so two sends never take one readiness" (server.go:897): no
\* readiness serves two texts, whatever was claimed, given back and reported in between.
ReadyOnce == \A s \in DOMAIN spent : spent[s] <= 1

\* No send sleeps over a readiness that is free, unless its wake-up is on the way: every
\* report, reset and claim given back reaches the sends that looked before it (awaitReady,
\* unclaimReady, WakeAgentWaiters).
NoReadinessMissed ==
    \A q \in Slots :
        (req[q].pc = "asleep" /\ ~req[q].woken /\ agent.state = "waiting")
            => (readyUsed >= agent.stateSeq \/ \E p \in Slots : req[p].pc = "wake")

\* Only the connection that set the agent's state takes it back, by its own end, and a
\* state whose connection ended, and was never superseded, is not shown any longer.
StateVouched ==
    /\ [](agent.state # "unknown" => (reader[by].pc # "done" \/ by \in superseded))
    /\ [][(agent.state # "unknown" /\ agent'.state = "unknown") => reader[by].pc = "resetting"]_svars
=============================================================================

---------------------------- MODULE AgentSession ----------------------------
(***************************************************************************)
(* The agent session: the broker inside an environment's VM, its journal   *)
(* and the coding agent it drives (internal/agentenv/state.go, broker.go,  *)
(* controller.go, continuation.go, rpc.go; cmd/pomar-agent-guest).         *)
(*                                                                         *)
(* A task is journaled, then sent to the agent, whose answers and events   *)
(* come back over one ordered connection; the reply to a call is taken up  *)
(* by the request's own goroutine, events by the connection's reader.  What*)
(* may have been sent is never sent again: a task or an answer without a   *)
(* known outcome stays unknown, until recovery observes its end or its     *)
(* owner continues it with another task.                                   *)
(*                                                                         *)
(* An incarnation is one life of VM, broker and agent.  AgentHost models   *)
(* why the last one is over when the next one opens the journal.           *)
(***************************************************************************)
EXTENDS Integers, Sequences, FiniteSets

CONSTANTS
    Tasks,       \* operation ids of tasks
    Controls,    \* operation ids of permission answers
    MaxInc,      \* bound: incarnations
    MaxTurns,    \* bound: turns, and threads, the agent ever starts
    MaxRequests, \* bound: requests the agent ever makes
    MaxMishaps   \* bound: failed journal writes and lost connections

ASSUME AgentSessionAssumption ==
    /\ Tasks # {} /\ Tasks \cap Controls = {} /\ "none" \notin Tasks
    /\ MaxInc \in Nat /\ MaxTurns \in Nat \ {0} /\ {MaxRequests, MaxMishaps} \subseteq Nat

VARIABLES
    mode,      \* "down", "opened", "resuming", "serving"
    inc,       \* the incarnation of the broker's process
    mem,       \* Store.s
    disk,      \* session.json
    fatal,     \* Store.fatal
    held,      \* Broker.resumeFailure is set
    conn,      \* the connection to the agent is read
    pending,   \* Broker.pending: turns whose permission request is unanswered
    cpending,  \* Broker.controllerPending, likewise
    job,       \* per task, the goroutine that submits it
    answering, \* the permission answer being given under Broker.mu
    replying,  \* turns whose controller reply is being written
    calls,     \* calls the agent has received and not answered
    out,       \* what the agent wrote and the reader has not read
    turn,      \* the agent's turns
    thread,    \* the agent's threads: the number started, those loaded now
    sent,      \* per task, turn/start calls ever written
    answered,  \* per request of a turn, answers ever written
    mishaps

vars == <<mode, inc, mem, disk, fatal, held, conn, pending, cpending, job, answering,
          replying, calls, out, turn, thread, sent, answered, mishaps>>
agent == <<calls, out, turn, thread>>
ghost == <<sent, answered>>
store == <<mem, disk, fatal, mishaps>>

Inc      == 0 .. MaxInc
Turns    == 1 .. MaxTurns
Requests == {"ask", "call"}         \* for a permission, for a controller's function
Ends     == {"completed", "interrupted"}
Op       == [inc : Inc, st : {"none", "dispatching", "accepted", "unknown", "finished"},
             turn : 0 .. MaxTurns, thread : 0 .. MaxTurns, end : Ends \cup {"none"}]
NoOp     == [inc |-> 0, st |-> "none", turn |-> 0, thread |-> 0, end |-> "none"]
Control  == [st : {"none", "dispatching", "sent", "unknown", "refused", "unsupported"}, of : 0 .. MaxTurns]
NoControl == [st |-> "none", of |-> 0]
\* A ContinuationBinding, by the original it closes.
Binding  == [next : Tasks \cup {"none"}, inc : Inc]
Journal  == [thread : 0 .. MaxTurns, ops : [Tasks -> Op], controls : [Controls -> Control],
             requests : [Turns -> {"none", "pending", "dispatching", "written", "unknown", "fenced"}],
             bound : [Tasks -> Binding]]
Empty    == [thread |-> 0, ops |-> [o \in Tasks |-> NoOp],
             controls |-> [c \in Controls |-> NoControl],
             requests |-> [n \in Turns |-> "none"],
             bound |-> [o \in Tasks |-> [next |-> "none", inc |-> 0]]]
Waiting  == -1     \* no answer to a call yet; 0 is an error, n a thread or turn
NoJob    == [step |-> "idle", got |-> Waiting]
NoTurn   == [of |-> "none", inc |-> 0, thread |-> 0, st |-> "none", made |-> {}]
NoAnswer == [id |-> "none", of |-> 0, decided |-> FALSE]

TypeOK ==
    /\ mode \in {"down", "opened", "resuming", "serving"}
    /\ inc \in Inc /\ {mem, disk} \subseteq Journal
    /\ {fatal, held, conn} \subseteq BOOLEAN
    /\ {pending, cpending, replying} \subseteq SUBSET Turns
    /\ job \in [Tasks -> [step : {"idle", "begun", "thread", "turn"}, got : Waiting .. MaxTurns]]
    /\ answering \in [id : Controls \cup {"none"}, of : 0 .. MaxTurns, decided : BOOLEAN]
    /\ calls \subseteq [k : {"thread", "turn"}, of : Tasks, id : Waiting .. MaxTurns]
    /\ \A i \in DOMAIN out : out[i].k \in {"reply", "started", "ended"} \cup Requests
    /\ turn \in [Turns -> [of : Tasks \cup {"none"}, inc : Inc, thread : 0 .. MaxTurns,
                           st : {"none", "new", "running"} \cup Ends, made : SUBSET Requests]]
    /\ thread \in [n : 0 .. MaxTurns, loaded : SUBSET Turns]
    /\ sent \in [Tasks -> 0 .. 2] /\ answered \in [Requests -> [Turns -> 0 .. 2]]
    /\ mishaps \in 0 .. MaxMishaps

Init ==
    /\ mode = "down" /\ inc = 0 /\ mem = Empty /\ disk = Empty
    /\ fatal = FALSE /\ held = FALSE /\ conn = FALSE
    /\ pending = {} /\ cpending = {} /\ replying = {} /\ answering = NoAnswer
    /\ job = [o \in Tasks |-> NoJob]
    /\ calls = {} /\ out = <<>>
    /\ turn = [n \in Turns |-> NoTurn] /\ thread = [n |-> 0, loaded |-> {}]
    /\ sent = [o \in Tasks |-> 0]
    /\ answered = [r \in Requests |-> [n \in Turns |-> 0]]
    /\ mishaps = 0

-----------------------------------------------------------------------------
(* The journal.                                                             *)

\* save: session.json is replaced whole.  A failed write leaves the old file, or the
\* new one unsynced, and stops every later change by this process.
Save(e, ok) ==
    /\ mem' = e
    /\ IF ok THEN disk' = e /\ UNCHANGED <<fatal, mishaps>>
       ELSE /\ mishaps < MaxMishaps /\ mishaps' = mishaps + 1
            /\ disk' \in {disk, e} /\ fatal' = TRUE

\* closedUnresolved
Closed(e, o) == e.bound[o].next # "none"

\* continuedBy: s continues o, or the task that does is over.
ContinuedBy(e, o, s) ==
    Closed(e, o) /\ (e.bound[o].next = s \/ e.ops[e.bound[o].next].end # "none")

IsOpen(e, o) == e.ops[o].inc # 0 /\ e.ops[o].end = "none"

\* The journal as a new incarnation finds it: what had no outcome is unknown.
Reopened(e) ==
    [e EXCEPT
       !.ops = [o \in Tasks |-> IF IsOpen(e, o) THEN [e.ops[o] EXCEPT !.st = "unknown"] ELSE e.ops[o]],
       !.controls = [c \in Controls |-> [e.controls[c] EXCEPT !.st = IF @ = "dispatching" THEN "unknown" ELSE @]],
       !.requests = [n \in Turns |-> CASE e.requests[n] = "dispatching" -> "unknown"
                                       [] e.requests[n] = "pending"     -> "fenced"
                                       [] OTHER                         -> e.requests[n]]]

\* Open, with an incarnation the journal has not seen.
Open(ok) ==
    /\ mode = "down" /\ inc < MaxInc
    /\ inc' = inc + 1
    /\ IF ok THEN Save(Reopened(disk), TRUE) /\ mode' = "opened" /\ conn' = TRUE
       ELSE /\ mishaps < MaxMishaps /\ mishaps' = mishaps + 1
            /\ disk' \in {disk, Reopened(disk)}
            /\ UNCHANGED <<mode, mem, fatal, conn>>
    /\ UNCHANGED <<held, pending, cpending, job, answering, replying, agent, ghost>>

-----------------------------------------------------------------------------
(* Resume, before the broker serves.                                        *)

\* Nothing to resume; or the resume is journaled as a control and called.
Resume(ok) ==
    /\ mode = "opened"
    /\ IF mem.thread = 0 THEN ok /\ mode' = "serving" /\ UNCHANGED <<store, held>>
       ELSE /\ Save(mem, ok)
            /\ mode' = IF ok THEN "resuming" ELSE "serving"
            /\ held' = ~ok
    /\ UNCHANGED <<inc, conn, pending, cpending, job, answering, replying, agent, ghost>>

\* ObserveRecoveredTurns: the agent's word on its retained turns ends an earlier
\* incarnation's task whose turn is known, and no other.
Recovered(e, seen) ==
    [e EXCEPT !.ops = [o \in Tasks |->
        LET p == e.ops[o] IN
        IF /\ IsOpen(e, o) /\ p.inc # inc /\ p.turn \in seen /\ ~Closed(e, o)
           /\ p.thread \in {0, e.thread} /\ turn[p.turn].st \in Ends
          THEN [p EXCEPT !.st = "finished", !.end = turn[p.turn].st] ELSE p]]

\* thread/resume answers with the turns the agent retained, or fails, or times out
\* with the thread loaded all the same, or cannot be journaled; then nothing may run
\* until a continuation.
ResumeAnswer(seen, ok) ==
    /\ mode = "resuming" /\ mode' = "serving"
    /\ \A n \in seen : turn[n].thread = mem.thread
    /\ \/ /\ conn
          /\ thread' = [thread EXCEPT !.loaded = {mem.thread}]
          /\ Save(Recovered(mem, seen), ok) \/ (~ok /\ Save(mem, ok))
          /\ held' = ~ok
       \/ /\ seen = {} /\ held' = TRUE
          /\ thread' \in {thread, [thread EXCEPT !.loaded = {mem.thread}]}
          /\ Save(mem, ok)
    /\ UNCHANGED <<inc, conn, pending, cpending, job, answering, replying, calls, out, turn, ghost>>

-----------------------------------------------------------------------------
(* Submission of a task.                                                    *)

Unlocked == answering = NoAnswer      \* Broker.mu

\* A submission next to a task of unknown acceptance.
AcceptableBeside(o) ==
    /\ mem.ops[o] = NoOp
    /\ \A p \in Tasks : mem.ops[p].st \notin {"dispatching", "accepted"}

\* Begin's conditions: a new id, every other task over or continued by this one, and a
\* reserved successor's own input, which names the incarnation it was bound in.
Acceptable(o) ==
    /\ mem.ops[o] = NoOp
    /\ \A p \in Tasks : IsOpen(mem, p) => ContinuedBy(mem, p, o)
    /\ \A p \in Tasks : mem.bound[p].next = o => mem.bound[p].inc = inc

\* Submit up to Begin, after the agent answered that it is authenticated; it may be gone
\* since.  A known id only returns what is retained.
Begin(o, ok) ==
    /\ mode = "serving" /\ ~fatal /\ ~held
    /\ Acceptable(o)
    /\ Save([mem EXCEPT !.ops[o] = [NoOp EXCEPT !.inc = inc, !.st = "dispatching"]], ok)
    /\ job' = [job EXCEPT ![o].step = IF ok THEN "begun" ELSE "idle"]
    /\ UNCHANGED <<mode, inc, held, conn, pending, cpending, answering, replying, agent, ghost>>

\* The call of thread/start, where the session has no thread, or of turn/start.
Send(o) ==
    LET k == IF mem.thread = 0 THEN "thread" ELSE "turn" IN
    /\ job[o].step = "begun" /\ conn
    /\ calls' = calls \cup {[k |-> k, of |-> o, id |-> Waiting]}
    /\ sent' = IF k = "turn" THEN [sent EXCEPT ![o] = IF @ < 2 THEN @ + 1 ELSE @] ELSE sent
    /\ job' = [job EXCEPT ![o] = [step |-> k, got |-> Waiting]]
    /\ UNCHANGED <<mode, inc, store, held, conn, pending, cpending, answering, replying,
                   out, turn, thread, answered>>

\* ObserveModel of thread/start's reply; the next step sends the turn.
ThreadStarted(o, ok) ==
    /\ job[o].step = "thread" /\ job[o].got > 0 /\ ~fatal
    /\ Save([mem EXCEPT !.thread = job[o].got, !.ops[o].thread = job[o].got], ok)
    /\ job' = [job EXCEPT ![o] = [NoJob EXCEPT !.step = IF ok THEN "begun" ELSE "idle"]]
    /\ UNCHANGED <<mode, inc, held, conn, pending, cpending, answering, replying, agent, ghost>>

\* Accepted: events of the turn may have been journaled before this reply.
Accepted(o, ok) ==
    LET p == mem.ops[o]  n == job[o].got IN
    /\ job[o].step = "turn" /\ n > 0 /\ ~fatal /\ p.turn \in {0, n}
    /\ Save([mem EXCEPT !.ops[o] =
                [p EXCEPT !.turn = n, !.thread = IF @ = 0 THEN mem.thread ELSE @,
                          !.st = IF p.end = "none" THEN "accepted" ELSE @]], ok)
    /\ job' = [job EXCEPT ![o] = NoJob]
    /\ UNCHANGED <<mode, inc, held, conn, pending, cpending, answering, replying, agent, ghost>>

\* A call that fails, cannot be sent or runs out of time, even as its reply comes, or a
\* reply that cannot be journaled: Unknown, which leaves what events have told.
GiveUp(o, ok) ==
    LET p == mem.ops[o] IN
    /\ job[o].step # "idle"
    /\ job[o].step = "begun" => ~conn
    /\ job' = [job EXCEPT ![o] = NoJob]
    /\ IF fatal THEN ok /\ UNCHANGED store
       ELSE Save([mem EXCEPT !.ops[o].st =
                     IF p.end = "none" /\ p.turn = 0 THEN "unknown" ELSE @], ok)
    /\ UNCHANGED <<mode, inc, held, conn, pending, cpending, answering, replying, agent, ghost>>

-----------------------------------------------------------------------------
(* The connection's reader.                                                 *)

Head1(k) == conn /\ out # <<>> /\ Head(out).k = k /\ out' = Tail(out)

\* The reply to a call goes to the goroutine that waits for it, if one still does.
ReadReply ==
    LET m == Head(out) IN
    /\ Head1("reply")
    /\ job' = IF job[m.of].step = m.call /\ job[m.of].got = Waiting
              THEN [job EXCEPT ![m.of].got = m.id] ELSE job
    /\ UNCHANGED <<mode, inc, store, held, conn, pending, cpending, answering, replying,
                   calls, turn, thread, ghost>>

\* An event told of every task, whatever incarnation it is of.
ObservedByAny(e, k, n) ==
    [e EXCEPT !.ops = [o \in Tasks |->
        LET p == e.ops[o] IN
        IF IsOpen(e, o) /\ p.turn \in {0, n}
          THEN IF k = "started"
                 THEN [p EXCEPT !.turn = n, !.st = "accepted", !.thread = IF @ = 0 THEN turn[n].thread ELSE @]
                 ELSE [p EXCEPT !.turn = n, !.st = "finished", !.end = turn[n].st]
          ELSE p]]

\* Store.Observe of turn/started and turn/completed: an open task of this incarnation
\* that has no turn yet takes the event's.
Observed(e, k, n) ==
    [e EXCEPT !.ops = [o \in Tasks |->
        LET p == e.ops[o] IN
        IF IsOpen(e, o) /\ p.inc = inc /\ p.turn \in {0, n}
          THEN IF k = "started"
                 THEN [p EXCEPT !.turn = n, !.st = "accepted", !.thread = IF @ = 0 THEN turn[n].thread ELSE @]
                 ELSE [p EXCEPT !.turn = n, !.st = "finished", !.end = turn[n].st]
          ELSE p]]

\* An event of another thread, or one that cannot be journaled, ends the connection.
ReadTurn(k, ok) ==
    LET n == Head(out).n IN
    /\ Head1(k) /\ Unlocked
    /\ IF fatal \/ turn[n].thread # mem.thread
       THEN ok /\ conn' = FALSE /\ UNCHANGED store
       ELSE Save(Observed(mem, k, n), ok) /\ conn' = ok
    /\ UNCHANGED <<mode, inc, held, pending, cpending, job, answering, replying, calls, turn, thread, ghost>>

\* A permission request is journaled, then pending.
ReadAsk(ok) ==
    LET n == Head(out).n IN
    /\ Head1("ask") /\ Unlocked
    /\ IF fatal \/ turn[n].thread # mem.thread
       THEN ok /\ conn' = FALSE /\ UNCHANGED <<store, pending>>
       ELSE /\ Save(mem, ok) /\ conn' = ok
            /\ pending' = IF ok THEN pending \cup {n} ELSE pending
    /\ UNCHANGED <<mode, inc, held, cpending, job, answering, replying, calls, turn, thread, ghost>>

\* observeControllerRequest: only the request of a known turn of an open task.
ReadCall(ok) ==
    LET n == Head(out).n
        known == \E o \in Tasks : /\ IsOpen(mem, o) /\ mem.ops[o].inc = inc /\ mem.ops[o].turn = n
                                  /\ mem.ops[o].thread = turn[n].thread
    IN
    /\ Head1("call") /\ Unlocked
    /\ IF fatal \/ held \/ turn[n].thread # mem.thread \/ ~known
       THEN ok /\ conn' = FALSE /\ UNCHANGED <<store, cpending>>
       ELSE /\ Save([mem EXCEPT !.requests[n] = "pending"], ok) /\ conn' = ok
            /\ cpending' = IF ok THEN cpending \cup {n} ELSE cpending
    /\ UNCHANGED <<mode, inc, held, pending, job, answering, replying, calls, turn, thread, ghost>>

\* The agent closes its output, or writes what the reader refuses or cannot retain.
Disconnect ==
    /\ conn /\ mode # "down" /\ mishaps < MaxMishaps
    /\ conn' = FALSE /\ mishaps' = mishaps + 1
    /\ UNCHANGED <<mode, inc, mem, disk, fatal, held, pending, cpending, job, answering,
                   replying, agent, ghost>>

-----------------------------------------------------------------------------
(* Answers to the agent's requests.                                         *)

\* The permission handler, which holds Broker.mu to its end, journals the answer's id;
Permission(c, n, ok) ==
    /\ mode = "serving" /\ Unlocked /\ ~fatal /\ ~held
    /\ mem.controls[c] = NoControl /\ "ask" \in turn[n].made
    /\ Save([mem EXCEPT !.controls[c] = [st |-> "dispatching", of |-> n]], ok)
    /\ answering' = IF ok THEN [id |-> c, of |-> n, decided |-> FALSE] ELSE NoAnswer
    /\ UNCHANGED <<mode, inc, held, conn, pending, cpending, job, replying, agent, ghost>>

\* A decision that leaves the request pending for another answer.
DecideKept(ok) ==
    /\ answering.of \in pending /\ ~answering.decided /\ ~fatal
    /\ Save(mem, ok)
    /\ answering' = IF ok THEN [answering EXCEPT !.decided = TRUE] ELSE NoAnswer
    /\ UNCHANGED <<mode, inc, held, conn, pending, cpending, job, replying, agent, ghost>>

\* then the decision on a pending request, which leaves the pending ones;
Decide(ok) ==
    /\ answering.of \in pending /\ ~answering.decided /\ ~fatal
    /\ Save(mem, ok)
    /\ pending' = IF ok THEN pending \ {answering.of} ELSE pending
    /\ answering' = IF ok THEN [answering EXCEPT !.decided = TRUE] ELSE NoAnswer
    /\ UNCHANGED <<mode, inc, held, conn, cpending, job, replying, agent, ghost>>

\* or that the answer is refused for good, or of a kind it does not support.
Undecided(ok) ==
    /\ answering # NoAnswer /\ ~answering.decided /\ answering' = NoAnswer
    /\ IF fatal THEN ok /\ UNCHANGED store
       ELSE Save([mem EXCEPT !.controls[answering.id].st =
                     IF answering.of \in pending THEN "unsupported" ELSE "refused"], ok)
    /\ UNCHANGED <<mode, inc, held, conn, pending, cpending, job, replying, agent, ghost>>

Answer(r, n) == answered' = [answered EXCEPT ![r][n] = IF conn /\ @ < 2 THEN @ + 1 ELSE @]

\* RPC.Answer, and FinishControl.
PermissionSent(ok) ==
    /\ answering.decided /\ answering' = NoAnswer
    /\ Answer("ask", answering.of)
    /\ IF fatal THEN ok /\ UNCHANGED store
       ELSE Save([mem EXCEPT !.controls[answering.id].st = IF conn THEN "sent" ELSE "unknown"], ok)
    /\ UNCHANGED <<mode, inc, held, conn, pending, cpending, job, replying, agent, sent>>

\* ReplyController up to its unlock: only for the live request of a running turn.
Reply(n, ok) ==
    /\ mode = "serving" /\ Unlocked /\ ~fatal /\ ~held
    /\ mem.requests[n] = "pending" /\ n \in cpending
    /\ \E o \in Tasks : mem.ops[o].turn = n /\ mem.ops[o].inc = inc /\ IsOpen(mem, o)
    /\ Save([mem EXCEPT !.requests[n] = "dispatching"], ok)
    /\ cpending' = IF ok THEN cpending \ {n} ELSE cpending
    /\ replying' = IF ok THEN replying \cup {n} ELSE replying
    /\ UNCHANGED <<mode, inc, held, conn, pending, job, answering, agent, ghost>>

\* The native write, with no lock held, and its record.
ReplySent(n, ok) ==
    /\ n \in replying /\ replying' = replying \ {n}
    /\ Answer("call", n)
    /\ IF fatal THEN ok /\ UNCHANGED store
       ELSE Save([mem EXCEPT !.requests[n] = IF conn THEN "written" ELSE "unknown"], ok)
    /\ UNCHANGED <<mode, inc, held, conn, pending, cpending, job, answering, agent, sent>>

-----------------------------------------------------------------------------
(* Continuation and result.                                                 *)

\* bindContinuation: the owner closes an earlier incarnation's unresolved task and
\* reserves its successor, on an unchanged workspace; the thread is left behind.
Continue(o, s, ok) ==
    LET p == mem.ops[o] IN
    /\ mode = "serving" /\ Unlocked /\ ~fatal
    /\ s # o /\ ~Closed(mem, o)
    /\ p.inc \notin {0, inc} /\ p.st = "unknown" /\ p.end = "none"
    /\ p.thread \in {0, mem.thread}
    /\ \A q \in Tasks : mem.bound[q].next # s
    /\ mem.ops[s] = NoOp
    /\ \A q \in Tasks \ {o} : IsOpen(mem, q) => Closed(mem, q)
    /\ Save([mem EXCEPT !.bound[o] = [next |-> s, inc |-> inc], !.thread = 0], ok)
    /\ held' = (held /\ ~ok)
    /\ UNCHANGED <<mode, inc, conn, pending, cpending, job, answering, replying, agent, ghost>>

\* ResultSnapshot: every task is over, or closed with a successor that is over.
ResultReady ==
    /\ mode = "serving" /\ ~fatal
    /\ \A o \in Tasks : Closed(mem, o) =>
          LET s == mem.ops[mem.bound[o].next] IN s.end # "none" /\ s.inc = mem.bound[o].inc
    /\ \A o \in Tasks : IsOpen(mem, o) => Closed(mem, o)

-----------------------------------------------------------------------------
(* The agent.                                                               *)

host == <<mode, inc, store, held, conn, pending, cpending, job, answering, replying, ghost>>

Say(m) == out' = Append(out, m)

\* The agent takes up a call and owes its reply; it may refuse.
AgentThread(c) ==
    /\ c \in calls /\ c.k = "thread" /\ c.id = Waiting
    /\ \/ /\ thread.n < MaxTurns
          /\ thread' = [n |-> thread.n + 1, loaded |-> thread.loaded \cup {thread.n + 1}]
          /\ calls' = (calls \ {c}) \cup {[c EXCEPT !.id = thread.n + 1]}
       \/ calls' = (calls \ {c}) \cup {[c EXCEPT !.id = 0]} /\ UNCHANGED thread
    /\ UNCHANGED <<host, out, turn>>

AgentTurn(c) ==
    /\ c \in calls /\ c.k = "turn" /\ c.id = Waiting
    /\ \/ \E n \in Turns :
             /\ turn[n] = NoTurn /\ \A m \in 1 .. n - 1 : turn[m] # NoTurn
             /\ turn' = [turn EXCEPT ![n] = [NoTurn EXCEPT !.of = c.of, !.inc = inc,
                                                !.thread = mem.thread, !.st = "new"]]
             /\ calls' = (calls \ {c}) \cup {[c EXCEPT !.id = n]}
       \/ calls' = (calls \ {c}) \cup {[c EXCEPT !.id = 0]} /\ UNCHANGED turn
    /\ UNCHANGED <<host, out, thread>>

AgentReply(c) ==
    /\ c \in calls /\ c.id # Waiting
    /\ calls' = calls \ {c}
    /\ Say([k |-> "reply", call |-> c.k, of |-> c.of, id |-> c.id])
    /\ UNCHANGED <<host, turn, thread>>

AgentStarts(n) ==
    /\ turn[n].st = "new"
    /\ turn' = [turn EXCEPT ![n].st = "running"]
    /\ Say([k |-> "started", n |-> n])
    /\ UNCHANGED <<host, calls, thread>>

AgentRequests(n, r) ==
    /\ turn[n].st = "running" /\ r \notin turn[n].made
    /\ Cardinality({x \in Turns \X Requests : x[2] \in turn[x[1]].made}) < MaxRequests
    /\ turn' = [turn EXCEPT ![n].made = @ \cup {r}]
    /\ Say([k |-> r, n |-> n])
    /\ UNCHANGED <<host, calls, thread>>

AgentEnds(n, end) ==
    /\ turn[n].st = "running"
    /\ turn' = [turn EXCEPT ![n].st = end]
    /\ Say([k |-> "ended", n |-> n])
    /\ UNCHANGED <<host, calls, thread>>

\* The VM goes, with broker and agent; the turn that ran is over.
Crash ==
    /\ mode # "down" /\ mode' = "down"
    /\ mem' = disk /\ fatal' = FALSE /\ held' = FALSE /\ conn' = FALSE
    /\ pending' = {} /\ cpending' = {} /\ replying' = {} /\ answering' = NoAnswer
    /\ job' = [o \in Tasks |-> NoJob]
    /\ calls' = {} /\ out' = <<>>
    /\ turn' = [n \in Turns |-> IF turn[n].st \in {"new", "running"}
                                 THEN [turn[n] EXCEPT !.st = "interrupted"] ELSE turn[n]]
    /\ thread' = [thread EXCEPT !.loaded = {}]
    /\ UNCHANGED <<inc, disk, ghost, mishaps>>

Agent ==
    \/ \E c \in calls : AgentThread(c) \/ AgentTurn(c) \/ AgentReply(c)
    \/ \E n \in Turns : \/ AgentStarts(n)
                        \/ \E r \in Requests : AgentRequests(n, r)
                        \/ \E end \in Ends : AgentEnds(n, end)

Broker(ok) ==
    \/ Open(ok) \/ Resume(ok) \/ (\E seen \in SUBSET Turns : ResumeAnswer(seen, ok))
    \/ \E o \in Tasks : Begin(o, ok) \/ ThreadStarted(o, ok) \/ Accepted(o, ok) \/ GiveUp(o, ok)
    \/ (\E k \in {"started", "ended"} : ReadTurn(k, ok)) \/ ReadAsk(ok) \/ ReadCall(ok)
    \/ (\E c \in Controls, n \in Turns : Permission(c, n, ok)) \/ Decide(ok) \/ Undecided(ok) \/ PermissionSent(ok)
    \/ \E n \in Turns : Reply(n, ok) \/ ReplySent(n, ok)
    \/ \E o, s \in Tasks : Continue(o, s, ok)

Next ==
    \/ \E ok \in BOOLEAN : Broker(ok)
    \/ (\E o \in Tasks : Send(o)) \/ ReadReply \/ Disconnect
    \/ Agent \/ Crash

Spec == Init /\ [][Next]_vars

-----------------------------------------------------------------------------
\* agent-environments.md, "never silently repeats the task": a task's turn/start is
\* written to the agent at most once, over retries, timeouts, failed journal writes and
\* restarts between any two steps.
DispatchedOnce == \A o \in Tasks : sent[o] <= 1

\* Whatever the agent may have been told, the journal on disk knows of: after any crash
\* the caller finds the task or the answer, and no new one under its id.
WriteAhead ==
    /\ \A o \in Tasks : sent[o] > 0 => disk.ops[o] # NoOp
    /\ \A n \in Turns :
         /\ answered["ask"][n] > 0 => \E c \in Controls :
                disk.controls[c].of = n /\ disk.controls[c].st \notin {"none", "refused", "unsupported"}
         /\ answered["call"][n] > 0 => disk.requests[n] \notin {"none", "pending", "fenced"}

\* A turn recorded for a task is the task's own, and an outcome recorded is how that
\* turn ended: neither a late event, nor recovery, nor a continuation mixes up two.
OutcomeTrue ==
    \A e \in {mem, disk}, o \in Tasks :
        LET p == e.ops[o] IN
        /\ p.turn # 0 => turn[p.turn].of = o
        /\ p.end # "none" => p.turn # 0 /\ turn[p.turn].st = p.end

\* The agent works on one turn at a time, on a thread that this agent process has
\* started or resumed: two turns would share the workspace.
OneTurn ==
    LET live == {n \in Turns : turn[n].st \in {"new", "running"}} IN
    Cardinality(live) <= 1 /\ \A n \in live : turn[n].thread \in thread.loaded

\* A result is given only when nothing works on the workspace or is about to, and
\* every task ever sent is over or was continued by one that is.
ResultWhole ==
    ResultReady =>
        /\ \A n \in Turns : turn[n].st \notin {"new", "running"}
        /\ \A c \in calls : c.k = "turn" => c.id # Waiting
        /\ \A o \in Tasks : sent[o] > 0 =>
              \E s \in {o, mem.bound[o].next} \cap Tasks : mem.ops[s].end # "none"

\* A request of the agent, for a permission or of a controller's function, is answered
\* at most once, whoever asks to answer it again under whatever id.
AnsweredOnce == \A r \in Requests, n \in Turns : answered[r][n] <= 1

\* Nothing is sent to the agent twice, and nothing before the journal on disk knows of it
\* (Submit, the permission route and ReplyController around their journal writes).
SentOnce == DispatchedOnce /\ AnsweredOnce /\ WriteAhead

\* The workspace has one worker: one turn at a time, and a result only after the last.
OneWorker == OneTurn /\ ResultWhole
=============================================================================

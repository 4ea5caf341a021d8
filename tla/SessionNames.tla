---------------------------- MODULE SessionNames ----------------------------
(* Creating sessions under one name, over the session host's own memory of operations,  *)
(* and what a restarted service makes of the journal (internal/sessiond/server.go and   *)
(* journal.go, internal/seatterm/host.go Create). Steps between two locks, two journal  *)
(* writes or a lock and a start are steps of their own.                                 *)
EXTENDS Naturals, Sequences, FiniteSets, SequencesExt

CONSTANTS CreateOps,    \* operation IDs of creates
          Callers,      \* create requests being served at one time
          MaxSess,      \* bound: programs started
          MaxServes,    \* bound: starts of the service
          LastAsked     \* bound: the start of the service that is asked for creates last

ASSUME NamesAssumption == MaxSess \in Nat /\ MaxServes \in Nat /\ LastAsked \in Nat

NoOp == "none"

VARIABLES
    serving,    \* the service: "down", "opening", "up"
    serveNo,    \* starts of the service so far: Server.serve
    todo,       \* sessions reconcile has still to journal
    sess,       \* every program: operation, service, state, whether its create was answered
    nSess,      \* programs started
    named,      \* Server.named of the name, 0 when it has none
    reserved,   \* Server.reserved of the name
    creates,    \* Server.creates: operations that reserved the name
    hostOps,       \* SessionHost.byOp: 0 unknown, -1 starting, or the session
    creq,       \* each request's create
    jrnl        \* journal.jsonl: the records that name a session

nvars == <<serving, serveNo, todo, sess, nSess, named, reserved, creates, hostOps, creq, jrnl>>

Ids == 1..MaxSess
IdleCreate == [pc |-> "idle", op |-> NoOp, retry |-> FALSE, t |-> 0]

NamesTypeOK ==
    /\ serving \in {"down", "opening", "up"} /\ serveNo \in 0..MaxServes
    /\ sess \in [Ids -> [op: CreateOps \cup {NoOp}, serve: 0..MaxServes, st: {"none", "running", "ending", "exited"}, named: BOOLEAN]]
    /\ nSess \in 0..MaxSess /\ named \in 0..MaxSess /\ reserved \in BOOLEAN /\ creates \subseteq CreateOps
    /\ hostOps \in [CreateOps -> -1..MaxSess]
    /\ \A q \in Callers : creq[q].pc \in {"idle", "reserved", "create", "start", "journal", "made", "publish", "stop"}
    /\ \A i \in DOMAIN jrnl : jrnl[i].kind \in {"create", "name", "exit", "reconcile"}

NamesInit ==
    /\ serving = "down" /\ serveNo = 0 /\ todo = <<>>
    /\ sess = [i \in Ids |-> [op |-> NoOp, serve |-> 0, st |-> "none", named |-> FALSE]] /\ nSess = 0
    /\ named = 0 /\ reserved = FALSE /\ creates = {} /\ hostOps = [o \in CreateOps |-> 0]
    /\ creq = [q \in Callers |-> IdleCreate]
    /\ jrnl = <<>>

Journaled(kind, i) == jrnl' = Append(jrnl, [kind |-> kind, s |-> i, serve |-> serveNo])
Running(i) == i # 0 /\ sess[i].st = "running"

(******************************* the service's life *********************************)
\* Fault: only the last service's sessions are looked for.
OpenSessionsLast ==
    {i \in Ids : \E k \in DOMAIN jrnl : jrnl[k].kind = "create" /\ jrnl[k].s = i /\ jrnl[k].serve = serveNo
                     /\ \A m \in DOMAIN jrnl : m > k => ~(jrnl[m].kind \in {"exit", "reconcile"} /\ jrnl[m].s = i)}

\* reconcile: the sessions with a create record that no exit or reconcile record follows.
OpenSessions ==
    {i \in Ids : \E k \in DOMAIN jrnl : jrnl[k].kind = "create" /\ jrnl[k].s = i
                     /\ \A m \in DOMAIN jrnl : m > k => ~(jrnl[m].kind \in {"exit", "reconcile"} /\ jrnl[m].s = i)}

\* Open: the lock is free once the service before has ended, and the journal is read back.
Open ==
    /\ serving = "down" /\ serveNo < MaxServes
    /\ serving' = "opening" /\ serveNo' = serveNo + 1
    /\ todo' = SetToSeq(OpenSessions)
    /\ UNCHANGED <<sess, nSess, named, reserved, creates, hostOps, creq, jrnl>>

\* reconcile: each of them is journaled as out of reach.
Reconcile ==
    /\ serving = "opening" /\ todo # <<>>
    /\ Journaled("reconcile", Head(todo))
    /\ todo' = Tail(todo)
    /\ UNCHANGED <<serving, serveNo, sess, nSess, named, reserved, creates, hostOps, creq>>

Serve ==
    /\ serving = "opening" /\ todo = <<>>
    /\ serving' = "up"
    /\ UNCHANGED <<serveNo, todo, sess, nSess, named, reserved, creates, hostOps, creq, jrnl>>

\* The service ends at any time, and its memory with it; its programs may go on.
Crash ==
    /\ serving # "down"
    /\ serving' = "down" /\ todo' = <<>>
    /\ named' = 0 /\ reserved' = FALSE /\ creates' = {} /\ hostOps' = [o \in CreateOps |-> 0]
    /\ creq' = [q \in Callers |-> IdleCreate]
    /\ UNCHANGED <<serveNo, sess, nSess, jrnl>>

(************************************ create ****************************************)
At(q, pc) == serving = "up" /\ creq[q].pc = pc

\* create: an operation the service knows is a retry and skips the check of the name.
ReserveName(q, o) ==
    /\ At(q, "idle") /\ serveNo <= LastAsked
    /\ IF o \in creates
         THEN /\ creq' = [creq EXCEPT ![q] = [pc |-> "create", op |-> o, retry |-> TRUE, t |-> 0]]
              /\ UNCHANGED <<reserved, creates>>
         ELSE /\ ~reserved /\ ~Running(named)
              /\ reserved' = TRUE /\ creates' = creates \cup {o}
              /\ creq' = [creq EXCEPT ![q] = [pc |-> "reserved", op |-> o, retry |-> FALSE, t |-> 0]]
    /\ UNCHANGED <<serving, serveNo, todo, sess, nSess, named, hostOps, jrnl>>

\* The request ends: a request that made nothing takes its own operation back, and the
\* name's reservation goes with the request that made it.
Answered(q, made) ==
    /\ creq' = [creq EXCEPT ![q] = IdleCreate]
    /\ reserved' = (reserved /\ creq[q].retry)
    /\ creates' = IF made \/ creq[q].retry THEN creates ELSE creates \ {creq[q].op}

\* listenState: the state channel is there before the program, or the create is refused.
ListenState(q) ==
    /\ At(q, "reserved")
    /\ \/ creq' = [creq EXCEPT ![q].pc = "create"] /\ UNCHANGED <<reserved, creates>>
       \/ Answered(q, FALSE)
    /\ UNCHANGED <<serving, serveNo, todo, sess, nSess, named, hostOps, jrnl>>

\* SessionHost.Create: an operation the host remembers is answered with its session.
HostCreate(q) ==
    /\ At(q, "create")
    /\ CASE hostOps[creq[q].op] = 0 ->
              \/ hostOps' = [hostOps EXCEPT ![creq[q].op] = -1]
                 /\ creq' = [creq EXCEPT ![q].pc = "start"] /\ UNCHANGED <<reserved, creates>>
              \/ Answered(q, FALSE) /\ UNCHANGED hostOps      \* too many sessions
         [] hostOps[creq[q].op] = -1 -> Answered(q, FALSE) /\ UNCHANGED hostOps
         [] OTHER -> Answered(q, TRUE) /\ UNCHANGED hostOps
    /\ UNCHANGED <<serving, serveNo, todo, sess, nSess, named, jrnl>>

\* startSession; a journal or a start that fails abandons the operation.
StartProgram(q) ==
    /\ At(q, "start")
    /\ \/ /\ nSess < MaxSess /\ nSess' = nSess + 1
          /\ sess' = [sess EXCEPT ![nSess + 1] = [op |-> creq[q].op, serve |-> serveNo, st |-> "running", named |-> FALSE]]
          /\ creq' = [creq EXCEPT ![q].pc = "journal", ![q].t = nSess + 1]
          /\ UNCHANGED <<hostOps, reserved, creates>>
       \/ /\ hostOps' = [hostOps EXCEPT ![creq[q].op] = 0]
          /\ Answered(q, FALSE)
          /\ UNCHANGED <<nSess, sess>>
    /\ UNCHANGED <<serving, serveNo, todo, named, jrnl>>

\* SessionHost.Create records the outcome.
JournalCreate(q) ==
    /\ At(q, "journal") /\ hostOps[creq[q].op] = -1
    /\ Journaled("create", creq[q].t)
    /\ hostOps' = [hostOps EXCEPT ![creq[q].op] = creq[q].t]
    /\ creq' = [creq EXCEPT ![q].pc = "made"]
    /\ UNCHANGED <<serving, serveNo, todo, sess, nSess, named, reserved, creates>>

\* pruneOps: only an ended session's operation is forgotten.
Prunable(o) == hostOps[o] > 0 /\ ~Running(hostOps[o])

\* pruneOps, at the bound other creates reach.
PruneOps(o) ==
    /\ serving = "up" /\ Prunable(o)
    /\ hostOps' = [hostOps EXCEPT ![o] = 0]
    /\ UNCHANGED <<serving, serveNo, todo, sess, nSess, named, reserved, creates, creq, jrnl>>

\* create: a program made while another session holds the name is ended, not named.
CheckName(q) ==
    /\ At(q, "made")
    /\ IF named # creq[q].t /\ Running(named)
         THEN /\ sess' = [sess EXCEPT ![creq[q].t].st = IF @ = "running" THEN "ending" ELSE @]
              /\ Answered(q, TRUE)
         ELSE /\ creq' = [creq EXCEPT ![q].pc = "publish"]
              /\ UNCHANGED <<sess, reserved, creates>>
    /\ UNCHANGED <<serving, serveNo, todo, nSess, named, hostOps, jrnl>>

\* create: the name record, then the name is the new session's.
Publish(q) ==
    /\ At(q, "publish")
    /\ Journaled("name", creq[q].t)
    /\ named' = creq[q].t
    /\ sess' = [sess EXCEPT ![creq[q].t].named = TRUE]
    /\ reserved' = (reserved /\ creq[q].retry) /\ creates' = creates \cup {creq[q].op}
    /\ creq' = [creq EXCEPT ![q] = IdleCreate]
    /\ UNCHANGED <<serving, serveNo, todo, nSess, hostOps>>

\* stop: the session the name has when the operation begins, never one that took it since.
StopBegin(q) ==
    /\ At(q, "idle") /\ named # 0
    /\ creq' = [creq EXCEPT ![q] = [IdleCreate EXCEPT !.pc = "stop", !.t = named]]
    /\ UNCHANGED <<serving, serveNo, todo, sess, nSess, named, reserved, creates, hostOps, jrnl>>
StopEnd(q) ==
    /\ At(q, "stop")
    /\ sess' = [sess EXCEPT ![creq[q].t].st = IF @ = "running" THEN "ending" ELSE @]
    /\ creq' = [creq EXCEPT ![q] = IdleCreate]
    /\ UNCHANGED <<serving, serveNo, todo, nSess, named, reserved, creates, hostOps, jrnl>>

\* pump: the program ends, and its exit is journaled by the service that started it.
SessionEnds(i) ==
    /\ sess[i].st = "running"
    /\ sess' = [sess EXCEPT ![i].st = "ending"]
    /\ UNCHANGED <<serving, serveNo, todo, nSess, named, reserved, creates, hostOps, creq, jrnl>>
JournalExit(i) ==
    /\ serving = "up" /\ sess[i].st = "ending" /\ sess[i].serve = serveNo
    /\ sess' = [sess EXCEPT ![i].st = "exited"]
    /\ Journaled("exit", i)
    /\ UNCHANGED <<serving, serveNo, todo, nSess, named, reserved, creates, hostOps, creq>>

\* pruneExitedLocked, at the bound other names reach: an ended session is listed no longer.
PruneExited ==
    /\ serving = "up" /\ named # 0 /\ ~Running(named)
    /\ named' = 0
    /\ UNCHANGED <<serving, serveNo, todo, sess, nSess, reserved, creates, hostOps, creq, jrnl>>

NamesNext ==
    \/ Open \/ Reconcile \/ Serve \/ Crash \/ PruneExited
    \/ \E q \in Callers : \/ \E o \in CreateOps : ReserveName(q, o)
                          \/ ListenState(q) \/ HostCreate(q) \/ StartProgram(q) \/ JournalCreate(q)
                          \/ CheckName(q) \/ Publish(q) \/ StopBegin(q) \/ StopEnd(q)
    \/ \E o \in CreateOps : PruneOps(o)
    \/ \E i \in Ids : SessionEnds(i) \/ JournalExit(i)

(********************************* properties ***************************************)
\* However its retries interleave with failures, evictions and other creates, one
\* operation has at most one program running under one service (create, SessionHost.Create).
CreateOnce ==
    \A i, k \in Ids : (Running(i) /\ Running(k) /\ sess[i].op = sess[k].op /\ sess[i].serve = sess[k].serve) => i = k

\* Once a service serves, every session an earlier one journaled as created has an exit
\* or one reconcile record, whichever services crashed while they reconciled (reconcile).
Accounted ==
    (serving = "up") =>
        \A k \in DOMAIN jrnl : (jrnl[k].kind = "create" /\ jrnl[k].serve < serveNo) =>
            LET s == jrnl[k].s
            IN /\ \E m \in DOMAIN jrnl : jrnl[m].s = s /\ jrnl[m].kind \in {"exit", "reconcile"}
               /\ Cardinality({m \in DOMAIN jrnl : jrnl[m].s = s /\ jrnl[m].kind = "reconcile"}) <= 1

\* "returns the sessions an earlier service created and never saw end" (journal.go:80): no
\* session whose exit was journaled is reconciled.
NeverSawEnd ==
    \A k, m \in DOMAIN jrnl : ~(k < m /\ jrnl[k].kind = "exit" /\ jrnl[m].kind = "reconcile" /\ jrnl[k].s = jrnl[m].s)

\* Programs and the journal agree: one program to an operation, one end to a program.
NamesTrue == CreateOnce /\ Accounted
=============================================================================

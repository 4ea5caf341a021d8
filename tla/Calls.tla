------------------------------- MODULE Calls -------------------------------
(* A call that changes something, made through a private journal by processes that may  *)
(* die at any point: the owner's client (internal/ownerclient) and the CI caller         *)
(* (internal/cicaller) over internal/calljournal, for one operation identity. The        *)
(* request may reach the service long after the client that sent it has gone.            *)
EXTENDS Naturals, Sequences, FiniteSets, SequencesExt

CONSTANTS Requests,     \* what a caller may ask under the operation's identity
          Outside,      \* what its client or its policy does not let it ask
          NoReq,
          Clients,      \* processes that may run at one time
          Styles,       \* the clients explored: "owner", "ci"
          MaxRuns       \* bound: runs of a client

NoClient == "none"

ASSUME CallsAssumption ==
    /\ NoReq \notin Requests /\ NoClient \notin Clients /\ MaxRuns \in Nat

VARIABLES
    style,      \* which client it is
    intent,     \* intent.json: the request the identity binds
    original,   \* original-request.json is saved (the CI caller)
    pending,    \* .pending- files: staged records a dead client left
    events,     \* the journal's events, in order
    lock,       \* the operation's lock: the client that has it
    client,     \* each client: its step, request, flags, record being saved, and run
    post,       \* requests on their way to the service
    answer,     \* the service's answers, by run
    served,     \* the service's record of the operation
    effect,     \* the request whose effect happened
    told,       \* a run has told its caller that the operation is done
    runs        \* runs so far, for MaxRuns

callVars == <<style, intent, original, pending, events, lock, client, post, answer, served, effect, told, runs>>
serverVars == <<post, answer, served, effect>>

Nothing == [kind |-> "none", st |-> "none", req |-> NoReq]
Record(kind, st, r) == [kind |-> kind, st |-> st, req |-> r]
Partial == Record("partial", "none", NoReq)
Absent == [pc |-> "gone", req |-> NoReq, recon |-> FALSE, retry |-> FALSE, existing |-> FALSE, put |-> Nothing, then |-> "gone", saw |-> Nothing, run |-> 0]
EventKinds == {"get", "post", "lost", "recon", "resp"}

CallsTypeOK ==
    /\ style \in Styles /\ intent \in Requests \cup {NoReq} /\ original \in BOOLEAN
    /\ \A e \in pending : e.kind \in EventKinds \cup {"intent", "original", "partial"}
    /\ \A i \in DOMAIN events : events[i].kind \in EventKinds
    /\ lock \in Clients \cup {NoClient}
    /\ \A k \in Clients : client[k].pc \in {"gone", "put", "original", "recover", "decide", "get", "judge", "post", "wait", "end"}
    /\ served \in {"none", "dispatching", "completed"} /\ effect \in Requests \cup {NoReq}
    /\ told \in BOOLEAN /\ runs \in 0..MaxRuns

CallsInit ==
    /\ style \in Styles /\ intent = NoReq /\ original = FALSE /\ pending = {} /\ events = <<>>
    /\ lock = NoClient /\ client = [k \in Clients |-> Absent]
    /\ post = {} /\ answer = [i \in 1..MaxRuns |-> "none"] /\ served = "none" /\ effect = NoReq /\ told = FALSE /\ runs = 0

Goes(k, pc) == client' = [client EXCEPT ![k].pc = pc]
Saves(k, record, then) == client' = [client EXCEPT ![k].pc = "put", ![k].put = record, ![k].then = then]

(******************************** the call journal **********************************)
\* Save, SaveBytes, Append: the record is staged, synced, linked and its staging removed.
Save(k) ==
    /\ client[k].pc = "put"
    /\ LET r == client[k].put
       IN CASE r.kind = "intent" -> intent' = r.req /\ UNCHANGED <<original, events>>
            [] r.kind = "original" -> original' = TRUE /\ UNCHANGED <<intent, events>>
            [] OTHER -> events' = Append(events, r) /\ UNCHANGED <<intent, original>>
    /\ client' = [client EXCEPT ![k].pc = client[k].then, ![k].saw = client[k].put, ![k].put = Nothing]
    /\ UNCHANGED <<style, pending, lock, serverVars, told, runs>>

\* The client dies, at any point; a record it was saving is left whole, partial or not at all.
Die(k) ==
    /\ client[k].pc # "gone"
    /\ pending' \in IF client[k].pc = "put" THEN {pending, pending \cup {Partial}, pending \cup {client[k].put}} ELSE {pending}
    /\ client' = [client EXCEPT ![k] = Absent] /\ lock' = NoClient
    /\ UNCHANGED <<style, intent, original, events, serverVars, told, runs>>

\* ownerclient finish: an answer or an inspection that shows the operation completed.
OwnerFinish(c) == c.saw.kind \in {"recon", "resp"} /\ c.saw.st = "completed"

\* cicaller finish, matchesAttempt: an attempt that is the one the caller asked for.
CIFinish(c) == c.saw.kind \in {"recon", "resp"} /\ c.saw.st \in {"dispatching", "completed"} /\ c.saw.req = c.req

\* The run is over: it tells its caller, and its lock goes with it.
End(k) ==
    /\ client[k].pc = "end"
    /\ told' = (told \/ IF style = "ci" THEN CIFinish(client[k]) ELSE OwnerFinish(client[k]))
    /\ client' = [client EXCEPT ![k] = Absent] /\ lock' = NoClient
    /\ UNCHANGED <<style, intent, original, pending, events, serverVars, runs>>

(************************************ a run *****************************************)
\* Fault: the identity's request is not compared.
ConflictNever(r) == FALSE

\* Run: the identity already binds another request.
Conflict(r) == intent \notin {NoReq, r}

\* route, the private request's fields; requestRoute, the CI caller's fixed policy.
OwnerRoute(r) == r \notin Outside
RequestRoute(r) == r \notin Outside

\* A request the client may not make is refused before anything is recorded.
Refuse(k, r) ==
    /\ client[k].pc = "gone" /\ runs < MaxRuns
    /\ ~IF style = "ci" THEN RequestRoute(r) ELSE OwnerRoute(r)
    /\ runs' = runs + 1
    /\ UNCHANGED <<style, intent, original, pending, events, lock, client, serverVars, told>>

\* Run: under the lock, a staged intent of this very request is completed, and a first one saved.
Enter(k, r, recon, retry) ==
    /\ client[k].pc = "gone" /\ lock = NoClient /\ runs < MaxRuns
    /\ IF style = "ci" THEN RequestRoute(r) ELSE OwnerRoute(r)
    /\ LET staged == Record("intent", "none", r)
           sealed == intent = NoReq /\ staged \in pending
           next   == IF style = "ci" THEN "original" ELSE "recover"
           ask    == [Absent EXCEPT !.req = r, !.recon = recon, !.retry = retry, !.run = runs + 1]
       IN /\ intent' = IF sealed THEN r ELSE intent
          /\ pending' = IF sealed THEN pending \ {staged} ELSE pending
          /\ client' = [client EXCEPT ![k] =
                IF ~sealed /\ (Conflict(r) \/ (intent # NoReq /\ staged \in pending)) THEN [ask EXCEPT !.pc = "end"]
                ELSE IF sealed \/ intent # NoReq THEN [ask EXCEPT !.pc = next, !.existing = TRUE]
                ELSE [ask EXCEPT !.pc = "put", !.put = staged, !.then = next]]
    /\ lock' = k /\ runs' = runs + 1
    /\ UNCHANGED <<style, original, events, serverVars, told>>

\* cicaller.Run: the sealed original request, which a later run must find.
Original(k) ==
    /\ client[k].pc = "original"
    /\ LET staged == Record("original", "none", client[k].req)
       IN IF client[k].existing
            THEN /\ original' = (original \/ staged \in pending)
                 /\ pending' = pending \ {staged}
                 /\ Goes(k, IF original' THEN "recover" ELSE "end")
            ELSE Saves(k, staged, "recover") /\ UNCHANGED <<original, pending>>
    /\ UNCHANGED <<style, intent, events, lock, serverVars, told, runs>>

\* Recover: a whole event a dead client left is completed; anything else ends the run.
Recover(k) ==
    /\ client[k].pc = "recover"
    /\ IF \A e \in pending : e.kind \in EventKinds
         THEN events' = events \o SetToSeq(pending) /\ pending' = {} /\ Goes(k, "decide")
         ELSE Goes(k, "end") /\ UNCHANGED <<events, pending>>
    /\ UNCHANGED <<style, intent, original, lock, serverVars, told, runs>>

Latest == IF events = <<>> THEN Nothing ELSE Last(events)

\* ownerclient.Run: what the journal has is answered from it, unless a fresh inspection is
\* asked for; an operation that exists is not submitted again without one.
OwnerAnswered(k) == ~client[k].recon /\ (Latest # Nothing \/ client[k].existing)

\* cicaller.Run: only an admission is answered from the journal.
CIAnswered == Latest.kind = "resp" /\ Latest.st \in {"dispatching", "completed"}
Answered(k) == IF style = "ci" THEN CIAnswered ELSE OwnerAnswered(k)

\* Run: the original operation is inspected before it is submitted again.
Inspects(k) == style = "ci" \/ client[k].existing

Decide(k) ==
    /\ client[k].pc = "decide"
    /\ CASE Answered(k) -> client' = [client EXCEPT ![k].pc = "end", ![k].saw = Latest]
         [] ~Answered(k) /\ Inspects(k) -> Saves(k, Record("get", "none", NoReq), "get")
         [] OTHER -> Saves(k, Record("post", "none", client[k].req), "post")
    /\ UNCHANGED <<style, intent, original, pending, events, lock, serverVars, told, runs>>

\* exchange of a GET: what the service has of the operation, or a lost transport.
Inspect(k) ==
    /\ client[k].pc = "get"
    /\ \/ Saves(k, Record("recon", served, effect), IF served = "none" THEN "judge" ELSE "end")
       \/ Saves(k, Record("lost", "none", NoReq), "end")
    /\ UNCHANGED <<style, intent, original, pending, events, lock, serverVars, told, runs>>

\* Run: absent, an operation that existed is submitted again only when asked to be.
Judge(k) ==
    /\ client[k].pc = "judge"
    /\ IF client[k].existing /\ ~client[k].retry
         THEN Goes(k, "end")
         ELSE Saves(k, Record("post", "none", client[k].req), "post")
    /\ UNCHANGED <<style, intent, original, pending, events, lock, serverVars, told, runs>>

\* exchange of the POST: the request is sent, and answered or given up.
Submit(k) ==
    /\ client[k].pc = "post"
    /\ post' = post \cup {[req |-> client[k].req, run |-> client[k].run]}
    /\ Goes(k, "wait")
    /\ UNCHANGED <<style, intent, original, pending, events, lock, answer, served, effect, told, runs>>
Hear(k) ==
    /\ client[k].pc = "wait"
    /\ \/ answer[client[k].run] # "none" /\ Saves(k, Record("resp", answer[client[k].run], effect), "end")
       \/ Saves(k, Record("lost", "none", NoReq), "end")
    /\ UNCHANGED <<style, intent, original, pending, events, lock, serverVars, told, runs>>

(********************************** the service *************************************)
\* The service takes a request, whoever waits for it: it refuses it, or records it and acts.
Serve(m) ==
    /\ m \in post /\ post' = post \ {m}
    /\ \/ /\ served = "none" /\ answer' = [answer EXCEPT ![m.run] = "refused"]
          /\ UNCHANGED <<served, effect>>
       \/ /\ served = "none" /\ served' \in {"dispatching", "completed"} /\ effect' = m.req
          /\ answer' = [answer EXCEPT ![m.run] = served']
       \/ /\ served # "none"
          /\ answer' = [answer EXCEPT ![m.run] = IF m.req = effect THEN served ELSE "conflict"]
          /\ UNCHANGED <<served, effect>>
    /\ UNCHANGED <<style, intent, original, pending, events, lock, client, told, runs>>

Complete ==
    /\ served = "dispatching" /\ served' = "completed"
    /\ UNCHANGED <<style, intent, original, pending, events, lock, client, post, answer, effect, told, runs>>

CallsNext ==
    \/ Complete \/ (\E k \in Clients, r \in Outside : Refuse(k, r)) \/ \E m \in post : Serve(m)
    \/ \E k \in Clients :
         \/ \E r \in Requests \cup Outside, recon, retry \in BOOLEAN : Enter(k, r, recon, retry)
         \/ Save(k) \/ Die(k) \/ End(k) \/ Original(k) \/ Recover(k) \/ Decide(k)
         \/ Inspect(k) \/ Judge(k) \/ Submit(k) \/ Hear(k)

(********************************* properties ***************************************)
Once == INSTANCE CallOnce WITH bound <- intent, learned <- told

\* "Only a fresh durable_non_acceptance observation and explicit retry flag permit
\* resubmission": between two submissions lies an inspection that found nothing.
FreshAbsence ==
    \A i, j \in DOMAIN events : (i < j /\ events[i].kind = "post" /\ events[j].kind = "post") =>
        \E m \in i..j : events[m].kind = "recon" /\ events[m].st = "none"

\* The call is one: whatever dies, is lost or arrives late, the identity binds one request,
\* the effect is of that request and happens once, and a caller is told that it happened only
\* when it did (ownerclient.Run, cicaller.Run, calljournal).  The detailed call implements
\* the abstract one, and submits again only on a fresh absence.
CallsOnce == Once!Spec /\ []FreshAbsence
=============================================================================

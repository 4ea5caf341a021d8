----------------------------- MODULE CodexSeat ------------------------------
(* The Codex seat of a guest (internal/codexseat, cmd/pomar-agent-guest): the root       *)
(* broker starts the one actor of a seat in the one conversation bound to it, and its    *)
(* owner may abandon a start that never bound. The broker, the actor, what the actor     *)
(* leaves running and the guest end on their own.                                        *)
EXTENDS Naturals, FiniteSets

CONSTANTS Consoles,     \* console connections at one time
          ResetOps,     \* the owner's reset operations
          MaxLaunches, MaxFresh, MaxThreads, MaxResets   \* bounds

ASSUME SeatAssumption == "free" \notin Consoles /\ "free" \notin ResetOps /\ Consoles \cap ResetOps = {}

VARIABLES
    broker,     \* "down", "up", or "dead": ended with its sockets left in place
    seatRec,    \* codex-thread.json
    rollouts,   \* conversations in the seat's home: the launch, cli root or not, written or not
    mains,      \* launches whose actor runs
    scope,      \* launches with any process left
    seatLock,   \* who has actor.lock
    start,      \* each console's start
    reset,      \* each reset operation: its step and the record it is about
    archive,    \* each reset operation's files
    removed,    \* records that were removed
    launches, nonces, resets   \* counters, for the bounds

seatVars == <<broker, seatRec, rollouts, mains, scope, seatLock, start, reset, archive, removed, launches, nonces, resets>>
codingVars == <<rollouts, mains, scope>>
resetVars == <<reset, archive, removed, resets>>

NoRec == [st |-> "none", nonce |-> 0, thread |-> 0]
Idle == [pc |-> "idle", rec |-> NoRec, run |-> 0]
NoReset == [pc |-> "idle", want |-> NoRec]
Torn == [st |-> "torn", nonce |-> 0, thread |-> 0]
Unlocked == "free"

SeatTypeOK ==
    /\ broker \in {"down", "up", "dead"} /\ seatRec.st \in {"none", "starting", "bound"}
    /\ mains \subseteq scope /\ scope \subseteq 1..MaxLaunches
    /\ \A k \in Consoles : start[k].pc \in {"idle", "asked", "read", "launch", "wait"}
    /\ \A o \in ResetOps : reset[o].pc \in {"idle", "original", "intent", "remove", "receipt"}

SeatInit ==
    /\ broker = "down" /\ seatRec = NoRec /\ rollouts = {} /\ mains = {} /\ scope = {} /\ seatLock = Unlocked
    /\ start = [k \in Consoles |-> Idle] /\ reset = [o \in ResetOps |-> NoReset]
    /\ archive = [o \in ResetOps |-> [original |-> NoRec, intent |-> NoRec, receipt |-> NoRec]]
    /\ removed = {} /\ launches = 0 /\ nonces = 0 /\ resets = 0

(********************************** the broker **************************************)
\* runCodexSeat, prepareCodexCustody: sockets that exist are not replaced.
BrokerStarts ==
    /\ broker = "down" /\ broker' = "up"
    /\ UNCHANGED <<seatRec, codingVars, seatLock, start, resetVars, launches, nonces>>

\* What the broker was saving of a reset is torn, whole or not there.
Left(o) ==
    CASE reset[o].pc = "original" -> {archive[o], [archive[o] EXCEPT !.original = IF @ = NoRec THEN Torn ELSE @]}
      [] reset[o].pc = "intent"   -> {archive[o], [archive[o] EXCEPT !.intent = IF @ = NoRec THEN Torn ELSE @]}
      [] reset[o].pc = "receipt"  -> {archive[o], [archive[o] EXCEPT !.receipt = IF @ = NoRec THEN Torn ELSE @]}
      [] OTHER -> {archive[o]}

\* The broker ends: its starts and resets with it, their lock too, the actor not. Ended by a
\* listener's error it removes its sockets, else only the guest's next boot does.
BrokerEnds ==
    /\ broker = "up" /\ broker' \in {"down", "dead"}
    /\ archive' \in {a \in [ResetOps -> UNION {Left(o) : o \in ResetOps}] : \A o \in ResetOps : a[o] \in Left(o)}
    /\ start' = [k \in Consoles |-> Idle] /\ reset' = [o \in ResetOps |-> NoReset] /\ seatLock' = Unlocked
    /\ UNCHANGED <<seatRec, codingVars, removed, launches, nonces, resets>>

Reboot ==
    /\ broker # "up" /\ broker' = "down" /\ mains' = {} /\ scope' = {}
    /\ UNCHANGED <<seatRec, rollouts, seatLock, start, resetVars, launches, nonces>>

(*********************************** a start ****************************************)
\* ServeConsole: a console asks for the actor.
Ask(k) ==
    /\ broker = "up" /\ start[k] = Idle /\ launches < MaxLaunches
    /\ start' = [start EXCEPT ![k].pc = "asked"]
    /\ UNCHANGED <<broker, seatRec, codingVars, seatLock, resetVars, launches, nonces>>

\* noCodingProcesses: the process table, not the lock, tells that the last actor is gone.
NoCodingProcesses == scope = {}

\* startChecked: under the lock, with nothing left running, the record says what to do.
Admit(k) ==
    /\ start[k].pc = "asked" /\ (seatRec = NoRec => nonces < MaxFresh)
    /\ IF seatLock # Unlocked \/ ~NoCodingProcesses \/ seatRec.st = "starting" \/ (seatRec = NoRec /\ rollouts # {})
         THEN start' = [start EXCEPT ![k] = Idle] /\ UNCHANGED <<seatLock, nonces>>
         ELSE /\ seatLock' = k
              /\ nonces' = IF seatRec = NoRec THEN nonces + 1 ELSE nonces
              /\ start' = [start EXCEPT ![k] = [pc |-> IF seatRec = NoRec THEN "read" ELSE "launch", run |-> 0,
                              rec |-> IF seatRec = NoRec THEN [st |-> "starting", nonce |-> nonces', thread |-> 0] ELSE seatRec]]
    /\ UNCHANGED <<broker, seatRec, codingVars, resetVars, launches>>

\* startChecked: a fresh start is recorded before it is launched; the executable may be refused.
WriteStarting(k) ==
    /\ start[k].pc = "read"
    /\ \/ seatRec' = start[k].rec /\ start' = [start EXCEPT ![k].pc = "launch"] /\ UNCHANGED seatLock
       \/ start' = [start EXCEPT ![k] = Idle] /\ seatLock' = Unlocked /\ UNCHANGED seatRec
    /\ UNCHANGED <<broker, codingVars, resetVars, launches, nonces>>

\* launchNative: the actor starts, or does not.
Launch(k) ==
    /\ start[k].pc = "launch"
    /\ \/ /\ launches < MaxLaunches /\ launches' = launches + 1 /\ mains' = mains \cup {launches'} /\ scope' = scope \cup {launches'}
          /\ start' = [start EXCEPT ![k].pc = "wait", ![k].run = launches'] /\ UNCHANGED seatLock
       \/ start' = [start EXCEPT ![k] = Idle] /\ seatLock' = Unlocked /\ UNCHANGED <<launches, mains, scope>>
    /\ UNCHANGED <<broker, seatRec, rollouts, resetVars, nonces>>

\* bind: the threads of cli roots, all of whose first lines can be read.
Candidates == {t.id : t \in {t \in rollouts : t.root}}
Bindable == (\A t \in rollouts : t.whole) /\ Cardinality(Candidates) = 1

\* waitBinding: at a tick, the one new conversation is bound.
Bind(k) ==
    /\ start[k].pc = "wait" /\ start[k].rec.st = "starting" /\ Bindable
    /\ seatRec' = [start[k].rec EXCEPT !.st = "bound", !.thread = CHOOSE t \in Candidates : TRUE]
    /\ start' = [start EXCEPT ![k].rec = seatRec']
    /\ UNCHANGED <<broker, codingVars, seatLock, resetVars, launches, nonces>>

\* waitBinding: the actor ended; the conversation is bound now or the start stays held.
Waited(k) ==
    /\ start[k].pc = "wait" /\ start[k].run \notin mains
    /\ seatRec' = IF start[k].rec.st = "starting" /\ Bindable
                    THEN [start[k].rec EXCEPT !.st = "bound", !.thread = CHOOSE t \in Candidates : TRUE] ELSE seatRec
    /\ start' = [start EXCEPT ![k] = Idle] /\ seatLock' = Unlocked
    /\ UNCHANGED <<broker, codingVars, resetVars, launches, nonces>>

(************************************ the actor *************************************)
\* Codex begins a conversation, of its own or of a helper, and writes its first line later.
NewThread(r, root) ==
    /\ r \in mains /\ Cardinality(rollouts) < MaxThreads
    /\ rollouts' = rollouts \cup {[id |-> Cardinality(rollouts) + 1, run |-> r, root |-> root, whole |-> FALSE]}
    /\ UNCHANGED <<broker, seatRec, mains, scope, seatLock, start, resetVars, launches, nonces>>
FirstLine(t) ==
    /\ t \in rollouts /\ ~t.whole /\ t.run \in mains
    /\ rollouts' = (rollouts \ {t}) \cup {[t EXCEPT !.whole = TRUE]}
    /\ UNCHANGED <<broker, seatRec, mains, scope, seatLock, start, resetVars, launches, nonces>>
ActorEnds(r) ==
    /\ r \in mains /\ mains' = mains \ {r} /\ scope' \in {scope, scope \ {r}}
    /\ UNCHANGED <<broker, seatRec, rollouts, seatLock, start, resetVars, launches, nonces>>
OrphansEnd(r) ==
    /\ r \in scope \ mains /\ scope' = scope \ {r}
    /\ UNCHANGED <<broker, seatRec, rollouts, mains, seatLock, start, resetVars, launches, nonces>>

(************************************ a reset ***************************************)
ResetGoes(o, pc) == reset' = [reset EXCEPT ![o].pc = pc]
ResetEnds(o) == reset' = [reset EXCEPT ![o] = NoReset] /\ seatLock' = IF seatLock = o THEN Unlocked ELSE seatLock

\* abandonChecked: an operation that has its receipt is answered with it; else, under the lock
\* and with nothing running, an unbound start without a conversation is abandoned, or the
\* operation's own removal, cut off before its receipt, is finished.
Abandons(want) == seatRec = want /\ seatRec.st = "starting" /\ rollouts = {}
Resumes(o, want) == seatRec = NoRec /\ archive[o].intent = want /\ archive[o].original = want /\ rollouts = {}
AbandonStart(o, want) ==
    /\ broker = "up" /\ reset[o].pc = "idle" /\ resets < MaxResets /\ resets' = resets + 1
    /\ IF archive[o].receipt = NoRec /\ seatLock = Unlocked /\ NoCodingProcesses /\ (Abandons(want) \/ Resumes(o, want))
         THEN /\ reset' = [reset EXCEPT ![o] = [pc |-> IF Abandons(want) THEN "original" ELSE "receipt", want |-> want]]
              /\ seatLock' = o
         ELSE UNCHANGED <<reset, seatLock>>
    /\ UNCHANGED <<broker, seatRec, codingVars, start, archive, removed, launches, nonces>>

\* write: a file is created and synced; one that exists must say the same.
Writes(o, file, next) ==
    IF archive[o][file] \in {NoRec, reset[o].want}
      THEN archive' = [archive EXCEPT ![o][file] = reset[o].want] /\ ResetGoes(o, next) /\ UNCHANGED seatLock
      ELSE ResetEnds(o) /\ UNCHANGED archive

\* Fault: the record is removed before its copy is made.
PutOriginalLater(o) ==
    /\ reset[o].pc = "original" /\ ResetGoes(o, "intent") /\ UNCHANGED <<archive, seatLock>>
    /\ UNCHANGED <<broker, seatRec, codingVars, start, removed, resets, launches, nonces>>

PutOriginal(o) ==
    /\ reset[o].pc = "original" /\ Writes(o, "original", "intent")
    /\ UNCHANGED <<broker, seatRec, codingVars, start, removed, resets, launches, nonces>>
PutIntent(o) ==
    /\ reset[o].pc = "intent" /\ Writes(o, "intent", "remove")
    /\ UNCHANGED <<broker, seatRec, codingVars, start, removed, resets, launches, nonces>>

\* The very record that was read is removed.
RemoveRecord(o) ==
    /\ reset[o].pc = "remove"
    /\ IF seatRec = reset[o].want
         THEN seatRec' = NoRec /\ removed' = removed \cup {reset[o].want} /\ ResetGoes(o, "receipt") /\ UNCHANGED seatLock
         ELSE ResetEnds(o) /\ UNCHANGED <<seatRec, removed>>
    /\ UNCHANGED <<broker, codingVars, start, archive, resets, launches, nonces>>
PutReceipt(o) ==
    /\ reset[o].pc = "receipt"
    /\ archive' = [archive EXCEPT ![o].receipt = IF @ = NoRec THEN reset[o].want ELSE @] /\ ResetEnds(o)
    /\ UNCHANGED <<broker, seatRec, codingVars, start, removed, resets, launches, nonces>>

SeatNext ==
    \/ BrokerStarts \/ BrokerEnds \/ Reboot
    \/ \E k \in Consoles : Ask(k) \/ Admit(k) \/ WriteStarting(k) \/ Launch(k) \/ Bind(k) \/ Waited(k)
    \/ \E r \in scope : ActorEnds(r) \/ OrphansEnd(r) \/ \E root \in BOOLEAN : NewThread(r, root)
    \/ \E t \in rollouts : FirstLine(t)
    \/ \E o \in ResetOps :
         \/ \E want \in {seatRec, archive[o].original} \ {NoRec, Torn} : AbandonStart(o, want)
         \/ PutOriginal(o) \/ PutIntent(o) \/ RemoveRecord(o) \/ PutReceipt(o)

(********************************* properties ***************************************)
\* One actor, and nothing another one left: a launch finds no coding process, though the
\* broker that launched the last one may be gone and its lock with it.
OneActor == Cardinality(scope) <= 1

\* Nothing uncertain is forgotten: the record of every start that may have had effects is in
\* place or, removed by its owner, archived as it was; a receipt is of a removed record.
EvidenceHeld ==
    /\ \A n \in 1..nonces : (\E r \in removed : r.nonce = n) => \E o \in ResetOps : archive[o].original.nonce = n
    /\ \A t \in rollouts : seatRec.st # "none"
    /\ \A o \in ResetOps : archive[o].receipt \notin {NoRec, Torn} =>
          archive[o].receipt \in removed /\ archive[o].receipt # seatRec

\* The seat has one actor, and an account of every start it made (Supervisor, Reset).
SeatHeld == OneActor /\ EvidenceHeld
=============================================================================

------------------------------- MODULE Venue -------------------------------
(***************************************************************************)
(* The data root and its cleanup ledger (internal/venue).                  *)
(*                                                                         *)
(* Every VM, image, volume and download Pomar creates is an object.  Its   *)
(* life is a series of lines in ledger.jsonl: intent, created or failed,   *)
(* removed.  The Venue keeps the replayed state of those lines in v.objs   *)
(* under v.mu, and deletes data outside v.mu behind a reservation          *)
(* (v.teardowns).                                                          *)
(*                                                                         *)
(* The ledger file is represented by `durable', the state a replay of it   *)
(* would produce; objs is the state of the running process.  A caller is   *)
(* a goroutine of the manager that is creating or removing one object.     *)
(***************************************************************************)
EXTENDS Naturals, FiniteSets

CONSTANTS
    Objects,      \* object keys, kind/id
    Callers,      \* goroutines that create and remove objects
    AttemptObjs,  \* objects of class attempt; the others are caches
    CacheDirs,    \* long-lived directories, ledgered by EnsureCache
    Nested,       \* pairs <<a, b>>: b's path lies strictly inside a's path
    LockMade,     \* objects made under the manager's m.mu, or before it serves
    Legacy,       \* objects ledgered as created before classes existed
    AppendFaults  \* faults of append beyond writing nothing: {} or {"late"}

ASSUME VenueAssumption ==
    /\ Objects # {}
    /\ AttemptObjs \subseteq Objects
    /\ CacheDirs \subseteq Objects \ AttemptObjs
    /\ Nested \subseteq (CacheDirs \X Objects)
    /\ \A o \in Objects : <<o, o>> \notin Nested
    /\ LockMade \subseteq Objects
    /\ Legacy \subseteq Objects
    /\ AppendFaults \subseteq {"late"}

VARIABLES
    up,        \* a process has the venue open
    objs,      \* v.objs
    durable,   \* what replaying ledger.jsonl produces
    reserved,  \* the keys of v.teardowns
    data,      \* does the object's own path exist on disk
    job        \* what each caller is doing

vars == <<up, objs, durable, reserved, data, job>>

Class == {"attempt", "cache"}
Op    == {"intent", "created", "failed", "removed"}

\* Last is "none" for a key the ledger never named.  created is TRUE once
\* creation has succeeded (Object.Created is not the zero time); it survives
\* a reuse of the id, because apply never clears it.
Object == [last : Op \cup {"none"}, class : Class \cup {"none"}, created : BOOLEAN]

NoObject == [last |-> "none", class |-> "none", created |-> FALSE]

Phase == {"idle", "make", "made", "broken", "abandon", "removing", "removed"}

Idle == [pc |-> "idle", obj |-> CHOOSE o \in Objects : TRUE, original |-> NoObject]

TypeOK ==
    /\ up \in BOOLEAN
    /\ objs \in [Objects -> Object]
    /\ durable \in [Objects -> Object]
    /\ reserved \subseteq Objects
    /\ data \in [Objects -> BOOLEAN]
    /\ job \in [Callers -> [pc : Phase, obj : Objects, original : Object]]

-----------------------------------------------------------------------------
\* An object is open from its intent until its removal is recorded.
Open(ob) == ob.last \notin {"none", "removed"}

\* Venue.apply: the effect of one ledger line on one object.
Apply(ob, op, cls) ==
    CASE op = "intent"   -> [ob EXCEPT !.last = "intent", !.class = cls]
      [] op = "classify" -> [ob EXCEPT !.class = cls]
      [] op = "created"  -> [ob EXCEPT !.last = "created", !.created = TRUE]
      [] OTHER           -> [ob EXCEPT !.last = op]

\* Venue.append: "ok" writes, syncs and applies the line; "lost" returns an
\* error with nothing in the file; "late" returns an error (Sync or Close
\* failed) although the line is in the file, so memory does not apply it.
Append(o, op, cls, outcome) ==
    /\ objs' = IF outcome = "ok"
               THEN [objs EXCEPT ![o] = Apply(@, op, cls)] ELSE objs
    /\ durable' = IF outcome = "lost"
                  THEN durable ELSE [durable EXCEPT ![o] = Apply(@, op, cls)]

Outcomes == {"ok", "lost"} \cup AppendFaults

Overlaps(a, b) == a = b \/ <<a, b>> \in Nested \/ <<b, a>> \in Nested

\* A reservation that protects its own key only.
RemovalConflictByKey(o) == o \in reserved

\* Venue.removalConflict: a reservation protects its object and every
\* overlapping path.
RemovalConflict(o) == \E r \in reserved : Overlaps(o, r)

\* Venue.mark refuses an object under removal or without an open intent.
MayMark(o) == o \notin reserved /\ Open(objs[o])

\* A caller between the intent of its object and the end of its creation.
Making(c) == job[c].pc \in {"make", "made", "broken", "abandon"}

BeingMade(o) == \E c \in Callers : Making(c) /\ job[c].obj = o

\* An eviction that does not ask what the object holds.
ContainsNothing(o) == FALSE

\* cache.Contains: o's path holds another open object.
Contains(o) == \E p \in Objects : <<o, p>> \in Nested /\ Open(objs[p])

Become(c, pc, o) == job' = [job EXCEPT ![c] = [pc |-> pc, obj |-> o, original |-> NoObject]]

Return(c) == job' = [job EXCEPT ![c] = Idle]

-----------------------------------------------------------------------------
Init ==
    /\ up = TRUE
    /\ objs = [o \in Objects |-> IF o \in Legacy
                  THEN [last |-> "created", class |-> "none", created |-> TRUE]
                  ELSE NoObject]
    /\ durable = objs
    /\ reserved = {}
    /\ data = [o \in Objects |-> o \in Legacy]
    /\ job = [c \in Callers |-> Idle]

\* Venue.Intent: the line is written and synced before anything is created.
\* A refused or failed intent creates nothing.  One goroutine at a time makes
\* an object (m.mu, or syncMu for a mirror).
Intent(c, o) ==
    /\ up /\ job[c].pc = "idle"
    /\ ~RemovalConflict(o)
    /\ ~Open(objs[o])
    /\ ~BeingMade(o)
    /\ \E r \in Outcomes :
        /\ Append(o, "intent", IF o \in AttemptObjs THEN "attempt" ELSE "cache", r)
        /\ IF r = "ok" THEN Become(c, "make", o) ELSE UNCHANGED job
    /\ UNCHANGED <<up, reserved, data>>

\* The caller creates the object's data; creation may fail half way.  A
\* failed EnsureCache just returns its error.
Make(c) ==
    LET o == job[c].obj IN
    /\ job[c].pc = "make"
    /\ \/ data' = [data EXCEPT ![o] = TRUE] /\ Become(c, "made", o)
       \/ /\ data' \in {data, [data EXCEPT ![o] = TRUE]}
          /\ IF o \in CacheDirs THEN Return(c) ELSE Become(c, "broken", o)
    /\ UNCHANGED <<up, objs, durable, reserved>>

\* Venue.Created.  A caller told of an error returns and leaves the object
\* open, or (volumes, attempt records) goes down its failure path.
Created(c) ==
    LET o == job[c].obj
        Refused == Return(c) \/ (o \notin CacheDirs /\ Become(c, "broken", o))
    IN
    /\ job[c].pc = "made"
    /\ \/ /\ MayMark(o)
          /\ \E r \in Outcomes :
              /\ Append(o, "created", "none", r)
              /\ IF r = "ok" THEN Return(c) ELSE Refused
       \/ /\ ~MayMark(o)
          /\ Refused
          /\ UNCHANGED <<objs, durable>>
    /\ UNCHANGED <<up, reserved, data>>

\* Venue.Failed: the object stays open until its teardown.  Callers ignore
\* the error and, but for the one-shot commands, tear the object down next.
Failed(c) ==
    LET o == job[c].obj IN
    /\ job[c].pc = "broken"
    /\ \/ /\ MayMark(o)
          /\ \E r \in Outcomes : Append(o, "failed", "none", r)
       \/ /\ ~MayMark(o)
          /\ UNCHANGED <<objs, durable>>
    /\ Return(c) \/ Become(c, "abandon", o)
    /\ UNCHANGED <<up, reserved, data>>

\* Venue.Classify gives a class, once, to an object ledgered without one.
Classify(o, cls) ==
    /\ up
    /\ o \notin reserved
    /\ Open(objs[o])
    /\ objs[o].class = "none"
    /\ \E r \in Outcomes : Append(o, "classify", cls, r)
    /\ UNCHANGED <<up, reserved, data, job>>

\* Venue.EnsureCache when the object is already open: MkdirAll under v.mu.
\* Otherwise it is Intent(c, o) and what follows it.
EnsureCache(c, o) ==
    /\ up /\ job[c].pc = "idle"
    /\ o \in CacheDirs
    /\ ~RemovalConflict(o)
    /\ Open(objs[o])
    /\ data' = [data EXCEPT ![o] = TRUE]
    /\ UNCHANGED <<up, objs, durable, reserved, job>>

\* The locked first half of teardownNoteWith: reserve the object's path.
Reserve(c, o) ==
    /\ Open(objs[o])
    /\ ~RemovalConflict(o)
    /\ reserved' = reserved \cup {o}
    /\ job' = [job EXCEPT ![c] = [pc |-> "removing", obj |-> o, original |-> objs[o]]]
    /\ UNCHANGED <<up, objs, durable, data>>

\* Teardown of an object nothing is nested in, and TeardownNote of a cache
\* that Manager.cachesLocked evicts: never one that holds an open object.
\* What is made under m.mu is not removed while it is being made.
Teardown(c, o) ==
    /\ up /\ job[c].pc = "idle"
    /\ objs[o].class \in Class
    /\ o \in LockMade => ~BeingMade(o)
    /\ ~Contains(o)
    /\ Reserve(c, o)

\* The Teardown on a failure path, right after Failed; refused if the object
\* is no longer open or is already being removed.
Abandon(c) ==
    LET o == job[c].obj IN
    /\ job[c].pc = "abandon"
    /\ \/ Reserve(c, o)
       \/ /\ ~Open(objs[o]) \/ RemovalConflict(o)
          /\ Return(c)
          /\ UNCHANGED <<up, objs, durable, reserved, data>>

\* A removal that goes on although os.RemoveAll failed.
RemoveAllUnchecked(c) ==
    LET o == job[c].obj IN
    /\ job[c].pc = "removing"
    /\ data' \in {data, [p \in Objects |-> data[p] /\ p # o /\ <<o, p>> \notin Nested]}
    /\ job' = [job EXCEPT ![c].pc = "removed"]
    /\ UNCHANGED <<up, objs, durable, reserved>>

\* A removal that gives its reservation up before it has recorded what it did.
RemoveAllReleased(c) ==
    LET o == job[c].obj IN
    /\ job[c].pc = "removing"
    /\ \/ /\ data' = [p \in Objects |-> data[p] /\ p # o /\ <<o, p>> \notin Nested]
          /\ job' = [job EXCEPT ![c].pc = "removed"]
       \/ Return(c) /\ UNCHANGED data
    /\ reserved' = reserved \ {o}
    /\ UNCHANGED <<up, objs, durable>>

\* The unlocked middle of teardownNoteWith: os.RemoveAll deletes the path and
\* everything inside it, or fails part way and gives up the reservation.
RemoveAll(c) ==
    LET o == job[c].obj IN
    /\ job[c].pc = "removing"
    /\ \/ /\ data' = [p \in Objects |-> data[p] /\ p # o /\ <<o, p>> \notin Nested]
          /\ job' = [job EXCEPT ![c].pc = "removed"]
          /\ UNCHANGED reserved
       \/ /\ Return(c)
          /\ reserved' = reserved \ {o}
          /\ UNCHANGED data
    /\ UNCHANGED <<up, objs, durable>>

\* The locked last part of teardownNoteWith: record the removal, unless the
\* object changed meanwhile; then the deferred release of the reservation.
RecordRemoval(c) ==
    LET o == job[c].obj IN
    /\ job[c].pc = "removed"
    /\ IF objs[o] = job[c].original
       THEN \E r \in Outcomes : Append(o, "removed", "none", r)
       ELSE UNCHANGED <<objs, durable>>
    /\ reserved' = reserved \ {o}
    /\ Return(c)
    /\ UNCHANGED <<up, data>>

\* The process dies at any point: callers, memory and reservations go.
Crash ==
    /\ up
    /\ up' = FALSE
    /\ reserved' = {}
    /\ job' = [c \in Callers |-> Idle]
    /\ UNCHANGED <<objs, durable, data>>

\* OpenWithOptions: replay the ledger.
Reopen ==
    /\ ~up
    /\ up' = TRUE
    /\ objs' = durable
    /\ UNCHANGED <<durable, reserved, data, job>>

CallerStep(c) ==
    \/ Make(c) \/ Created(c) \/ Failed(c) \/ Abandon(c)
    \/ RemoveAll(c) \/ RecordRemoval(c)
    \/ \E o \in Objects :
        \/ Intent(c, o)
        \/ EnsureCache(c, o)
        \/ Teardown(c, o)

Next ==
    \/ \E c \in Callers : CallerStep(c)
    \/ \E o \in Objects, cls \in Class : Classify(o, cls)
    \/ Crash
    \/ Reopen

Spec == Init /\ [][Next]_vars

-----------------------------------------------------------------------------
Removing(c) == job[c].pc \in {"removing", "removed"}

\* venue.go:5-7: an object's intent is in the ledger before the object is
\* created and stays there while its data exists, so a replay after a crash
\* at any point accounts for every path on disk.
DataIsLedgered == \A o \in Objects : data[o] => Open(durable[o])

\* A crash loses nothing the running process relied on: the state in memory
\* is the state a replay would produce (holds when a failed append leaves no
\* line behind).
MemoryIsLedger == up => objs = durable

\* Two removals never run over overlapping paths, however slow each is:
\* neither can delete what the other is still judging.
RemovalsDisjoint ==
    \A c, d \in Callers :
        (c # d /\ Removing(c) /\ Removing(d)) => ~Overlaps(job[c].obj, job[d].obj)

\* While a removal runs outside the lock its object is reserved and does not
\* change, so the "object changed during removal" refusal never loses a
\* removal that already deleted the data.
OriginalKept ==
    \A c \in Callers : Removing(c) =>
        /\ job[c].obj \in reserved
        /\ objs[job[c].obj] = job[c].original

\* The strengthening that makes the two invariants above inductive: only a
\* running process has callers at work.
BusyIsUp == \A c \in Callers : job[c].pc # "idle" => up

RemovalInv == BusyIsUp /\ RemovalsDisjoint /\ OriginalKept

\* The strengthening for DataIsLedgered: what is being made is open, is not
\* under removal and has one maker; what a remover is about to record as
\* removed is gone.
MakersOpen == \A c \in Callers : Making(c) =>
    Open(objs[job[c].obj]) /\ job[c].obj \notin reserved

MakersDistinct == \A c, d \in Callers :
    (c # d /\ Making(c) /\ Making(d)) => job[c].obj # job[d].obj

RemovedGone == \A c \in Callers : job[c].pc = "removed" => ~data[job[c].obj]

LedgerInv ==
    /\ MemoryIsLedger /\ DataIsLedgered
    /\ MakersOpen /\ MakersDistinct /\ RemovedGone

\* Only a removal of the object itself deletes its data: evicting a cache
\* directory never takes an open object inside it along.
OnlyOwnRemovalDeletes ==
    [][\A p \in Objects : (data[p] /\ ~data'[p]) =>
        \E c \in Callers : job[c].pc = "removing" /\ job[c].obj = p]_vars

=============================================================================

------------------------------ MODULE Attempts ------------------------------
(***************************************************************************)
(* The attempt table and its helpers (internal/manager).                   *)
(*                                                                         *)
(* One helper process owns each attempt's VM.  The manager admits a start, *)
(* spawns the helper, watches it by listing processes, and records its     *)
(* end; API calls (start, stop, remove, drain) run beside the watcher and  *)
(* meet it at m.mu.  Helpers outlive the manager: at its start it loads    *)
(* the saved table and reconciles it against the processes it finds.       *)
(*                                                                         *)
(* A helper is named by its generation, which stands for the pid and start *)
(* time that identify a process; `mem' is m.t.entries, `disk' table.json.  *)
(* The data root is the sets vm and rec of attempts with an open VM object *)
(* and an open record; Venue models how they are opened and torn down.     *)
(***************************************************************************)
EXTENDS Naturals, FiniteSets

CONSTANTS
    Ids,          \* attempt ids
    Limit,        \* attempts the host admits at once
    MaxStarts,    \* bound: helpers ever spawned
    MaxCrashes,   \* bound: deaths of the manager
    TimeLimited,  \* the class has a time limit
    DiskCanFill,  \* the data root's filesystem can fill up
    Faults        \* which of "save", "list", "teardown" calls can fail

ASSUME AttemptsAssumption ==
    /\ Ids # {} /\ Limit \in Nat /\ MaxStarts \in Nat /\ MaxCrashes \in Nat
    /\ TimeLimited \in BOOLEAN /\ DiskCanFill \in BOOLEAN
    /\ Faults \subseteq {"save", "list", "teardown"}

VARIABLES
    mode,      \* "down", "listing" or "reconcile" (in Open), "serving"
    mem, disk, \* the table in memory and as last saved
    helper,    \* the helper processes, by generation
    vm, rec,   \* attempts whose VM object, whose record object is open
    req,       \* starts past the checks made before the lock
    starting,  \* the start that holds m.mu: its attempt, step and helper
    draining,  \* m.draining
    reserved,  \* entries with terminalCleanup set, by generation
    watch,     \* the watcher goroutine
    found,     \* Open's findings still to apply
    hostFull,  \* under capacity.DiskFullBytes free
    crashes

vars == <<mode, mem, disk, helper, vm, rec, req, starting, draining, reserved,
          watch, found, hostFull, crashes>>

Gens     == 1 .. MaxStarts
Ended    == {"exited", "stopped", "failed", "lost", "timed-out"}
State    == {"none", "starting", "running", "stopping"} \cup Ended
Status   == {"none", "booting", "running", "exited", "stopped", "failed"}
Entry    == [gen : 0 .. MaxStarts, state : State, host : BOOLEAN, timedOut : BOOLEAN]
Process  == {"unborn", "alive", "term", "killed", "gone"}
Steps    == {"idle", "clean", "release", "copy", "list", "disk", "time", "judge", "finish"}

NoEntry  == [gen |-> 0, state |-> "none", host |-> FALSE, timedOut |-> FALSE]
NoStart  == [step |-> "none", id |-> CHOOSE i \in Ids : TRUE, gen |-> 0]
AtRest   == [step |-> "idle", after |-> "copy", live |-> {}, seen |-> {}, todo |-> {},
             gen |-> 0, end |-> "lost"]
Nothing  == [lost |-> {}, orphans |-> {}, reaping |-> {}]

TypeOK ==
    /\ mode \in {"down", "listing", "reconcile", "serving"}
    /\ mem \in [Ids -> Entry] /\ disk \in [Ids -> Entry]
    /\ helper \in [Gens -> [id : Ids, st : Process, status : Status, age : 0 .. 2]]
    /\ vm \subseteq Ids /\ rec \subseteq Ids /\ req \subseteq Ids
    /\ starting \in [step : {"none", "spawn", "record"}, id : Ids, gen : 0 .. MaxStarts]
    /\ draining \in BOOLEAN /\ hostFull \in BOOLEAN
    /\ reserved \subseteq Gens
    /\ watch \in [step : Steps, after : {"copy", "judge"}, live : SUBSET Gens,
                  seen : SUBSET Gens, todo : SUBSET Gens, gen : 0 .. MaxStarts, end : Ended]
    /\ found \in [lost : SUBSET Gens, orphans : SUBSET Gens, reaping : SUBSET Gens]
    /\ crashes \in 0 .. MaxCrashes

-----------------------------------------------------------------------------
Terminal(e) == e.state \in Ended
Live(e)     == e.gen # 0 /\ ~Terminal(e)
Present(g)  == helper[g].st \in {"alive", "term", "killed"}

\* A listing that stops showing a helper once it was told to stop.
ShownUntilStopped(g) == helper[g].st = "alive"

\* isHelperOf on a listing taken now: the pid, start time, uid, executable
\* and attempt are the entry's own.
Shown(g) == Present(g)

LockFree    == starting.step = "none"
Claims      == {i \in Ids : Live(mem[i])}

\* table.save writes the whole table or leaves the old file.
Commit(t) == /\ mem' = t
             /\ disk' \in {t} \cup (IF "save" \in Faults THEN {disk} ELSE {})

\* Venue.Teardown of the objects of ids, which may fail and leave them open.
Closed(open, ids) == {open \ ids} \cup (IF "teardown" \in Faults THEN {open} ELSE {})

\* sameHelperAlive: a listing that fails counts as alive.
SeenAlive(g) == {Shown(g)} \cup (IF "list" \in Faults THEN {TRUE} ELSE {})

Signal(g, sig) ==
    helper' = [helper EXCEPT ![g].st =
        IF @ \in {"unborn", "gone", "killed"} THEN @ ELSE sig]

\* finish's choice of the recorded state: a host condition, then the time
\* limit, override what the helper reported.
Outcome(e, st) == IF e.host THEN "failed" ELSE IF e.timedOut THEN "timed-out" ELSE st

\* terminalFromStatus: what an ended helper's last status says of its end.
EndFromStatus(status) ==
    IF status \in {"exited", "stopped", "failed"} THEN status ELSE "lost"

Init ==
    /\ mode = "serving"
    /\ mem = [i \in Ids |-> NoEntry] /\ disk = mem
    /\ helper = [g \in Gens |-> [id |-> NoStart.id, st |-> "unborn", status |-> "none", age |-> 0]]
    /\ vm = {} /\ rec = {} /\ req = {}
    /\ starting = NoStart
    /\ draining = FALSE /\ hostFull = FALSE
    /\ reserved = {}
    /\ watch = AtRest
    /\ found = Nothing
    /\ crashes = 0

-----------------------------------------------------------------------------
(* The API: start, stop, remove, drain.                                    *)

\* startBy up to m.mu.Lock: the early drain check, then the source is
\* settled, which may take minutes.
StartRequest(i) ==
    /\ mode = "serving" /\ LockFree
    /\ i \notin req /\ ~draining
    /\ req' = req \cup {i}
    /\ UNCHANGED <<mode, mem, disk, helper, vm, rec, starting, draining, reserved,
                   watch, found, hostFull, crashes>>

\* The checks under the lock: no such entry, not draining, capacity left.
Admissible(i) == mem[i] = NoEntry /\ ~draining /\ Cardinality(Claims) < Limit

\* startBy from m.mu.Lock to the VM's intent.  It may be refused for reasons
\* outside this model (disk space, base, signature), or fail and abandon the
\* record it ledgered.
StartAdmit(i) ==
    /\ mode = "serving" /\ LockFree
    /\ i \in req /\ req' = req \ {i}
    /\ \/ UNCHANGED <<vm, rec, starting>>
       \/ /\ Admissible(i) /\ i \notin rec
          /\ \/ i \notin vm /\ vm' = vm \cup {i} /\ rec' = rec \cup {i}
                /\ starting' = [step |-> "spawn", id |-> i, gen |-> 0]
             \/ rec' \in Closed(rec \cup {i}, {i}) /\ UNCHANGED <<vm, starting>>
    /\ UNCHANGED <<mode, mem, disk, helper, draining, reserved, watch, found, hostFull, crashes>>

\* startBy from the VM's intent to cmd.Start, or abandon(err, true).
StartSpawn ==
    LET i == starting.id
        g == 1 + Cardinality({x \in Gens : helper[x].st # "unborn"})
    IN
    /\ starting.step = "spawn"
    /\ \/ /\ g \in Gens
          /\ helper' = [helper EXCEPT ![g] = [id |-> i, st |-> "alive", status |-> "none", age |-> 0]]
          /\ starting' = [starting EXCEPT !.step = "record", !.gen = g]
          /\ UNCHANGED <<vm, rec>>
       \/ /\ vm' \in Closed(vm, {i}) /\ rec' \in Closed(rec, {i})
          /\ starting' = NoStart
          /\ UNCHANGED helper
    /\ UNCHANGED <<mode, mem, disk, req, draining, reserved, watch, found, hostFull, crashes>>

\* A failed start that gives its objects up while its helper may still run.
StartRecordTornDown ==
    LET i == starting.id  g == starting.gen IN
    /\ starting.step = "record"
    /\ \/ /\ Commit([mem EXCEPT ![i] = [NoEntry EXCEPT !.gen = g, !.state = "starting"]])
          /\ UNCHANGED <<helper, vm, rec>>
       \/ /\ ~Present(g) \/ "list" \in Faults
          /\ Signal(g, "term")
          /\ vm' = vm \ {i} /\ rec' = rec \ {i}
          /\ UNCHANGED <<mem, disk>>
    /\ starting' = NoStart
    /\ UNCHANGED <<mode, req, draining, reserved, watch, found, hostFull, crashes>>

\* startBy after the spawn.  startTime fails if no listing shows the pid (the
\* helper has already exited, or ps fails); the helper is then only signalled.
StartRecord ==
    LET i == starting.id  g == starting.gen IN
    /\ starting.step = "record"
    /\ \/ /\ Commit([mem EXCEPT ![i] = [NoEntry EXCEPT !.gen = g, !.state = "starting"]])
          /\ UNCHANGED helper
       \/ /\ ~Present(g) \/ "list" \in Faults
          /\ Signal(g, "term")
          /\ UNCHANGED <<mem, disk>>
    /\ starting' = NoStart
    /\ UNCHANGED <<mode, vm, rec, req, draining, reserved, watch, found, hostFull, crashes>>

\* Manager.Stop: identity is checked again right before the signal.
Stop(i) ==
    LET g == mem[i].gen IN
    /\ mode = "serving" /\ LockFree
    /\ Live(mem[i])
    /\ Present(g)
    /\ Signal(g, "term")
    /\ Commit([mem EXCEPT ![i].state = "stopping"])
    /\ UNCHANGED <<mode, vm, rec, req, starting, draining, reserved, watch, found, hostFull, crashes>>

\* A Remove that does not look at the cleanup reservation.
RemovableUnreserved(i) == Terminal(mem[i]) /\ i \notin vm /\ disk[i] = mem[i]

\* removeLocked's conditions.  A result is disposable only once its terminal
\* record is saved (completionSaved); the rest of that decision belongs to its
\* publication, which this module leaves open.
Removable(i) ==
    Terminal(mem[i]) /\ mem[i].gen \notin reserved /\ i \notin vm /\ disk[i] = mem[i]

\* Manager.Remove, and an eviction of the record.
Remove(i) ==
    /\ mode \in {"serving", "reconcile"} /\ LockFree
    /\ Removable(i)
    /\ rec' \in Closed(rec, {i})
    /\ IF i \in rec' THEN UNCHANGED <<mem, disk>> ELSE Commit([mem EXCEPT ![i] = NoEntry])
    /\ UNCHANGED <<mode, helper, vm, req, starting, draining, reserved, watch, found, hostFull, crashes>>

\* Manager.Drain.
Drain(on) ==
    /\ mode = "serving" /\ LockFree
    /\ draining # on /\ draining' = on
    /\ UNCHANGED <<mode, mem, disk, helper, vm, rec, req, starting, reserved, watch, found, hostFull, crashes>>

-----------------------------------------------------------------------------
(* The watcher: one goroutine that runs Manager.poll on every tick.        *)

\* cleanupTerminalVMs' first locked section: reserve every terminal entry.
Reserve(w, after) ==
    LET work == {g \in Gens \ reserved : \E i \in Ids : mem[i].gen = g /\ Terminal(mem[i])} IN
    /\ reserved' = reserved \cup work
    /\ watch' = [w EXCEPT !.step = "clean", !.after = after, !.todo = work]

\* A tick: poll begins with recoverResults, which retries the save of an
\* unsaved end and whose last act is the cleanup.
Tick ==
    /\ mode = "serving" /\ LockFree
    /\ watch.step = "idle"
    /\ IF \E i \in Ids : Terminal(mem[i]) /\ disk[i] # mem[i]
       THEN Commit(mem) ELSE UNCHANGED <<mem, disk>>
    /\ Reserve(watch, "copy")
    /\ UNCHANGED <<mode, helper, vm, rec, req, starting, draining, found, hostFull, crashes>>

\* teardownVM, by attempt id and without m.mu.
CleanTeardown(g) ==
    /\ watch.step = "clean" /\ g \in watch.todo
    /\ vm' \in Closed(vm, {helper[g].id})
    /\ watch' = [watch EXCEPT !.step = "release", !.gen = g]
    /\ UNCHANGED <<mode, mem, disk, helper, rec, req, starting, draining, reserved, found, hostFull, crashes>>

\* cleanupTerminalVMs' last locked section, once per entry.
CleanRelease ==
    /\ watch.step = "release" /\ LockFree
    /\ reserved' = reserved \ {watch.gen}
    /\ watch' = [watch EXCEPT !.step = "clean", !.todo = @ \ {watch.gen}, !.gen = 0]
    /\ UNCHANGED <<mode, mem, disk, helper, vm, rec, req, starting, draining, found, hostFull, crashes>>

CleanDone ==
    /\ watch.step = "clean" /\ watch.todo = {}
    /\ watch' = [watch EXCEPT !.step = watch.after]
    /\ UNCHANGED <<mode, mem, disk, helper, vm, rec, req, starting, draining, reserved, found, hostFull, crashes>>

\* poll copies the live entries before it lists the processes.
PollCopy ==
    /\ watch.step = "copy" /\ LockFree
    /\ watch' = IF Claims = {} THEN AtRest
                ELSE [watch EXCEPT !.step = "list", !.live = {mem[i].gen : i \in Claims}]
    /\ UNCHANGED <<mode, mem, disk, helper, vm, rec, req, starting, draining, reserved, found, hostFull, crashes>>

\* Procs.List; an unreadable listing changes nothing.
PollList ==
    /\ watch.step = "list"
    /\ \/ watch' = [watch EXCEPT !.step = "disk", !.seen = {g \in Gens : Shown(g)},
                                 !.todo = IF hostFull THEN watch.live ELSE {}]
       \/ "list" \in Faults /\ watch' = AtRest
    /\ UNCHANGED <<mode, mem, disk, helper, vm, rec, req, starting, draining, reserved, found, hostFull, crashes>>

\* The entries with attempt i marked compromised, unless it has ended; a mark
\* kept in memory only.
MarkUnsaved(i) ==
    /\ mem' = IF Live(mem[i]) THEN [mem EXCEPT ![i].host = TRUE] ELSE mem
    /\ UNCHANGED disk

\* markHostCondition.
MarkHostCondition(i) ==
    IF Live(mem[i]) THEN Commit([mem EXCEPT ![i].host = TRUE]) ELSE UNCHANGED <<mem, disk>>

\* checkDiskFull for one entry: mark it; then, by how many StallWaits its
\* helper has made no progress (idle), signal it, and later kill it.
CheckDiskFull(g) ==
    LET i == helper[g].id IN
    /\ watch.step = "disk" /\ g \in watch.todo /\ LockFree
    /\ watch' = [watch EXCEPT !.todo = @ \ {g}]
    /\ \/ /\ MarkHostCondition(i)
          /\ UNCHANGED helper
       \/ \E idle \in 1 .. 2 :
          /\ Live(mem[i])
          /\ TRUE \in SeenAlive(mem[i].gen)
          /\ mem[i].state = "stopping" => idle = 2
          /\ Signal(mem[i].gen, IF mem[i].state = "stopping" THEN "killed" ELSE "term")
          /\ Commit([mem EXCEPT ![i].host = TRUE, ![i].state = "stopping"])
    /\ UNCHANGED <<mode, vm, rec, req, starting, draining, reserved, found, hostFull, crashes>>

DiskDone ==
    /\ watch.step = "disk" /\ watch.todo = {}
    /\ watch' = [watch EXCEPT !.step = "time",
                              !.todo = {g \in watch.live : TimeLimited /\ helper[g].age > 0}]
    /\ UNCHANGED <<mode, mem, disk, helper, vm, rec, req, starting, draining, reserved, found, hostFull, crashes>>

\* A time limit that asks once and never kills.
CheckTimeLimitOnce(g) ==
    LET i == helper[g].id  e == mem[i] IN
    /\ watch.step = "time" /\ g \in watch.todo /\ LockFree
    /\ watch' = [watch EXCEPT !.todo = @ \ {g}]
    /\ IF Live(e) /\ ~e.timedOut /\ Shown(e.gen)
       THEN /\ Signal(e.gen, "term")
            /\ Commit([mem EXCEPT ![i].timedOut = TRUE, ![i].state = "stopping"])
       ELSE UNCHANGED <<mem, disk, helper>>
    /\ UNCHANGED <<mode, vm, rec, req, starting, draining, reserved, found, hostFull, crashes>>

\* checkTimeLimits for one entry over its limit: SIGTERM at first, SIGKILL
\* once it is over by StallWait and was already told to stop.
CheckTimeLimit(g) ==
    LET i == helper[g].id  e == mem[i] IN
    /\ watch.step = "time" /\ g \in watch.todo /\ LockFree
    /\ watch' = [watch EXCEPT !.todo = @ \ {g}]
    /\ \/ /\ Live(e) /\ TRUE \in SeenAlive(e.gen)
          /\ ~e.timedOut \/ helper[g].age = 2
          /\ Signal(e.gen, IF e.timedOut THEN "killed" ELSE "term")
          /\ Commit([mem EXCEPT ![i].timedOut = TRUE, ![i].state = "stopping"])
       \/ /\ ~Live(e) \/ FALSE \in SeenAlive(e.gen) \/ (e.timedOut /\ helper[g].age < 2)
          /\ UNCHANGED <<mem, disk, helper>>
    /\ UNCHANGED <<mode, vm, rec, req, starting, draining, reserved, found, hostFull, crashes>>

TimeDone ==
    /\ watch.step = "time" /\ watch.todo = {}
    /\ watch' = [watch EXCEPT !.step = "judge"]
    /\ UNCHANGED <<mode, mem, disk, helper, vm, rec, req, starting, draining, reserved, found, hostFull, crashes>>

\* observe: from starting to running once the helper says so.
Observe(g) ==
    LET i == helper[g].id IN
    /\ watch.step = "judge" /\ g \in watch.live \cap watch.seen /\ LockFree
    /\ watch' = [watch EXCEPT !.live = @ \ {g}]
    /\ IF mem[i].state = "starting" /\ helper[g].status = "running"
       THEN Commit([mem EXCEPT ![i].state = "running"]) ELSE UNCHANGED <<mem, disk>>
    /\ UNCHANGED <<mode, helper, vm, rec, req, starting, draining, reserved, found, hostFull, crashes>>

\* poll's judgement of an entry the listing did not show: an end is recorded
\* only when a second, fresh listing agrees.  terminalFromStatus also marks
\* the entry when the helper saw a full host at its end.
Judge(g) ==
    LET i == helper[g].id  s == helper[g].status IN
    /\ watch.step = "judge" /\ g \in watch.live \ watch.seen /\ LockFree
    /\ \/ /\ ~Shown(g)
          /\ watch' = [watch EXCEPT !.step = "finish", !.gen = g,
                            !.end = EndFromStatus(s)]
          /\ \/ UNCHANGED <<mem, disk>>
             \/ DiskCanFill /\ s # "none" /\ MarkHostCondition(i)
       \/ /\ Shown(g) \/ "list" \in Faults
          /\ watch' = [watch EXCEPT !.live = @ \ {g}]
          /\ UNCHANGED <<mem, disk>>
    /\ UNCHANGED <<mode, helper, vm, rec, req, starting, draining, reserved, found, hostFull, crashes>>

\* finish's record: terminal state and frozen intent share one saved table.
Finished(i, st) == Commit([mem EXCEPT ![i].state = Outcome(mem[i], st)])

\* finish: m.mu was dropped while the mirror was asked for the repository,
\* so the entry is looked up again; then the cleanup.
Finish ==
    LET i == helper[watch.gen].id
        w == [watch EXCEPT !.live = @ \ {watch.gen}, !.gen = 0, !.end = "lost"]
        work == {g \in Gens \ reserved : g = watch.gen \/
                    \E j \in Ids : mem[j].gen = g /\ Terminal(mem[j])}
    IN
    /\ watch.step = "finish" /\ LockFree
    /\ IF Live(mem[i])
       THEN /\ Finished(i, watch.end)
            /\ reserved' = reserved \cup work
            /\ watch' = [w EXCEPT !.step = "clean", !.after = "judge", !.todo = work]
       ELSE /\ watch' = [w EXCEPT !.step = "judge"]
            /\ UNCHANGED <<mem, disk, reserved>>
    /\ UNCHANGED <<mode, helper, vm, rec, req, starting, draining, found, hostFull, crashes>>

PollDone ==
    /\ watch.step = "judge" /\ watch.live = {}
    /\ watch' = AtRest
    /\ UNCHANGED <<mode, mem, disk, helper, vm, rec, req, starting, draining, reserved, found, hostFull, crashes>>

-----------------------------------------------------------------------------
(* The manager's death and its next start (Open, reconcile).                *)

\* The manager dies at any point; helpers keep running in their own sessions.
Crash ==
    /\ mode # "down" /\ crashes < MaxCrashes
    /\ mode' = "down" /\ crashes' = crashes + 1
    /\ req' = {} /\ starting' = NoStart /\ reserved' = {}
    /\ watch' = AtRest /\ found' = Nothing
    /\ UNCHANGED <<mem, disk, helper, vm, rec, draining, hostFull>>

\* Open up to reconcile: the table is what was last saved, and nothing drains.
Restart ==
    /\ mode = "down"
    /\ mode' = "listing"
    /\ mem' = disk /\ draining' = FALSE
    /\ UNCHANGED <<disk, helper, vm, rec, req, starting, reserved, watch, found, hostFull, crashes>>

\* A reconciliation that looks at the table's entries only.
FindingsOfEntries ==
    [lost |-> {mem[i].gen : i \in Claims} \ {g \in Gens : Shown(g)}, orphans |-> {}, reaping |-> {}]

\* Reconcile: a live entry whose helper is not there is lost; a helper no
\* live entry claims is an orphan; the others are adopted untouched.
Findings ==
    [lost    |-> {mem[i].gen : i \in Claims} \ {g \in Gens : Shown(g)},
     orphans |-> {g \in Gens : Shown(g)} \ {mem[i].gen : i \in Claims},
     reaping |-> {}]

\* reconcile's listing; Open fails without one.
ReconcileList ==
    /\ mode = "listing"
    /\ \/ mode' = "reconcile" /\ found' = Findings
       \/ "list" \in Faults /\ mode' = "down" /\ UNCHANGED found
    /\ UNCHANGED <<mem, disk, helper, vm, rec, req, starting, draining, reserved, watch, hostFull, crashes>>

\* finish(StateLost), whatever status the helper left, and its cleanup of
\* every terminal attempt's VM.
ReconcileLost(g) ==
    LET i == helper[g].id IN
    /\ mode = "reconcile" /\ g \in found.lost
    /\ found' = [found EXCEPT !.lost = @ \ {g}]
    /\ Finished(i, "lost")
    /\ vm' \in Closed(vm, {i} \cup {j \in Ids : Terminal(mem[j])})
    /\ UNCHANGED <<mode, helper, rec, req, starting, draining, reserved, watch, hostFull, crashes>>

\* reap, one orphan at a time and after every lost entry: SIGTERM, then a
\* bounded wait.
Reap(g) ==
    /\ mode = "reconcile" /\ g \in found.orphans
    /\ found.lost = {} /\ found.reaping = {}
    /\ found' = [found EXCEPT !.orphans = @ \ {g}, !.reaping = {g}]
    /\ Signal(g, "term")
    /\ UNCHANGED <<mode, mem, disk, vm, rec, req, starting, draining, reserved, watch, hostFull, crashes>>

\* reap's end: the helper exited, or is killed at the deadline; either way
\* its VM object is torn down.
ReapEnd(g) ==
    /\ mode = "reconcile" /\ g \in found.reaping
    /\ found' = [found EXCEPT !.reaping = {}]
    /\ Signal(g, "killed")
    /\ vm' \in Closed(vm, {helper[g].id})
    /\ UNCHANGED <<mode, mem, disk, rec, req, starting, draining, reserved, watch, hostFull, crashes>>

\* The end of reconcile; Open fails if the table cannot be saved.
Serve ==
    /\ mode = "reconcile" /\ found = Nothing
    /\ Commit(mem)
    /\ \/ disk' = mem /\ mode' = "serving"
       \/ "save" \in Faults /\ mode' = "down"
    /\ UNCHANGED <<helper, vm, rec, req, starting, draining, reserved, watch, found, hostFull, crashes>>

-----------------------------------------------------------------------------
(* The helpers (PomarHostCore/Helper.swift) and the host.                  *)

Advance(g, status) == helper' = [helper EXCEPT ![g].status = status]

HelperRest == UNCHANGED <<mode, mem, disk, vm, rec, req, starting, draining, reserved,
                          watch, found, hostFull, crashes>>

\* Helper.run up to the guest's command; a stop request waits for it.
HelperBoot(g) ==
    /\ helper[g].st \in {"alive", "term"}
    /\ \/ helper[g].status = "none" /\ \E s \in {"booting", "failed"} : Advance(g, s)
       \/ helper[g].status = "booting" /\ \E s \in {"running", "failed"} : Advance(g, s)
    /\ HelperRest

\* The command ends, the wait for it fails, or a stop request is seen.
HelperEnd(g) ==
    /\ helper[g].st \in {"alive", "term"} /\ helper[g].status = "running"
    /\ \/ \E s \in {"exited", "failed"} : Advance(g, s)
       \/ helper[g].st = "term" /\ Advance(g, "stopped")
    /\ HelperRest

\* The process leaves: it is done, was killed, or died.
HelperGone(g) ==
    /\ Present(g)
    /\ helper' = [helper EXCEPT ![g].st = "gone"]
    /\ HelperRest

\* Time passes: past the class's limit, then past it by StallWait.
Age(g) ==
    /\ TimeLimited /\ Present(g) /\ helper[g].age < 2
    /\ helper' = [helper EXCEPT ![g].age = @ + 1]
    /\ HelperRest

HostSpace ==
    /\ DiskCanFill /\ hostFull' = ~hostFull
    /\ UNCHANGED <<mode, mem, disk, helper, vm, rec, req, starting, draining, reserved, watch, found, crashes>>

Watcher ==
    \/ Tick \/ CleanRelease \/ CleanDone \/ PollCopy \/ PollList \/ DiskDone \/ TimeDone
    \/ Finish \/ PollDone
    \/ \E g \in Gens : CleanTeardown(g) \/ CheckDiskFull(g) \/ CheckTimeLimit(g)
                       \/ Observe(g) \/ Judge(g)

Booting ==
    \/ Restart \/ ReconcileList \/ Serve
    \/ \E g \in Gens : ReconcileLost(g) \/ Reap(g) \/ ReapEnd(g)

Next ==
    \/ \E i \in Ids : StartRequest(i) \/ StartAdmit(i) \/ Stop(i) \/ Remove(i)
    \/ StartSpawn \/ StartRecord
    \/ \E on \in BOOLEAN : Drain(on)
    \/ Watcher \/ Booting \/ Crash
    \/ \E g \in Gens : HelperBoot(g) \/ HelperEnd(g) \/ HelperGone(g) \/ Age(g)
    \/ HostSpace

Spec == Init /\ [][Next]_vars

\* The ticker keeps polling, a start that holds the lock goes on, launchd
\* starts the manager again, and a killed process goes.
Fairness ==
    /\ WF_vars(Watcher) /\ WF_vars(Booting) /\ WF_vars(StartSpawn \/ StartRecord)
    /\ \A g \in Gens : WF_vars(helper[g].st = "killed" /\ HelperGone(g))

FairSpec == Spec /\ Fairness

-----------------------------------------------------------------------------
\* manager.go:885: a live helper is never reported as ended, although the
\* watcher judges copies of entries against listings taken at another time
\* and the manager may die in between.
EndedHelperGone ==
    \A i \in Ids : Terminal(mem[i]) => ~Present(mem[i].gen)

\* No attempt id ever has two helpers, across failed starts, crashes,
\* removals and reuse of the id: two would share one record and one VM path.
OneHelperPerAttempt ==
    \A g, k \in Gens : (g # k /\ Present(g) /\ Present(k)) => helper[g].id # helper[k].id

\* Once the manager serves, every helper that was not told to go is claimed by
\* a live entry (or is being recorded), and there are no more of them than the
\* host admits: nothing runs outside admission, and neither two starts nor a
\* restart take the last slot twice.
HelpersClaimed ==
    mode = "serving" =>
        LET running == {g \in Gens : helper[g].st = "alive"} IN
        /\ Cardinality(running) <= Limit
        /\ \A g \in running :
              \/ mem[helper[g].id].gen = g /\ Live(mem[helper[g].id])
              \/ starting.step = "record" /\ starting.gen = g

\* An attempt's VM object is torn down only when no helper of that attempt
\* can still be using it (it has gone or been killed): the id that the
\* unlocked cleanup works on is never reused under it.
VMOutlivesHelper ==
    [][\A i \in vm \ vm' : \A g \in Gens :
        helper[g].id = i => helper'[g].st \notin {"alive", "term"}]_vars

\* finish and markHostCondition: an outcome once recorded is never changed or forgotten,
\* also by a death and restart of the manager, unless the record is removed; and a host
\* condition once marked decides it, whichever manager records the end.
EndKept ==
    [][\A i \in Ids :
        /\ Terminal(mem[i]) => mem'[i] = mem[i] \/ mem'[i].gen # mem[i].gen
        /\ (mem[i].host /\ mem'[i].gen = mem[i].gen) =>
              mem'[i].host /\ (Terminal(mem'[i]) => mem'[i].state = "failed")]_vars

\* A helper that has gone is eventually recorded as ended.
EndRecorded ==
    \A i \in Ids, g \in Gens :
        (mem[i].gen = g /\ Live(mem[i]) /\ ~Present(g)) ~> (mem[i].gen # g \/ Terminal(mem[i]))

\* A helper over its time limit eventually goes, even if it ignores SIGTERM.
LimitEnforced ==
    \A g \in Gens : (helper[g].st # "gone" /\ helper[g].age = 2) ~> helper[g].st = "gone"

\* poll: every end is reached, the one a helper comes to and the one its limit sets it,
\* although the manager may die between any two steps of the escalation.
EndsReached == EndRecorded /\ LimitEnforced

\* table.go:32: an attempt is lost only if its helper left no terminal status.
LostWithoutStatus ==
    \A i \in Ids : (mode = "serving" /\ mem[i].state = "lost") =>
        helper[mem[i].gen].status \notin {"exited", "stopped", "failed"}

\* manager.go:594: a start that fails tears down what it created, so an open
\* record belongs to an entry (as long as no teardown fails and no crash).
FailedStartTornDown ==
    (mode = "serving" /\ LockFree) => \A i \in rec \cup vm : mem[i] # NoEntry
=============================================================================

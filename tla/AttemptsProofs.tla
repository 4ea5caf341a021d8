--------------------------- MODULE AttemptsProofs ---------------------------
EXTENDS Attempts, FiniteSetTheorems, TLAPS

Helpers == [Gens -> [id : Ids, st : Process, status : Status, age : 0 .. 2]]
Tables  == [Ids -> Entry]

LEMMA NoStartType == NoStart.id \in Ids
<1>1. (CHOOSE i \in Ids : TRUE) \in Ids
  BY AttemptsAssumption
<1> QED BY <1>1 DEF NoStart

LEMMA CommitType ==
    ASSUME TypeOK, NEW t \in Tables, Commit(t)
    PROVE  mem' \in Tables /\ disk' \in Tables
BY DEF TypeOK, Commit, Tables

LEMMA SignalType ==
    ASSUME TypeOK, NEW g, NEW sig \in {"term", "killed"}, Signal(g, sig)
    PROVE  helper' \in Helpers
<1>1. ASSUME NEW h \in [id : Ids, st : Process, status : Status, age : 0 .. 2], NEW s \in Process
      PROVE [h EXCEPT !.st = s] \in [id : Ids, st : Process, status : Status, age : 0 .. 2]
  OBVIOUS
<1>2. sig \in Process
  BY DEF Process
<1> QED BY <1>1, <1>2 DEF TypeOK, Signal, Helpers

LEMMA EntryType ==
    /\ NoEntry \in Entry
    /\ \A e \in Entry :
         /\ \A s \in State : [e EXCEPT !.state = s] \in Entry
         /\ \A b \in BOOLEAN : [e EXCEPT !.host = b] \in Entry /\ [e EXCEPT !.timedOut = b] \in Entry
    /\ \A g \in 0 .. MaxStarts : [NoEntry EXCEPT !.gen = g, !.state = "starting"] \in Entry
<1>1. NoEntry \in Entry
  BY AttemptsAssumption DEF Entry, NoEntry, State
<1>2. ASSUME NEW e \in Entry
      PROVE  /\ \A s \in State : [e EXCEPT !.state = s] \in Entry
             /\ \A b \in BOOLEAN : [e EXCEPT !.host = b] \in Entry /\ [e EXCEPT !.timedOut = b] \in Entry
  BY DEF Entry
<1>3. ASSUME NEW g \in 0 .. MaxStarts
      PROVE  [NoEntry EXCEPT !.gen = g, !.state = "starting"] \in Entry
  BY <1>1 DEF Entry, State
<1> QED BY <1>1, <1>2, <1>3

LEMMA TypeStart ==
    ASSUME TypeOK, NEW i \in Ids, StartRequest(i) \/ StartAdmit(i) \/ Stop(i) \/ Remove(i)
    PROVE  TypeOK'
<1> USE DEF TypeOK
<1>1. CASE StartRequest(i)
  BY <1>1 DEF StartRequest
<1>2. CASE StartAdmit(i)
  BY <1>2, AttemptsAssumption DEF StartAdmit, Closed
<1>3. CASE Stop(i)
  <2>1. [mem EXCEPT ![i].state = "stopping"] \in Tables
    BY EntryType DEF State, Tables
  <2>2. helper' \in Helpers
    BY <1>3, SignalType DEF Stop
  <2>3. mem' \in Tables /\ disk' \in Tables
    BY <1>3, <2>1, CommitType DEF Stop
  <2> QED BY <1>3, <2>2, <2>3 DEF Stop, Helpers, Tables
<1>4. CASE Remove(i)
  <2>1. [mem EXCEPT ![i] = NoEntry] \in Tables
    BY EntryType DEF State, Tables
  <2>3. mem' \in Tables /\ disk' \in Tables
    BY <1>4, <2>1, CommitType DEF Remove, Tables
  <2> QED BY <1>4, <2>3 DEF Remove, Helpers, Tables, Closed
<1> QED BY <1>1, <1>2, <1>3, <1>4

LEMMA TypeStarting ==
    ASSUME TypeOK, StartSpawn \/ StartRecord \/ (\E on \in BOOLEAN : Drain(on))
    PROVE  TypeOK'
<1> USE DEF TypeOK
<1>0. NoStart \in [step : {"none", "spawn", "record"}, id : Ids, gen : 0 .. MaxStarts]
  BY NoStartType, AttemptsAssumption DEF NoStart
<1>1. CASE StartSpawn
  <2> DEFINE n == 1 + Cardinality({x \in Gens : helper[x].st # "unborn"})
  <2>1. CASE /\ vm' \in Closed(vm, {starting.id}) /\ rec' \in Closed(rec, {starting.id})
             /\ starting' = NoStart /\ UNCHANGED helper
    BY <1>0, <1>1, <2>1 DEF StartSpawn, Closed
  <2>2. CASE /\ n \in Gens
             /\ helper' = [helper EXCEPT ![n] = [id |-> starting.id, st |-> "alive", status |-> "none", age |-> 0]]
             /\ starting' = [starting EXCEPT !.step = "record", !.gen = n]
             /\ UNCHANGED <<vm, rec>>
    <3> HIDE DEF n
    <3>1. [id |-> starting.id, st |-> "alive", status |-> "none", age |-> 0]
             \in [id : Ids, st : Process, status : Status, age : 0 .. 2]
      BY DEF Process, Status
    <3>2. helper' \in Helpers
      BY <2>2, <3>1 DEF Helpers
    <3>3. starting' \in [step : {"none", "spawn", "record"}, id : Ids, gen : 0 .. MaxStarts]
      <4>1. n \in 0 .. MaxStarts
        BY <2>2, AttemptsAssumption DEF Gens
      <4> QED BY <2>2, <4>1
    <3> QED BY <1>1, <2>2, <3>2, <3>3 DEF StartSpawn, Helpers
  <2> QED BY <1>1, <2>1, <2>2 DEF StartSpawn
<1>2. CASE StartRecord
  <2>1. [mem EXCEPT ![starting.id] = [NoEntry EXCEPT !.gen = starting.gen, !.state = "starting"]] \in Tables
    BY EntryType DEF Tables
  <2>2. mem' \in Tables /\ disk' \in Tables
    BY <1>2, <2>1, CommitType DEF StartRecord, Tables
  <2>3. helper' \in Helpers
    BY <1>2, SignalType DEF StartRecord, Helpers
  <2> QED BY <1>0, <1>2, <2>2, <2>3 DEF StartRecord, Helpers, Tables
<1>3. CASE \E on \in BOOLEAN : Drain(on)
  BY <1>3 DEF Drain
<1> QED BY <1>1, <1>2, <1>3

Watch == [step : Steps, after : {"copy", "judge"}, live : SUBSET Gens,
          seen : SUBSET Gens, todo : SUBSET Gens, gen : 0 .. MaxStarts, end : Ended]

LEMMA AtRestType == AtRest \in Watch
BY AttemptsAssumption DEF AtRest, Watch, Steps, Ended

LEMMA TypeWatcher ==
    ASSUME TypeOK, Watcher
    PROVE  TypeOK'
<1> USE DEF TypeOK
<1>0. 0 \in 0 .. MaxStarts
  BY AttemptsAssumption
<1>1. CASE Tick
  <2>1. mem' \in Tables /\ disk' \in Tables
    BY <1>1, CommitType DEF Tick, Tables
  <2>2. watch' \in Watch /\ reserved' \subseteq Gens
    BY <1>1 DEF Tick, Reserve, Watch, Steps
  <2> QED BY <1>1, <2>1, <2>2 DEF Tick, Tables, Watch
<1>2. CASE CleanRelease
  <2>1. watch' \in Watch
    <3>1. ASSUME NEW w \in Watch, NEW S \in SUBSET Gens
          PROVE [w EXCEPT !.step = "clean", !.todo = S, !.gen = 0] \in Watch
      BY <1>0 DEF Watch, Steps
    <3>2. watch \in Watch /\ watch.todo \ {watch.gen} \in SUBSET Gens
      BY DEF Watch
    <3>3. watch' = [watch EXCEPT !.step = "clean", !.todo = watch.todo \ {watch.gen}, !.gen = 0]
      BY <1>2 DEF CleanRelease
    <3> QED BY <3>1, <3>2, <3>3
  <2> QED BY <1>2, <2>1 DEF CleanRelease, Watch
<1>3. CASE CleanDone
  <2>1. watch' \in Watch
    BY <1>3 DEF CleanDone, Watch, Steps
  <2> QED BY <1>3, <2>1 DEF CleanDone, Watch
<1>4. CASE PollCopy
  <2>1. {mem[i].gen : i \in Claims} \subseteq Gens
    BY AttemptsAssumption DEF Claims, Live, Gens, Entry
  <2>2. watch' \in Watch
    BY <1>4, <2>1, AtRestType DEF PollCopy, Watch, Steps
  <2> QED BY <1>4, <2>2 DEF PollCopy, Watch
<1>5. CASE PollList
  <2>1. watch' \in Watch
    <3>1. ASSUME NEW w \in Watch, NEW S \in SUBSET Gens, NEW T \in SUBSET Gens
          PROVE [w EXCEPT !.step = "disk", !.seen = S, !.todo = T] \in Watch
      BY DEF Watch, Steps
    <3>2. watch \in Watch /\ {g \in Gens : Shown(g)} \in SUBSET Gens
          /\ (IF hostFull THEN watch.live ELSE {}) \in SUBSET Gens
      BY DEF Watch
    <3>3. [watch EXCEPT !.step = "disk", !.seen = {g \in Gens : Shown(g)},
                        !.todo = IF hostFull THEN watch.live ELSE {}] \in Watch
      BY <3>1, <3>2
    <3> QED BY <1>5, <3>3, AtRestType, Zenon DEF PollList
  <2> QED BY <1>5, <2>1 DEF PollList, Watch
<1>6. CASE DiskDone
  <2>1. watch' \in Watch
    BY <1>6 DEF DiskDone, Watch, Steps
  <2> QED BY <1>6, <2>1 DEF DiskDone, Watch
<1>7. CASE TimeDone
  <2>1. watch' \in Watch
    BY <1>7 DEF TimeDone, Watch, Steps
  <2> QED BY <1>7, <2>1 DEF TimeDone, Watch
<1>8. CASE Finish
  <2> DEFINE i == helper[watch.gen].id
             work == {g \in Gens \ reserved : g = watch.gen \/
                         \E j \in Ids : mem[j].gen = g /\ Terminal(mem[j])}
             w == [watch EXCEPT !.live = @ \ {watch.gen}, !.gen = 0, !.end = "lost"]
  <2>1. w \in Watch /\ work \subseteq Gens
    <3>1. ASSUME NEW v \in Watch, NEW S \in SUBSET Gens
          PROVE [v EXCEPT !.live = S, !.gen = 0, !.end = "lost"] \in Watch
      BY <1>0 DEF Watch, Ended
    <3>2. watch \in Watch /\ watch.live \ {watch.gen} \in SUBSET Gens
      BY DEF Watch
    <3>3. w = [watch EXCEPT !.live = watch.live \ {watch.gen}, !.gen = 0, !.end = "lost"]
      OBVIOUS
    <3> QED BY <3>1, <3>2, <3>3
  <2>2. /\ [w EXCEPT !.step = "clean", !.after = "judge", !.todo = work] \in Watch
        /\ [w EXCEPT !.step = "judge"] \in Watch
    <3> HIDE DEF w, work
    <3> QED BY <2>1 DEF Watch, Steps
  <2>3. CASE /\ Finished(i, watch.end)
             /\ reserved' = reserved \cup work
             /\ watch' = [w EXCEPT !.step = "clean", !.after = "judge", !.todo = work]
    <3>1. Outcome(mem[i], watch.end) \in State
      BY DEF Outcome, State, Ended
    <3>2. [mem EXCEPT ![i].state = Outcome(mem[i], watch.end)] \in Tables
      BY <3>1, EntryType DEF Tables
    <3>3. mem' \in Tables /\ disk' \in Tables
      BY <2>3, <3>2, CommitType DEF Finished
    <3> QED BY <1>8, <2>1, <2>2, <2>3, <3>3 DEF Finish, Watch, Tables
  <2>4. CASE watch' = [w EXCEPT !.step = "judge"] /\ UNCHANGED <<mem, disk, reserved>>
    BY <1>8, <2>2, <2>4 DEF Finish, Watch
  <2> QED BY <1>8, <2>3, <2>4 DEF Finish
<1>9. CASE PollDone
  BY <1>9, AtRestType DEF PollDone, Watch
<1>10. ASSUME NEW g \in Gens, CleanTeardown(g) PROVE TypeOK'
  <2>1. watch' \in Watch
    <3>1. g \in 0 .. MaxStarts
      BY AttemptsAssumption DEF Gens
    <3> QED BY <1>10, <3>1 DEF CleanTeardown, Watch, Steps
  <2> QED BY <1>10, <2>1 DEF CleanTeardown, Watch, Closed
<1>11. ASSUME NEW g \in Gens, CheckDiskFull(g) PROVE TypeOK'
  <2> DEFINE i == helper[g].id
  <2>1. watch' \in Watch
    BY <1>11 DEF CheckDiskFull, Watch
  <2>2. /\ [mem EXCEPT ![i].host = TRUE] \in Tables
        /\ [mem EXCEPT ![i].host = TRUE, ![i].state = "stopping"] \in Tables
    BY EntryType DEF Tables, State
  <2>3. mem' \in Tables /\ disk' \in Tables
    BY <1>11, <2>2, CommitType DEF CheckDiskFull, MarkHostCondition, Tables
  <2>4. helper' \in Helpers
    BY <1>11, SignalType DEF CheckDiskFull, Helpers
  <2> QED BY <1>11, <2>1, <2>3, <2>4 DEF CheckDiskFull, Watch, Tables, Helpers
<1>12. ASSUME NEW g \in Gens, CheckTimeLimit(g) PROVE TypeOK'
  <2> DEFINE i == helper[g].id
  <2>1. watch' \in Watch
    BY <1>12 DEF CheckTimeLimit, Watch
  <2>2. [mem EXCEPT ![i].timedOut = TRUE, ![i].state = "stopping"] \in Tables
    BY EntryType DEF Tables, State
  <2>3. mem' \in Tables /\ disk' \in Tables
    BY <1>12, <2>2, CommitType DEF CheckTimeLimit, Tables
  <2>4. helper' \in Helpers
    BY <1>12, SignalType DEF CheckTimeLimit, Helpers
  <2> QED BY <1>12, <2>1, <2>3, <2>4 DEF CheckTimeLimit, Watch, Tables, Helpers
<1>13. ASSUME NEW g \in Gens, Observe(g) PROVE TypeOK'
  <2> DEFINE i == helper[g].id
  <2>1. watch' \in Watch
    BY <1>13 DEF Observe, Watch
  <2>2. [mem EXCEPT ![i].state = "running"] \in Tables
    BY EntryType DEF Tables, State
  <2>3. mem' \in Tables /\ disk' \in Tables
    BY <1>13, <2>2, CommitType DEF Observe, Tables
  <2> QED BY <1>13, <2>1, <2>3 DEF Observe, Watch, Tables
<1>14. ASSUME NEW g \in Gens, Judge(g) PROVE TypeOK'
  <2> DEFINE i == helper[g].id
  <2>1. EndFromStatus(helper[g].status) \in Ended
    BY DEF EndFromStatus, Ended
  <2>2. watch' \in Watch
    <3>1. g \in 0 .. MaxStarts
      BY AttemptsAssumption DEF Gens
    <3>2. ASSUME NEW w \in Watch, NEW e \in Ended
          PROVE [w EXCEPT !.step = "finish", !.gen = g, !.end = e] \in Watch
      BY <3>1 DEF Watch, Steps
    <3>3. watch \in Watch /\ [watch EXCEPT !.live = @ \ {g}] \in Watch
      BY DEF Watch
    <3>4. [watch EXCEPT !.step = "finish", !.gen = g, !.end = EndFromStatus(helper[g].status)] \in Watch
      BY <2>1, <3>2, <3>3
    <3> QED BY <1>14, <3>3, <3>4, Zenon DEF Judge
  <2>3. [mem EXCEPT ![i].host = TRUE] \in Tables
    BY EntryType DEF Tables
  <2>4. mem' \in Tables /\ disk' \in Tables
    BY <1>14, <2>3, CommitType DEF Judge, MarkHostCondition, Tables
  <2> QED BY <1>14, <2>2, <2>4 DEF Judge, Watch, Tables
<1> QED BY <1>1, <1>2, <1>3, <1>4, <1>5, <1>6, <1>7, <1>8, <1>9, <1>10, <1>11, <1>12, <1>13, <1>14
        DEF Watcher

LEMMA TypeBooting ==
    ASSUME TypeOK, Booting \/ Crash
    PROVE  TypeOK'
<1> USE DEF TypeOK
<1> DEFINE F == [lost : SUBSET Gens, orphans : SUBSET Gens, reaping : SUBSET Gens]
<1>1. CASE Restart
  BY <1>1 DEF Restart
<1>2. CASE ReconcileList
  <2>1. {mem[i].gen : i \in Claims} \subseteq Gens
    BY AttemptsAssumption DEF Claims, Live, Gens, Entry
  <2>2. Findings \in F
    BY <2>1 DEF Findings
  <2> QED BY <1>2, <2>2 DEF ReconcileList
<1>3. CASE Serve
  BY <1>3 DEF Serve, Commit
<1>4. ASSUME NEW g \in Gens, ReconcileLost(g) PROVE TypeOK'
  <2> DEFINE i == helper[g].id
  <2>1. Outcome(mem[i], "lost") \in State
    BY DEF Outcome, State, Ended
  <2>2. [mem EXCEPT ![i].state = Outcome(mem[i], "lost")] \in Tables
    BY <2>1, EntryType DEF Tables
  <2>3. mem' \in Tables /\ disk' \in Tables
    BY <1>4, <2>2, CommitType DEF ReconcileLost, Finished
  <2>4. found' \in F
    BY <1>4 DEF ReconcileLost
  <2> QED BY <1>4, <2>3, <2>4 DEF ReconcileLost, Closed, Tables
<1>5. ASSUME NEW g \in Gens, Reap(g) \/ ReapEnd(g) PROVE TypeOK'
  <2>1. found' \in F
    <3>1. CASE Reap(g)
      <4>1. found' = [found EXCEPT !.orphans = found.orphans \ {g}, !.reaping = {g}]
        BY <3>1 DEF Reap
      <4> QED BY <4>1
    <3>2. CASE ReapEnd(g)
      BY <3>2 DEF ReapEnd
    <3> QED BY <1>5, <3>1, <3>2
  <2>2. helper' \in Helpers
    BY <1>5, SignalType DEF Reap, ReapEnd
  <2> QED BY <1>5, <2>1, <2>2 DEF Reap, ReapEnd, Closed, Helpers
<1>6. CASE Crash
  <2>1. NoStart \in [step : {"none", "spawn", "record"}, id : Ids, gen : 0 .. MaxStarts]
    BY NoStartType, AttemptsAssumption DEF NoStart
  <2>2. Nothing \in F
    BY DEF Nothing
  <2>3. crashes' \in 0 .. MaxCrashes
    BY <1>6, AttemptsAssumption DEF Crash
  <2> QED BY <1>6, <2>1, <2>2, <2>3, AtRestType DEF Crash, Watch
<1> QED BY <1>1, <1>2, <1>3, <1>4, <1>5, <1>6 DEF Booting

LEMMA TypeHelpers ==
    ASSUME TypeOK, NEW g \in Gens, HelperBoot(g) \/ HelperEnd(g) \/ HelperGone(g) \/ Age(g)
    PROVE  TypeOK'
<1> DEFINE H == [id : Ids, st : Process, status : Status, age : 0 .. 2]
<1>1. ASSUME NEW h \in H, NEW s \in Status, NEW a \in 0 .. 2
      PROVE /\ [h EXCEPT !.status = s] \in H /\ [h EXCEPT !.age = a] \in H
            /\ [h EXCEPT !.st = "gone"] \in H
  BY DEF Process
<1>2. helper[g] \in H
  BY DEF TypeOK
<1>3. helper' \in Helpers
  <2>1. CASE HelperBoot(g) \/ HelperEnd(g)
    <3>1. PICK s \in Status : helper' = [helper EXCEPT ![g].status = s]
      BY <2>1 DEF HelperBoot, HelperEnd, Advance, Status
    <3> QED BY <1>1, <1>2, <3>1 DEF TypeOK, Helpers
  <2>2. CASE HelperGone(g)
    BY <1>1, <1>2, <2>2 DEF HelperGone, TypeOK, Helpers
  <2>3. CASE Age(g)
    <3>1. helper[g].age + 1 \in 0 .. 2
      BY <1>2, <2>3 DEF Age
    <3> QED BY <1>1, <1>2, <2>3, <3>1 DEF Age, TypeOK, Helpers
  <2> QED BY <2>1, <2>2, <2>3
<1> QED BY <1>3 DEF HelperBoot, HelperEnd, HelperGone, Age, HelperRest, TypeOK, Helpers

LEMMA TypeInit == Init => TypeOK
<1> SUFFICES ASSUME Init PROVE TypeOK
  OBVIOUS
<1>1. [id |-> NoStart.id, st |-> "unborn", status |-> "none", age |-> 0]
          \in [id : Ids, st : Process, status : Status, age : 0 .. 2]
  BY NoStartType DEF Process, Status
<1>2. helper \in [Gens -> [id : Ids, st : Process, status : Status, age : 0 .. 2]]
  BY <1>1 DEF Init
<1>3. mem \in [Ids -> Entry] /\ disk \in [Ids -> Entry]
  BY EntryType DEF Init
<1>4. NoStart \in [step : {"none", "spawn", "record"}, id : Ids, gen : 0 .. MaxStarts]
  BY NoStartType, AttemptsAssumption DEF NoStart
<1>5. crashes \in 0 .. MaxCrashes
  BY AttemptsAssumption DEF Init
<1>6. found \in [lost : SUBSET Gens, orphans : SUBSET Gens, reaping : SUBSET Gens]
  BY DEF Init, Nothing
<1>7. watch \in Watch
  BY AtRestType DEF Init
<1> QED BY <1>2, <1>3, <1>4, <1>5, <1>6, <1>7 DEF Init, TypeOK, Watch

LEMMA TypeNext == TypeOK /\ [Next]_vars => TypeOK'
<1> SUFFICES ASSUME TypeOK, [Next]_vars PROVE TypeOK'
  OBVIOUS
<1>1. CASE HostSpace
  BY <1>1 DEF HostSpace, TypeOK
<1>2. CASE UNCHANGED vars
  BY <1>2 DEF vars, TypeOK
<1> QED BY <1>1, <1>2, TypeStart, TypeStarting, TypeWatcher, TypeBooting, TypeHelpers DEF Next

\* Type correctness: no step takes the state outside its declared sets.
THEOREM TypeCorrect == Spec => []TypeOK
BY TypeInit, TypeNext, PTL DEF Spec

-----------------------------------------------------------------------------
(* What holds whatever fails: entries name their own helpers, an end is only *)
(* recorded of a helper that has gone, and no helper goes unclaimed.         *)

Born(g) == helper[g].st # "unborn"

\* Generations are given out in order, so that a new one was never used.
BornInOrder == \E n \in 0 .. MaxStarts : \A g \in Gens : Born(g) <=> g <= n

\* An entry of a table names a helper that was spawned for it.
Named(t) ==
    \A i \in Ids : IF t[i].gen = 0 THEN t[i] = NoEntry
                   ELSE Born(t[i].gen) /\ helper[t[i].gen].id = i

\* An end in a table is of a helper that has gone.
EndsTrue(t) == \A i \in Ids : Terminal(t[i]) => ~Present(t[i].gen)

\* The helper is the one its attempt's live entry names.
Claimed(g) == mem[helper[g].id].gen = g /\ Live(mem[helper[g].id])

\* The start that holds m.mu: its attempt has no entry yet, its helper is its own.
StartHeld ==
    starting.step # "none" =>
        /\ mode = "serving" /\ mem[starting.id] = NoEntry
        /\ starting.step = "record" =>
              starting.gen \in Gens /\ Born(starting.gen) /\ helper[starting.gen].id = starting.id

\* What the watcher has copied is still live, however old the copy, and the helper it is
\* about to record as ended has gone.
WatchTrue ==
    /\ mode # "serving" => watch = AtRest
    /\ \A g \in watch.live : Claimed(g)
    /\ watch.step = "finish" => watch.gen \in watch.live /\ ~Present(watch.gen)

\* The same of what reconcile found.
FoundTrue ==
    /\ mode # "reconcile" => found = Nothing
    /\ \A g \in found.lost : Claimed(g) /\ ~Present(g)

\* A helper that was not told to go has a claim, is being recorded or will be reaped.
NoneUnclaimed ==
    \A g \in Gens : helper[g].st = "alive" =>
        /\ mode = "serving" => Claimed(g) \/ (starting.step = "record" /\ starting.gen = g)
        /\ mode = "reconcile" => Claimed(g) \/ g \in found.orphans

TablesTrue == Named(mem) /\ Named(disk) /\ EndsTrue(mem) /\ EndsTrue(disk)

HelperInv ==
    /\ TypeOK /\ BornInOrder /\ TablesTrue
    /\ StartHeld /\ WatchTrue /\ FoundTrue /\ NoneUnclaimed

\* Helpers change, but none is born or comes back.
HelpersOnlyLeave ==
    \A g \in Gens : /\ helper'[g].id = helper[g].id /\ (Born(g)' <=> Born(g))
                    /\ Present(g)' => Present(g)
                    /\ helper'[g].st = "alive" => helper[g].st = "alive"

\* Entries change, but none begins, ends or goes.
EntriesStay ==
    /\ \A i \in Ids : /\ mem'[i].gen = mem[i].gen /\ (Terminal(mem'[i]) <=> Terminal(mem[i]))
                      /\ mem[i].gen = 0 => mem'[i] = mem[i]
    /\ disk' \in {disk, mem'}

LEMMA SignalLeaves ==
    ASSUME TypeOK, NEW g, NEW sig \in {"term", "killed"}, Signal(g, sig)
    PROVE  HelpersOnlyLeave
<1> SUFFICES ASSUME NEW k \in Gens
             PROVE  /\ helper'[k].id = helper[k].id /\ (Born(k)' <=> Born(k))
                    /\ Present(k)' => Present(k)
                    /\ helper'[k].st = "alive" => helper[k].st = "alive"
  BY DEF HelpersOnlyLeave
<1>1. CASE k # g
  BY <1>1 DEF TypeOK, Signal, Born, Present
<1>2. CASE k = g
  <2>1. helper'[k] = [helper[k] EXCEPT !.st = IF @ \in {"unborn", "gone", "killed"} THEN @ ELSE sig]
    BY <1>2 DEF TypeOK, Signal
  <2> QED BY <2>1 DEF TypeOK, Born, Present, Process
<1> QED BY <1>1, <1>2

LEMMA SameLeaves ==
    ASSUME TypeOK, UNCHANGED helper
    PROVE  HelpersOnlyLeave
BY DEF HelpersOnlyLeave, Born, Present

LEMMA SameStay ==
    ASSUME UNCHANGED <<mem, disk>>
    PROVE  EntriesStay
BY DEF EntriesStay

LEMMA EntryGens ==
    ASSUME TypeOK
    PROVE  /\ \A i \in Ids : mem[i].gen # 0 => mem[i].gen \in Gens
           /\ \A i \in Ids : disk[i].gen # 0 => disk[i].gen \in Gens
BY AttemptsAssumption DEF TypeOK, Entry, Gens

\* What marking an entry leaves of it.
LEMMA Marked ==
    ASSUME NEW f \in Entry, NEW st \in State
    PROVE  /\ [f EXCEPT !.host = TRUE] \in Entry /\ [f EXCEPT !.host = TRUE].gen = f.gen
           /\ [f EXCEPT !.host = TRUE].state = f.state
           /\ [f EXCEPT !.state = st] \in Entry /\ [f EXCEPT !.state = st].gen = f.gen
           /\ [f EXCEPT !.state = st].state = st
           /\ [f EXCEPT !.host = TRUE, !.state = st] \in Entry
           /\ [f EXCEPT !.host = TRUE, !.state = st].gen = f.gen
           /\ [f EXCEPT !.host = TRUE, !.state = st].state = st
           /\ [f EXCEPT !.timedOut = TRUE, !.state = st] \in Entry
           /\ [f EXCEPT !.timedOut = TRUE, !.state = st].gen = f.gen
           /\ [f EXCEPT !.timedOut = TRUE, !.state = st].state = st
BY DEF Entry

\* Marking an entry and its state is one change of the entry.
LEMMA TwoFields ==
    ASSUME TypeOK, NEW i
    PROVE  /\ [mem EXCEPT ![i].host = TRUE, ![i].state = "stopping"]
                  = [mem EXCEPT ![i] = [mem[i] EXCEPT !.host = TRUE, !.state = "stopping"]]
           /\ [mem EXCEPT ![i].timedOut = TRUE, ![i].state = "stopping"]
                  = [mem EXCEPT ![i] = [mem[i] EXCEPT !.timedOut = TRUE, !.state = "stopping"]]
BY DEF TypeOK

\* Saving an entry that stays live, in whatever state.
LEMMA LiveStays ==
    ASSUME TypeOK, NEW i \in Ids, mem[i].gen # 0, ~Terminal(mem[i]),
           NEW e \in Entry, e.gen = mem[i].gen, ~Terminal(e), Commit([mem EXCEPT ![i] = e])
    PROVE  EntriesStay
BY DEF TypeOK, EntriesStay, Commit

\* Where helpers only leave and entries stay, tables stay true and claims what they were.
LEMMA QuietTables ==
    ASSUME TypeOK, TypeOK', BornInOrder, TablesTrue, HelpersOnlyLeave, EntriesStay
    PROVE  /\ BornInOrder' /\ TablesTrue'
           /\ \A g \in Gens : Claimed(g)' <=> Claimed(g)
<1>2. ASSUME NEW t \in {mem, disk}, NEW i \in Ids, t[i].gen # 0
      PROVE t[i].gen \in Gens
  <2>1. t[i] \in Entry
    BY DEF TypeOK
  <2>2. t[i].gen \in 0 .. MaxStarts
    BY <2>1 DEF Entry
  <2> QED BY <1>2, <2>2, AttemptsAssumption DEF Gens
<1> USE DEF HelpersOnlyLeave, EntriesStay
<1>1. BornInOrder'
  BY DEF BornInOrder
<1>3. Named(mem)' /\ EndsTrue(mem)'
  BY <1>2 DEF TablesTrue, Named, EndsTrue, Terminal, NoEntry, Ended
<1>4. ASSUME disk' = disk PROVE Named(disk)' /\ EndsTrue(disk)'
  BY <1>2, <1>4 DEF TablesTrue, Named, EndsTrue, Terminal, NoEntry, Ended
<1>5. ASSUME disk' = mem' PROVE Named(disk)' /\ EndsTrue(disk)'
  BY <1>3, <1>5 DEF Named, EndsTrue
<1>6. ASSUME NEW g \in Gens PROVE Claimed(g)' <=> Claimed(g)
  <2>1. helper[g].id \in Ids
    BY DEF TypeOK
  <2> QED BY <2>1 DEF Claimed, Live
<1> QED BY <1>1, <1>3, <1>4, <1>5, <1>6 DEF TablesTrue

\* A quiet step that neither gives the watcher nor reconcile anything new keeps the invariant.
LEMMA QuietStep ==
    ASSUME HelperInv, TypeOK', HelpersOnlyLeave, EntriesStay, UNCHANGED <<mode, starting>>,
           found' = found \/ (mode = "reconcile" /\ found'.lost \subseteq found.lost
                               /\ \A g \in found.orphans \ found'.orphans : helper'[g].st # "alive"),
           watch' = watch \/ (mode = "serving" /\ \A g \in watch'.live : Claimed(g)),
           watch'.step = "finish" => watch'.gen \in watch'.live /\ ~Present(watch'.gen)
    PROVE  HelperInv'
<1> USE DEF HelperInv
<1>1. /\ BornInOrder' /\ TablesTrue'
      /\ \A g \in Gens : Claimed(g)' <=> Claimed(g)
  BY QuietTables
<1>2. \A g \in Gens : Present(g)' => Present(g)
  BY DEF HelpersOnlyLeave
<1>3. StartHeld'
  BY DEF StartHeld, HelpersOnlyLeave, EntriesStay, NoEntry, TypeOK
<1>4. WatchTrue'
  <2>1. watch'.live \subseteq Gens /\ watch.live \subseteq Gens
    BY DEF TypeOK
  <2> QED BY <1>1, <1>2, <2>1 DEF WatchTrue
<1>5. FoundTrue'
  <2>1. found'.lost \subseteq Gens /\ found.lost \subseteq Gens
    BY DEF TypeOK
  <2> QED BY <1>1, <1>2, <2>1 DEF FoundTrue
<1>6. NoneUnclaimed'
  BY <1>1 DEF NoneUnclaimed, HelpersOnlyLeave, TypeOK
<1> QED BY <1>1, <1>3, <1>4, <1>5, <1>6

LEMMA StayUnchanged ==
    ASSUME HelperInv, TypeOK', UNCHANGED <<mode, mem, disk, helper, starting, watch, found>>
    PROVE  HelperInv'
BY SameLeaves, SameStay, QuietStep DEF HelperInv, WatchTrue

\* The steps of the API's calls.
LEMMA CallsKeepHelpers ==
    ASSUME HelperInv, TypeOK',
           \/ \E i \in Ids : StartRequest(i) \/ StartAdmit(i) \/ Stop(i) \/ Remove(i)
           \/ \E on \in BOOLEAN : Drain(on)
    PROVE  HelperInv'
<1>0. TypeOK
  BY DEF HelperInv
<1>1. ASSUME NEW i \in Ids, StartRequest(i) PROVE HelperInv'
  BY <1>1, StayUnchanged DEF StartRequest
<1>2. ASSUME NEW i \in Ids, StartAdmit(i) PROVE HelperInv'
  <2>1. CASE UNCHANGED starting
    BY <1>2, <2>1, StayUnchanged DEF StartAdmit
  <2>2. CASE starting' = [step |-> "spawn", id |-> i, gen |-> 0] /\ Admissible(i)
    <3>1. StartHeld'
      BY <1>2, <2>2 DEF StartAdmit, StartHeld, Admissible
    <3>2. UNCHANGED <<mode, mem, disk, helper, watch, found>> /\ starting.step = "none"
      BY <1>2 DEF StartAdmit, LockFree
    <3> QED BY <3>1, <3>2 DEF HelperInv, BornInOrder, TablesTrue, Named, EndsTrue, WatchTrue, FoundTrue,
            NoneUnclaimed, Born, Present, Claimed, Live
  <2> QED BY <1>2, <2>1, <2>2 DEF StartAdmit
<1>3. ASSUME NEW i \in Ids, Stop(i) PROVE HelperInv'
  <2>1. HelpersOnlyLeave
    BY <1>0, <1>3, SignalLeaves DEF Stop
  <2>2. EntriesStay
    <3>1. [mem[i] EXCEPT !.state = "stopping"] \in Entry
      BY <1>0, EntryType DEF State, TypeOK
    <3>2. Commit([mem EXCEPT ![i] = [mem[i] EXCEPT !.state = "stopping"]])
      BY <1>3 DEF Stop
    <3>3. ~Terminal([mem[i] EXCEPT !.state = "stopping"]) /\ [mem[i] EXCEPT !.state = "stopping"].gen = mem[i].gen
      BY <1>0 DEF Terminal, Ended, TypeOK, Entry
    <3> QED BY <1>0, <1>3, <3>1, <3>2, <3>3, LiveStays DEF Stop, Live
  <2> QED BY <1>3, <2>1, <2>2, QuietStep DEF Stop, HelperInv, WatchTrue
<1>4. ASSUME NEW i \in Ids, Remove(i) PROVE HelperInv'
  <2>1. CASE UNCHANGED <<mem, disk>>
    BY <1>4, <2>1, StayUnchanged DEF Remove
  <2>2. CASE Commit([mem EXCEPT ![i] = NoEntry])
    <3> USE DEF HelperInv
    <3>1. /\ UNCHANGED <<mode, helper, starting, watch, found>> /\ Terminal(mem[i])
          /\ mem' = [mem EXCEPT ![i] = NoEntry] /\ disk' \in {disk, mem'}
      BY <1>4, <2>2 DEF Remove, Removable, Commit
    <3>2. BornInOrder'
      BY <3>1 DEF BornInOrder, Born
    <3>3. TablesTrue'
      <4>1. mem'[i] = NoEntry /\ ~Terminal(NoEntry) /\ NoEntry.gen = 0
        BY <3>1 DEF TypeOK, NoEntry, Terminal, Ended
      <4>2. \A j \in Ids \ {i} : mem'[j] = mem[j]
        BY <3>1 DEF TypeOK
      <4>3. Named(mem)' /\ EndsTrue(mem)'
        BY <3>1, <4>1, <4>2 DEF TablesTrue, Named, EndsTrue, Born, Present
      <4>4. disk' = disk => Named(disk)' /\ EndsTrue(disk)'
        BY <3>1 DEF TablesTrue, Named, EndsTrue, Born, Present
      <4>5. disk' = mem' => Named(disk)' /\ EndsTrue(disk)'
        BY <4>3 DEF Named, EndsTrue
      <4> QED BY <3>1, <4>3, <4>4, <4>5 DEF TablesTrue
    <3>4. ASSUME NEW g \in Gens, Claimed(g) PROVE Claimed(g)'
      BY <3>1, <3>4 DEF Claimed, Live, TypeOK
    <3>5. StartHeld'
      BY <3>1 DEF StartHeld, TypeOK, Born
    <3>6. WatchTrue' /\ FoundTrue'
      BY <3>1, <3>4 DEF WatchTrue, FoundTrue, TypeOK, Present
    <3>7. NoneUnclaimed'
      BY <3>1, <3>4 DEF NoneUnclaimed
    <3> QED BY <3>2, <3>3, <3>5, <3>6, <3>7
  <2> QED BY <1>4, <2>1, <2>2 DEF Remove
<1>5. ASSUME NEW on \in BOOLEAN, Drain(on) PROVE HelperInv'
  BY <1>5, StayUnchanged DEF Drain
<1> QED BY <1>1, <1>2, <1>3, <1>4, <1>5

\* A generation given out is new, and is the next in order.
LEMMA NextBorn ==
    ASSUME TypeOK, BornInOrder, NEW n \in Gens,
           n = 1 + Cardinality({x \in Gens : helper[x].st # "unborn"}),
           helper' = [helper EXCEPT ![n] = [id |-> starting.id, st |-> "alive", status |-> "none", age |-> 0]]
    PROVE  ~Born(n) /\ BornInOrder'
<1>1. PICK m \in 0 .. MaxStarts : \A g \in Gens : Born(g) <=> g <= m
  BY DEF BornInOrder
<1>2. {x \in Gens : helper[x].st # "unborn"} = 1 .. m
  BY <1>1, AttemptsAssumption DEF Born, Gens
<1>3. n = m + 1
  <2>1. m \in Int /\ 1 \in Int /\ m >= 0
    BY AttemptsAssumption
  <2>2. Cardinality(1 .. m) = IF 1 > m THEN 0 ELSE m - 1 + 1
    BY <2>1, FS_Interval
  <2>3. n = 1 + Cardinality(1 .. m)
    BY <1>2
  <2>4. CASE m = 0
    BY <2>2, <2>3, <2>4
  <2>5. CASE m > 0
    <3>1. Cardinality(1 .. m) = m
      BY <2>1, <2>2, <2>5
    <3> QED BY <2>1, <2>3, <3>1
  <2> QED BY <2>1, <2>4, <2>5
<1>4. \A g \in Gens : Born(g)' <=> g <= n
  BY <1>1, <1>3, AttemptsAssumption DEF Born, Gens, TypeOK
<1>5. n \in 0 .. MaxStarts
  BY AttemptsAssumption DEF Gens
<1>6. BornInOrder'
  BY <1>4, <1>5 DEF BornInOrder
<1> QED BY <1>1, <1>3, <1>6, AttemptsAssumption

\* The start that holds the lock.
LEMMA StartKeepsHelpers ==
    ASSUME HelperInv, TypeOK', StartSpawn \/ StartRecord
    PROVE  HelperInv'
<1> USE DEF HelperInv
<1>1. CASE StartSpawn /\ starting' = NoStart /\ UNCHANGED helper
  <2>1. UNCHANGED <<mode, mem, disk, helper, watch, found>> /\ starting.step = "spawn"
    BY <1>1 DEF StartSpawn
  <2> QED
    BY <1>1, <2>1 DEF NoStart, BornInOrder, TablesTrue, Named, EndsTrue, WatchTrue, FoundTrue,
       NoneUnclaimed, Born, Present, Claimed, Live, StartHeld
<1>2. CASE StartRecord
  <2>0. PICK i \in Ids, g \in Gens : i = starting.id /\ g = starting.gen
    BY <1>2 DEF StartRecord, StartHeld, TypeOK
  <2> DEFINE e == [NoEntry EXCEPT !.gen = g, !.state = "starting"]
  <2>1. /\ mode = "serving" /\ mem[i] = NoEntry /\ g \in Gens /\ Born(g) /\ helper[g].id = i /\ i \in Ids
        /\ UNCHANGED <<mode, watch, found>> /\ starting' = NoStart
    BY <1>2, <2>0 DEF StartRecord, StartHeld, TypeOK
  <2>2. CASE Commit([mem EXCEPT ![i] = e]) /\ UNCHANGED helper
    <3>1. e.gen = g /\ e.state = "starting" /\ g # 0 /\ ~Terminal(e)
      BY <2>1, AttemptsAssumption DEF NoEntry, Gens, Terminal, Ended
    <3> HIDE DEF e
    <3>2. mem' = [mem EXCEPT ![i] = e] /\ disk' \in {disk, mem'}
      BY <2>2 DEF Commit
    <3>3. BornInOrder'
      BY <2>2 DEF BornInOrder, Born
    <3>4. TablesTrue'
      BY <2>1, <2>2, <3>1, <3>2 DEF TablesTrue, Named, EndsTrue, Born, Present, TypeOK
    <3>5. ASSUME NEW k \in Gens, Claimed(k) PROVE Claimed(k)'
      BY <2>1, <2>2, <3>2, <3>5 DEF Claimed, Live, TypeOK, NoEntry
    <3>6. Claimed(g)'
      BY <2>1, <2>2, <3>1, <3>2 DEF Claimed, Live, TypeOK
    <3>7. StartHeld'
      BY <2>1 DEF StartHeld, NoStart
    <3>8. WatchTrue' /\ FoundTrue'
      BY <2>1, <2>2, <3>5 DEF WatchTrue, FoundTrue, TypeOK, Present
    <3>9. NoneUnclaimed'
      BY <2>0, <2>1, <2>2, <3>5, <3>6 DEF NoneUnclaimed
    <3> QED BY <3>3, <3>4, <3>7, <3>8, <3>9
  <2>3. CASE Signal(g, "term") /\ UNCHANGED <<mem, disk>>
    <3>1. HelpersOnlyLeave /\ EntriesStay
      BY <2>3, SignalLeaves, SameStay
    <3>2. /\ BornInOrder' /\ TablesTrue'
          /\ \A k \in Gens : Claimed(k)' <=> Claimed(k)
      BY <3>1, QuietTables
    <3>3. helper'[g].st # "alive"
      BY <2>1, <2>3 DEF Signal, TypeOK
    <3>4. StartHeld'
      BY <2>1 DEF StartHeld, NoStart
    <3>5. WatchTrue' /\ FoundTrue'
      BY <2>1, <3>1, <3>2 DEF WatchTrue, FoundTrue, TypeOK, HelpersOnlyLeave
    <3>6. NoneUnclaimed'
      BY <2>0, <2>1, <3>1, <3>2, <3>3 DEF NoneUnclaimed, HelpersOnlyLeave
    <3> QED BY <3>2, <3>4, <3>5, <3>6
  <2> QED BY <1>2, <2>0, <2>2, <2>3 DEF StartRecord
<1>3. ASSUME NEW n \in Gens, StartSpawn,
             n = 1 + Cardinality({x \in Gens : helper[x].st # "unborn"}),
             helper' = [helper EXCEPT ![n] = [id |-> starting.id, st |-> "alive", status |-> "none", age |-> 0]],
             starting' = [starting EXCEPT !.step = "record", !.gen = n]
      PROVE HelperInv'
  <2>1. /\ mode = "serving" /\ mem[starting.id] = NoEntry /\ starting.step = "spawn"
        /\ UNCHANGED <<mode, mem, disk, watch, found>>
    BY <1>3 DEF StartSpawn, StartHeld
  <2>2. ~Born(n) /\ BornInOrder'
    BY <1>3, NextBorn
  <2>3. /\ \A g \in Gens \ {n} : helper'[g] = helper[g]
        /\ helper'[n] = [id |-> starting.id, st |-> "alive", status |-> "none", age |-> 0]
        /\ Born(n)' /\ \A g \in Gens : Born(g) => g # n
    BY <1>3, <2>2 DEF TypeOK, Born
  <2>4. \A t \in {mem, disk}, i \in Ids : t[i].gen # 0 => t[i].gen \in Gens \ {n}
    <3>1. \A t \in {mem, disk}, i \in Ids : t[i].gen # 0 => t[i].gen \in Gens
      BY EntryGens
    <3>2. \A t \in {mem, disk}, i \in Ids : t[i].gen # 0 => Born(t[i].gen)
      BY DEF TablesTrue, Named
    <3> QED BY <2>3, <3>1, <3>2
  <2>5. TablesTrue'
    BY <2>1, <2>3, <2>4 DEF TablesTrue, Named, EndsTrue, Born, Present, Terminal, NoEntry, Ended
  <2>6. ASSUME NEW g \in Gens, Claimed(g) PROVE g # n /\ Claimed(g)'
    <3>1. g # n
      BY <2>4, <2>6 DEF Claimed, Live, TypeOK
    <3> QED BY <2>1, <2>3, <2>6, <3>1 DEF Claimed, Live
  <2>7. StartHeld'
    BY <1>3, <2>1, <2>3 DEF StartHeld, TypeOK
  <2>8. WatchTrue' /\ FoundTrue'
    BY <2>1, <2>3, <2>6 DEF WatchTrue, FoundTrue, TypeOK, Present
  <2>9. NoneUnclaimed'
    BY <1>3, <2>1, <2>3, <2>6 DEF NoneUnclaimed, TypeOK
  <2> QED BY <2>2, <2>5, <2>7, <2>8, <2>9
<1> QED BY <1>1, <1>2, <1>3 DEF StartSpawn

\* An end is recorded of a live entry whose helper has gone.
LEMMA EndKeepsHelpers ==
    ASSUME HelperInv, TypeOK', UNCHANGED <<mode, helper, starting>>, mode \in {"serving", "reconcile"},
           NEW i \in Ids, NEW g \in Gens, NEW e, helper[g].id = i, mem[i].gen = g, Live(mem[i]), ~Present(g),
           e.gen = g, mem' = [mem EXCEPT ![i] = e], disk' \in {disk, mem'},
           \/ /\ UNCHANGED found /\ mode = "serving"
              /\ watch'.live = watch.live \ {g} /\ watch'.step # "finish"
           \/ UNCHANGED watch /\ mode = "reconcile" /\ found' = [found EXCEPT !.lost = @ \ {g}]
    PROVE  HelperInv'
<1> USE DEF HelperInv
<1>1. g # 0 /\ mem[i] # NoEntry
  BY AttemptsAssumption DEF Gens, NoEntry
<1>2. \A j \in Ids \ {i} : mem'[j] = mem[j]
  BY DEF TypeOK
<1>3. BornInOrder'
  BY DEF BornInOrder, Born
<1>4. Named(mem)' /\ EndsTrue(mem)'
  BY <1>1, <1>2 DEF TypeOK, TablesTrue, Named, EndsTrue, Born, Present
<1>5. disk' = disk => Named(disk)' /\ EndsTrue(disk)'
  BY DEF TablesTrue, Named, EndsTrue, Born, Present
<1>6. disk' = mem' => Named(disk)' /\ EndsTrue(disk)'
  BY <1>4 DEF Named, EndsTrue
<1>7. ASSUME NEW k \in Gens, k # g, Claimed(k) PROVE Claimed(k)'
  BY <1>2, <1>7 DEF Claimed, TypeOK
<1>8. StartHeld'
  BY <1>1, <1>2 DEF StartHeld, TypeOK, Born
<1>9. WatchTrue'
  <2>1. mode # "serving" => watch'.live = {} /\ watch'.step = "idle"
    BY DEF WatchTrue, AtRest
  <2> QED BY <1>7, <2>1 DEF WatchTrue, TypeOK, Present
<1>10. FoundTrue'
  <2>1. mode # "reconcile" => found'.lost = {}
    BY DEF FoundTrue, Nothing
  <2>2. mode = "reconcile" => found'.lost = found.lost \ {g}
    BY DEF TypeOK
  <2> QED BY <1>7, <2>1, <2>2 DEF FoundTrue, TypeOK, Present
<1>11. NoneUnclaimed'
  <2>1. helper[g].st # "alive" /\ found'.orphans = found.orphans
    BY DEF Present, TypeOK
  <2> QED BY <1>7, <2>1 DEF NoneUnclaimed
<1> QED BY <1>3, <1>4, <1>5, <1>6, <1>8, <1>9, <1>10, <1>11 DEF TablesTrue

\* Steps of the watcher that only move the watcher.
LEMMA WatcherMoves ==
    ASSUME HelperInv, TypeOK', UNCHANGED <<mode, mem, disk, helper, starting, found>>,
           watch.step # "idle",
           watch'.step # "finish", watch'.live \subseteq watch.live \cup {mem[i].gen : i \in Claims}
    PROVE  HelperInv'
<1> USE DEF HelperInv
<1>1. mode = "serving"
  BY DEF WatchTrue, AtRest
<1>2. \A i \in Claims : Claimed(mem[i].gen)
  BY DEF Claims, Claimed, TablesTrue, Named, Live
<1>3. \A g \in watch'.live : Claimed(g)
  BY <1>2 DEF WatchTrue
<1> QED BY <1>1, <1>3, SameLeaves, SameStay, QuietStep

LEMMA WatcherKeepsHelpers ==
    ASSUME HelperInv, TypeOK', Watcher
    PROVE  HelperInv'
<1>0. TypeOK /\ WatchTrue
  BY DEF HelperInv
<1>a. \A g \in watch.live : Claimed(g)
  BY <1>0 DEF WatchTrue
<1>b. watch.step # "idle" => mode = "serving"
  BY <1>0 DEF WatchTrue, AtRest
<1>c. \A i \in Ids : mem[i] \in Entry
  BY <1>0 DEF TypeOK
<1>d. watch \in Watch
  BY <1>0 DEF TypeOK, Watch
<1>e. "stopping" \in State /\ "running" \in State
  BY DEF State
<1>1. CASE Tick
  <2>1. EntriesStay
    <3>1. CASE Commit(mem)
      BY <3>1 DEF Commit, EntriesStay
    <3> QED BY <1>1, <3>1, SameStay DEF Tick
  <2>2. mode = "serving" /\ UNCHANGED <<mode, starting, helper, found>> /\ watch'.step = "clean" /\ watch'.live = watch.live
    BY <1>0, <1>1 DEF Tick, Reserve, TypeOK
  <2> QED BY <1>0, <1>a, <2>1, <2>2, SameLeaves, QuietStep
<1>2. CASE CleanRelease
  <2>1. watch'.step = "clean" /\ watch'.live = watch.live /\ watch.step = "release"
    BY <1>0, <1>2 DEF CleanRelease, TypeOK
  <2> QED BY <1>2, <2>1, WatcherMoves DEF CleanRelease
<1>3. CASE CleanDone
  <2>1. watch'.step \in {"copy", "judge"} /\ watch'.live = watch.live /\ watch.step = "clean"
    BY <1>0, <1>3 DEF CleanDone, TypeOK
  <2> QED BY <1>3, <2>1, WatcherMoves DEF CleanDone
<1>4. CASE PollCopy
  <2>1. watch'.step # "finish" /\ watch'.live \subseteq {mem[i].gen : i \in Claims} /\ watch.step = "copy"
    BY <1>0, <1>4 DEF PollCopy, TypeOK, AtRest
  <2> QED BY <1>4, <2>1, WatcherMoves DEF PollCopy
<1>5. CASE PollList
  <2>0. ASSUME NEW S, NEW T
        PROVE LET w == [watch EXCEPT !.step = "disk", !.seen = S, !.todo = T]
              IN  w.step = "disk" /\ w.live = watch.live
    BY <1>d DEF Watch
  <2>1. watch'.step # "finish" /\ watch'.live \subseteq watch.live /\ watch.step = "list"
    <3>1. CASE watch' = AtRest
      BY <1>5, <3>1 DEF PollList, AtRest
    <3>2. CASE watch' # AtRest
      <4>1. PICK S, T : watch' = [watch EXCEPT !.step = "disk", !.seen = S, !.todo = T]
        BY <1>5, <3>2 DEF PollList
      <4> QED BY <1>5, <2>0, <4>1 DEF PollList
    <3> QED BY <3>1, <3>2
  <2> QED BY <1>5, <2>1, WatcherMoves DEF PollList
<1>6. CASE DiskDone \/ TimeDone \/ PollDone
  <2>1. watch'.step # "finish" /\ watch'.live \subseteq watch.live /\ watch.step # "idle"
    <3>1. ASSUME NEW T
          PROVE LET w == [watch EXCEPT !.step = "time", !.todo = T]
                IN  w.step = "time" /\ w.live = watch.live
      BY <1>d DEF Watch
    <3>2. CASE DiskDone
      BY <3>1, <3>2 DEF DiskDone
    <3>3. CASE TimeDone
      BY <1>d, <3>3 DEF TimeDone, Watch
    <3>4. CASE PollDone
      BY <3>4 DEF PollDone, AtRest
    <3> QED BY <1>6, <3>2, <3>3, <3>4
  <2> QED BY <1>6, <2>1, WatcherMoves DEF DiskDone, TimeDone, PollDone
<1>7. CASE Finish
  <2>1. PICK g \in Gens : g = watch.gen /\ g \in watch.live /\ ~Present(g)
    BY <1>0, <1>7 DEF Finish, WatchTrue, TypeOK
  <2>2. PICK i \in Ids : i = helper[g].id /\ mem[i].gen = g /\ Live(mem[i])
    BY <1>a, <2>1 DEF Claimed, TypeOK, HelperInv
  <2>3. /\ Finished(i, watch.end) /\ UNCHANGED <<mode, helper, starting, found>>
        /\ watch'.step = "clean" /\ watch'.live = watch.live \ {g} /\ mode = "serving"
    BY <1>0, <1>7, <1>b, <2>1, <2>2 DEF Finish, TypeOK
  <2> DEFINE e == [mem[i] EXCEPT !.state = Outcome(mem[i], watch.end)]
  <2>4. mem' = [mem EXCEPT ![i] = e] /\ disk' \in {disk, mem'}
    BY <2>3 DEF Finished, Commit
  <2>5. e.gen = g /\ g # 0
    BY <1>0, <2>2 DEF TypeOK, Entry, Live
  <2> HIDE DEF e
  <2> QED BY <1>0, <2>1, <2>2, <2>3, <2>4, <2>5, EndKeepsHelpers
<1>8. ASSUME NEW g \in Gens, CleanTeardown(g) PROVE HelperInv'
  <2>1. watch'.step = "release" /\ watch'.live = watch.live /\ watch.step = "clean"
    BY <1>0, <1>8 DEF CleanTeardown, TypeOK
  <2> QED BY <1>8, <2>1, WatcherMoves DEF CleanTeardown
<1>9. ASSUME NEW g \in Gens, CheckDiskFull(g) PROVE HelperInv'
  <2>1. PICK i \in Ids : i = helper[g].id
    BY <1>0 DEF TypeOK
  <2>2. EntriesStay
    <3>1. CASE UNCHANGED <<mem, disk>>
      BY <3>1, SameStay
    <3>2. CASE Live(mem[i]) /\ Commit([mem EXCEPT ![i].host = TRUE])
      <4> DEFINE e == [mem[i] EXCEPT !.host = TRUE]
      <4>1. e \in Entry /\ e.gen = mem[i].gen /\ e.state = mem[i].state
        BY <1>c, <1>e, Marked
      <4> QED BY <1>0, <3>2, <4>1, LiveStays DEF Live, Terminal
    <3>3. CASE Live(mem[i]) /\ Commit([mem EXCEPT ![i].host = TRUE, ![i].state = "stopping"])
      <4> DEFINE e == [mem[i] EXCEPT !.host = TRUE, !.state = "stopping"]
      <4>1. e \in Entry /\ e.gen = mem[i].gen /\ e.state = "stopping"
        BY <1>c, <1>e, Marked
      <4>2. ~Terminal(e)
        BY <4>1 DEF Terminal, Ended
      <4>3. [mem EXCEPT ![i].host = TRUE, ![i].state = "stopping"] = [mem EXCEPT ![i] = e]
        BY <1>0 DEF TypeOK, Entry
      <4> QED BY <1>0, <3>3, <4>1, <4>2, <4>3, LiveStays DEF Live
    <3> QED BY <1>9, <2>1, <3>1, <3>2, <3>3 DEF CheckDiskFull, MarkHostCondition
  <2>3. HelpersOnlyLeave
    BY <1>0, <1>9, SameLeaves, SignalLeaves DEF CheckDiskFull
  <2>4. watch.step = "disk" /\ watch'.step = "disk" /\ watch'.live = watch.live /\ UNCHANGED <<mode, starting, found>>
    BY <1>0, <1>9 DEF CheckDiskFull, TypeOK
  <2> QED BY <1>a, <1>b, <2>2, <2>3, <2>4, QuietStep
<1>10. ASSUME NEW g \in Gens, CheckTimeLimit(g) PROVE HelperInv'
  <2>1. PICK i \in Ids : i = helper[g].id
    BY <1>0 DEF TypeOK
  <2>2. EntriesStay
    <3>1. CASE UNCHANGED <<mem, disk>>
      BY <3>1, SameStay
    <3>2. CASE Live(mem[i]) /\ Commit([mem EXCEPT ![i].timedOut = TRUE, ![i].state = "stopping"])
      <4> DEFINE e == [mem[i] EXCEPT !.timedOut = TRUE, !.state = "stopping"]
      <4>1. e \in Entry /\ e.gen = mem[i].gen /\ e.state = "stopping"
        BY <1>c, <1>e, Marked
      <4>2. ~Terminal(e)
        BY <4>1 DEF Terminal, Ended
      <4>3. [mem EXCEPT ![i].timedOut = TRUE, ![i].state = "stopping"] = [mem EXCEPT ![i] = e]
        BY <1>0 DEF TypeOK, Entry
      <4> QED BY <1>0, <3>2, <4>1, <4>2, <4>3, LiveStays DEF Live
    <3> QED BY <1>10, <2>1, <3>1, <3>2 DEF CheckTimeLimit
  <2>3. HelpersOnlyLeave
    BY <1>0, <1>10, SameLeaves, SignalLeaves DEF CheckTimeLimit
  <2>4. watch.step = "time" /\ watch'.step = "time" /\ watch'.live = watch.live /\ UNCHANGED <<mode, starting, found>>
    BY <1>0, <1>10 DEF CheckTimeLimit, TypeOK
  <2> QED BY <1>a, <1>b, <2>2, <2>3, <2>4, QuietStep
<1>11. ASSUME NEW g \in Gens, Observe(g) PROVE HelperInv'
  <2>1. PICK i \in Ids : i = helper[g].id /\ mem[i].gen = g
    BY <1>0, <1>a, <1>11 DEF TypeOK, Observe, Claimed
  <2>2. EntriesStay
    <3>1. CASE UNCHANGED <<mem, disk>>
      BY <3>1, SameStay
    <3>2. CASE mem[i].state = "starting" /\ Commit([mem EXCEPT ![i].state = "running"])
      <4> DEFINE e == [mem[i] EXCEPT !.state = "running"]
      <4>0. g # 0
        BY AttemptsAssumption DEF Gens
      <4>1. e \in Entry /\ e.gen = mem[i].gen /\ e.state = "running"
        BY <1>c, <1>e, Marked
      <4>2. ~Terminal(e) /\ ~Terminal(mem[i])
        BY <3>2, <4>1 DEF Terminal, Ended
      <4> QED BY <1>0, <2>1, <3>2, <4>0, <4>1, <4>2, LiveStays
    <3> QED BY <1>11, <2>1, <3>1, <3>2 DEF Observe
  <2>3. watch.step = "judge" /\ watch'.step = "judge" /\ watch'.live \subseteq watch.live /\ UNCHANGED <<mode, helper, starting, found>>
    BY <1>0, <1>11 DEF Observe, TypeOK
  <2> QED BY <1>0, <1>a, <1>b, <2>2, <2>3, SameLeaves, QuietStep
<1>12. ASSUME NEW g \in Gens, Judge(g) PROVE HelperInv'
  <2>1. PICK i \in Ids : i = helper[g].id
    BY <1>0 DEF TypeOK
  <2>2. EntriesStay
    <3>1. CASE UNCHANGED <<mem, disk>>
      BY <3>1, SameStay
    <3>2. CASE Live(mem[i]) /\ Commit([mem EXCEPT ![i].host = TRUE])
      <4> DEFINE e == [mem[i] EXCEPT !.host = TRUE]
      <4>1. e \in Entry /\ e.gen = mem[i].gen /\ e.state = mem[i].state
        BY <1>c, <1>e, Marked
      <4> QED BY <1>0, <3>2, <4>1, LiveStays DEF Live, Terminal
    <3> QED BY <1>12, <2>1, <3>1, <3>2 DEF Judge, MarkHostCondition
  <2>3. /\ watch.step = "judge" /\ g \in watch.live /\ watch'.live \subseteq watch.live
        /\ UNCHANGED <<mode, helper, starting, found>>
        /\ watch'.step = "finish" => watch'.gen = g /\ g \in watch'.live /\ ~Present(g)
    <3>1. ASSUME NEW k, NEW x
          PROVE LET w == [watch EXCEPT !.step = "finish", !.gen = k, !.end = x]
                IN  w.step = "finish" /\ w.live = watch.live /\ w.gen = k
      BY <1>d DEF Watch
    <3>2. ASSUME NEW k
          PROVE LET w == [watch EXCEPT !.live = @ \ {k}]
                IN  w.step = watch.step /\ w.live \subseteq watch.live
      BY <1>d DEF Watch
    <3>3. CASE ~Shown(g) /\ watch' = [watch EXCEPT !.step = "finish", !.gen = g,
                                           !.end = EndFromStatus(helper[g].status)]
      BY <1>12, <3>1, <3>3 DEF Judge, Shown
    <3>4. CASE watch' = [watch EXCEPT !.live = @ \ {g}]
      BY <1>12, <3>2, <3>4 DEF Judge
    <3> QED BY <1>12, <3>3, <3>4 DEF Judge
  <2> QED BY <1>0, <1>a, <1>b, <2>2, <2>3, SameLeaves, QuietStep
<1> QED BY <1>1, <1>2, <1>3, <1>4, <1>5, <1>6, <1>7, <1>8, <1>9, <1>10, <1>11, <1>12 DEF Watcher

\* The manager's death and its next start.
LEMMA BootKeepsHelpers ==
    ASSUME HelperInv, TypeOK', Booting \/ Crash
    PROVE  HelperInv'
<1>0. TypeOK /\ WatchTrue /\ FoundTrue /\ StartHeld /\ TablesTrue /\ BornInOrder /\ NoneUnclaimed
  BY DEF HelperInv
<1>1. CASE Crash
  <2>1. /\ UNCHANGED <<mem, disk, helper>> /\ mode' = "down"
        /\ watch' = AtRest /\ found' = Nothing /\ starting' = NoStart
    BY <1>1 DEF Crash
  <2>2. BornInOrder' /\ TablesTrue'
    BY <1>0, <2>1 DEF BornInOrder, TablesTrue, Named, EndsTrue, Born, Present
  <2>3. StartHeld' /\ WatchTrue' /\ FoundTrue' /\ NoneUnclaimed'
    BY <2>1 DEF StartHeld, NoStart, WatchTrue, AtRest, FoundTrue, Nothing, NoneUnclaimed
  <2> QED BY <2>2, <2>3 DEF HelperInv
<1>2. CASE Restart
  <2>1. /\ UNCHANGED <<disk, helper, watch, found, starting>> /\ mem' = disk
        /\ mode = "down" /\ mode' = "listing"
    BY <1>2 DEF Restart
  <2>2. watch = AtRest /\ found = Nothing /\ starting.step = "none"
    BY <1>0, <2>1 DEF WatchTrue, FoundTrue, StartHeld
  <2>3. BornInOrder' /\ TablesTrue'
    BY <1>0, <2>1 DEF BornInOrder, TablesTrue, Named, EndsTrue, Born, Present
  <2>4. StartHeld' /\ WatchTrue' /\ FoundTrue' /\ NoneUnclaimed'
    BY <2>1, <2>2 DEF StartHeld, WatchTrue, AtRest, FoundTrue, Nothing, NoneUnclaimed
  <2> QED BY <2>3, <2>4 DEF HelperInv
<1>3. CASE ReconcileList
  <2>1. /\ UNCHANGED <<mem, disk, helper, watch, starting>> /\ mode = "listing"
        /\ \/ mode' = "reconcile" /\ found' = Findings
           \/ mode' = "down" /\ found' = found
    BY <1>3 DEF ReconcileList
  <2>2. watch = AtRest /\ found = Nothing /\ starting.step = "none"
    BY <1>0, <2>1 DEF WatchTrue, FoundTrue, StartHeld
  <2>3. BornInOrder' /\ TablesTrue'
    BY <1>0, <2>1 DEF BornInOrder, TablesTrue, Named, EndsTrue, Born, Present
  <2>4. \A i \in Claims : Claimed(mem[i].gen)
    BY <1>0 DEF Claims, Claimed, TablesTrue, Named, Live
  <2>5. Findings.lost \subseteq Gens
    BY <1>0, EntryGens DEF Findings, Claims, Live
  <2>6. \A g \in Findings.lost : Claimed(g) /\ ~Present(g)
    BY <2>4, <2>5 DEF Findings, Shown
  <2>7. \A g \in Gens : helper[g].st = "alive" => Claimed(g) \/ g \in Findings.orphans
    <3> SUFFICES ASSUME NEW g \in Gens, helper[g].st = "alive", g \notin Findings.orphans
                 PROVE  Claimed(g)
      OBVIOUS
    <3>1. Shown(g)
      BY DEF Shown, Present
    <3>2. g \in {mem[i].gen : i \in Claims}
      BY <3>1 DEF Findings
    <3> QED BY <2>4, <3>2
  <2>8. StartHeld' /\ WatchTrue'
    BY <2>1, <2>2 DEF StartHeld, WatchTrue, AtRest
  <2>9. \A g \in Gens : (Claimed(g)' <=> Claimed(g)) /\ (Present(g)' <=> Present(g))
    BY <2>1 DEF Claimed, Live, Present
  <2>10. FoundTrue' /\ NoneUnclaimed'
    BY <2>1, <2>2, <2>5, <2>6, <2>7, <2>9 DEF FoundTrue, Nothing, NoneUnclaimed
  <2> QED BY <2>3, <2>8, <2>10 DEF HelperInv
<1>4. ASSUME NEW g \in Gens, ReconcileLost(g) PROVE HelperInv'
  <2>1. mode = "reconcile" /\ g \in found.lost /\ found' = [found EXCEPT !.lost = @ \ {g}]
        /\ UNCHANGED <<mode, helper, starting, watch>> /\ Finished(helper[g].id, "lost")
    BY <1>4 DEF ReconcileLost
  <2>2. PICK i \in Ids : i = helper[g].id /\ mem[i].gen = g /\ Live(mem[i]) /\ ~Present(g)
    BY <1>0, <2>1 DEF FoundTrue, Claimed, TypeOK
  <2> DEFINE e == [mem[i] EXCEPT !.state = Outcome(mem[i], "lost")]
  <2>3. mem' = [mem EXCEPT ![i] = e] /\ disk' \in {disk, mem'}
    BY <2>1, <2>2 DEF Finished, Commit
  <2>4. e.gen = g
    BY <1>0, <2>2 DEF TypeOK, Entry
  <2> HIDE DEF e
  <2> QED BY <2>1, <2>2, <2>3, <2>4, EndKeepsHelpers
<1>5. ASSUME NEW g \in Gens, Reap(g) PROVE HelperInv'
  <2>1. HelpersOnlyLeave /\ EntriesStay
    BY <1>0, <1>5, SignalLeaves, SameStay DEF Reap
  <2>2. helper'[g].st # "alive"
    BY <1>0, <1>5 DEF Reap, Signal, TypeOK
  <2>3. found'.lost = found.lost /\ found'.orphans = found.orphans \ {g} /\ mode = "reconcile"
    BY <1>0, <1>5 DEF Reap, TypeOK
  <2>4. UNCHANGED <<mode, starting, watch>>
    BY <1>5 DEF Reap
  <2>5. \A k \in found.orphans \ found'.orphans : helper'[k].st # "alive"
    BY <2>2, <2>3
  <2>6. watch'.step = "finish" => watch'.gen \in watch'.live /\ ~Present(watch'.gen)
    BY <1>0, <2>4 DEF WatchTrue
  <2> QED BY <2>1, <2>3, <2>4, <2>5, <2>6, QuietStep
<1>6. ASSUME NEW g \in Gens, ReapEnd(g) PROVE HelperInv'
  <2>1. HelpersOnlyLeave /\ EntriesStay
    BY <1>0, <1>6, SignalLeaves, SameStay DEF ReapEnd
  <2>2. found'.lost = found.lost /\ found'.orphans = found.orphans /\ mode = "reconcile"
    BY <1>0, <1>6 DEF ReapEnd, TypeOK
  <2>3. UNCHANGED <<mode, starting, watch>>
    BY <1>6 DEF ReapEnd
  <2>4. watch'.step = "finish" => watch'.gen \in watch'.live /\ ~Present(watch'.gen)
    BY <1>0, <2>3 DEF WatchTrue
  <2> QED BY <2>1, <2>2, <2>3, <2>4, QuietStep
<1>7. CASE Serve
  <2>1. /\ UNCHANGED <<helper, watch, found, starting>> /\ mem' = mem /\ disk' \in {disk, mem}
        /\ mode = "reconcile" /\ mode' \in {"serving", "down"} /\ found = Nothing
    BY <1>7 DEF Serve, Commit
  <2>2. watch = AtRest /\ starting.step = "none"
    BY <1>0, <2>1 DEF WatchTrue, StartHeld
  <2>3. BornInOrder' /\ TablesTrue'
    BY <1>0, <2>1 DEF BornInOrder, TablesTrue, Named, EndsTrue, Born, Present
  <2>4. StartHeld' /\ WatchTrue' /\ FoundTrue'
    BY <2>1, <2>2 DEF StartHeld, WatchTrue, AtRest, FoundTrue, Nothing
  <2>5. \A g \in Gens : helper[g].st = "alive" => Claimed(g)
    BY <1>0, <2>1 DEF NoneUnclaimed, Nothing
  <2>6. NoneUnclaimed'
    BY <2>1, <2>5 DEF NoneUnclaimed, Claimed, Live
  <2> QED BY <2>3, <2>4, <2>6 DEF HelperInv
<1> QED BY <1>1, <1>2, <1>3, <1>4, <1>5, <1>6, <1>7 DEF Booting

LEMMA HelpersLeave ==
    ASSUME TypeOK, NEW g \in Gens, HelperBoot(g) \/ HelperEnd(g) \/ HelperGone(g) \/ Age(g)
    PROVE  HelpersOnlyLeave
<1>1. ASSUME NEW h \in [id : Ids, st : Process, status : Status, age : 0 .. 2], NEW s
      PROVE  /\ [h EXCEPT !.status = s].st = h.st /\ [h EXCEPT !.status = s].id = h.id
             /\ [h EXCEPT !.age = s].st = h.st /\ [h EXCEPT !.age = s].id = h.id
             /\ [h EXCEPT !.st = s].st = s /\ [h EXCEPT !.st = s].id = h.id
  OBVIOUS
<1>2. \A k \in Gens : helper[k] \in [id : Ids, st : Process, status : Status, age : 0 .. 2]
  BY DEF TypeOK
<1>3. \A k \in Gens \ {g} : helper'[k] = helper[k]
  BY DEF TypeOK, HelperBoot, HelperEnd, HelperGone, Age, Advance
<1>4. /\ helper'[g].id = helper[g].id
      /\ helper'[g].st = helper[g].st \/ (Present(g) /\ helper'[g].st = "gone")
  <2>1. CASE HelperBoot(g) \/ HelperEnd(g)
    <3>1. PICK s : helper' = [helper EXCEPT ![g].status = s]
      BY <2>1 DEF HelperBoot, HelperEnd, Advance
    <3> QED BY <1>1, <1>2, <3>1 DEF TypeOK
  <2>2. CASE HelperGone(g)
    BY <1>1, <1>2, <2>2 DEF TypeOK, HelperGone
  <2>3. CASE Age(g)
    <3>1. PICK s : helper' = [helper EXCEPT ![g].age = s]
      BY <2>3 DEF Age
    <3> QED BY <1>1, <1>2, <3>1 DEF TypeOK
  <2> QED BY <2>1, <2>2, <2>3
<1> QED BY <1>3, <1>4 DEF HelpersOnlyLeave, Born, Present

\* The helpers' own steps, and the host's disk.
LEMMA HelpersKeepHelpers ==
    ASSUME HelperInv, TypeOK', NEW g \in Gens,
           HelperBoot(g) \/ HelperEnd(g) \/ HelperGone(g) \/ Age(g)
    PROVE  HelperInv'
<1>0. TypeOK /\ WatchTrue
  BY DEF HelperInv
<1>5. HelpersOnlyLeave
  BY <1>0, HelpersLeave
<1>6. UNCHANGED <<mode, mem, disk, starting, watch, found>>
  BY DEF HelperBoot, HelperEnd, HelperGone, Age, HelperRest
<1>7. watch'.step = "finish" => watch'.gen \in watch'.live /\ ~Present(watch'.gen)
  BY <1>0, <1>6 DEF WatchTrue
<1> QED BY <1>5, <1>6, <1>7, SameStay, QuietStep

\* What holds of the helpers whatever calls fail, and whenever the manager dies.
THEOREM HelpersTrue == Spec => []HelperInv
<1>1. Init => HelperInv
  <2> SUFFICES ASSUME Init, TypeOK PROVE HelperInv
    BY TypeInit
  <2>1. BornInOrder
    <3>1. \A g \in Gens : ~Born(g) /\ ~(g <= 0)
      BY DEF Init, Born, Gens
    <3> QED BY <3>1, AttemptsAssumption DEF BornInOrder
  <2>2. \A i \in Ids : mem[i] = NoEntry /\ disk[i] = NoEntry
    BY DEF Init
  <2>3. TablesTrue
    BY <2>2 DEF TablesTrue, Named, EndsTrue, Terminal, NoEntry, Ended
  <2>4. StartHeld /\ WatchTrue /\ FoundTrue
    BY DEF Init, StartHeld, WatchTrue, FoundTrue, NoStart, AtRest, Nothing
  <2>5. NoneUnclaimed
    BY DEF Init, NoneUnclaimed
  <2> QED BY <2>1, <2>3, <2>4, <2>5 DEF HelperInv
<1>2. HelperInv /\ [Next]_vars => HelperInv'
  <2> SUFFICES ASSUME HelperInv, [Next]_vars PROVE HelperInv'
    OBVIOUS
  <2>0. TypeOK'
    BY TypeNext DEF HelperInv
  <2>1. CASE HostSpace \/ UNCHANGED vars
    BY <2>0, <2>1, StayUnchanged DEF HostSpace, vars
  <2> QED BY <2>0, <2>1, CallsKeepHelpers, StartKeepsHelpers, WatcherKeepsHelpers,
             BootKeepsHelpers, HelpersKeepHelpers DEF Next
<1> QED BY <1>1, <1>2, PTL DEF Spec

\* manager.go:885: a live helper is never reported as ended, for any number of attempts,
\* helpers and deaths of the manager, and whichever saves, listings and teardowns fail.
THEOREM EndsAreTrue == Spec => []EndedHelperGone
<1>1. HelperInv => EndedHelperGone
  BY DEF HelperInv, TablesTrue, EndsTrue, EndedHelperGone
<1> QED BY <1>1, HelpersTrue, PTL

-----------------------------------------------------------------------------
(* Admission: neither table ever holds more live entries than the host       *)
(* admits, and a start under the lock has a slot of its own.                 *)

LiveIn(t) == {i \in Ids : Live(t[i])}

Room(t) == IsFiniteSet(LiveIn(t)) /\ Cardinality(LiveIn(t)) <= Limit

SlotsInv ==
    /\ Room(mem) /\ Room(disk)
    /\ starting.step # "none" => Cardinality(LiveIn(mem)) < Limit

\* No entry becomes live.
NoneBegins ==
    /\ \A i \in Ids : Live(mem'[i]) => Live(mem[i])
    /\ disk' \in {disk, mem'}

LEMMA OneChanges ==
    ASSUME TypeOK, NEW i, NEW e, Live(mem[i]) \/ e = NoEntry, Commit([mem EXCEPT ![i] = e])
    PROVE  NoneBegins
<1>1. ~Live(NoEntry)
  BY DEF Live, NoEntry
<1>2. mem' = [mem EXCEPT ![i] = e] /\ disk' \in {disk, mem'}
  BY DEF Commit
<1>3. \A j \in Ids : mem'[j] = IF j = i THEN e ELSE mem[j]
  BY <1>2 DEF TypeOK
<1> QED BY <1>1, <1>2, <1>3 DEF NoneBegins

LEMMA CallsBeginNone ==
    ASSUME HelperInv, NEW i \in Ids, Stop(i) \/ Remove(i)
    PROVE  NoneBegins
<1>1. TypeOK
  BY DEF HelperInv
<1>2. CASE Stop(i)
  BY <1>1, <1>2, OneChanges DEF Stop
<1>3. CASE Remove(i) /\ ~UNCHANGED <<mem, disk>>
  BY <1>1, <1>3, OneChanges DEF Remove
<1>4. CASE UNCHANGED <<mem, disk>>
  BY <1>4 DEF NoneBegins
<1> QED BY <1>2, <1>3, <1>4

LEMMA WatcherBeginsNone ==
    ASSUME HelperInv, Watcher
    PROVE  NoneBegins
<1>0. TypeOK /\ WatchTrue
  BY DEF HelperInv
<1>1. ASSUME UNCHANGED <<mem, disk>> PROVE NoneBegins
  BY <1>1 DEF NoneBegins
<1>2. CASE Tick
  <2>1. CASE Commit(mem)
    BY <2>1 DEF Commit, NoneBegins
  <2> QED BY <1>1, <1>2, <2>1 DEF Tick
<1>3. CASE CleanRelease \/ CleanDone \/ PollCopy \/ PollList \/ DiskDone \/ TimeDone \/ PollDone
  BY <1>1, <1>3 DEF CleanRelease, CleanDone, PollCopy, PollList, DiskDone, TimeDone, PollDone
<1>4. CASE Finish
  BY <1>0, <1>1, <1>4, OneChanges DEF Finish, Finished
<1>5. ASSUME NEW g \in Gens, CleanTeardown(g) PROVE NoneBegins
  BY <1>1, <1>5 DEF CleanTeardown
<1>6. ASSUME NEW g \in Gens, CheckDiskFull(g) PROVE NoneBegins
  <2>0. PICK i : i = helper[g].id
    OBVIOUS
  <2>1. CASE Live(mem[i]) /\ Commit([mem EXCEPT ![i].host = TRUE])
    BY <1>0, <2>1, OneChanges
  <2>2. CASE Live(mem[i]) /\ Commit([mem EXCEPT ![i].host = TRUE, ![i].state = "stopping"])
    <3>1. Commit([mem EXCEPT ![i] = [mem[i] EXCEPT !.host = TRUE, !.state = "stopping"]])
      BY <1>0, <2>2, TwoFields
    <3> QED BY <1>0, <2>2, <3>1, OneChanges
  <2> QED BY <1>1, <1>6, <2>0, <2>1, <2>2 DEF CheckDiskFull, MarkHostCondition
<1>7. ASSUME NEW g \in Gens, CheckTimeLimit(g) PROVE NoneBegins
  <2>0. PICK i : i = helper[g].id
    OBVIOUS
  <2>1. CASE Live(mem[i]) /\ Commit([mem EXCEPT ![i].timedOut = TRUE, ![i].state = "stopping"])
    <3>1. Commit([mem EXCEPT ![i] = [mem[i] EXCEPT !.timedOut = TRUE, !.state = "stopping"]])
      BY <1>0, <2>1, TwoFields
    <3> QED BY <1>0, <2>1, <3>1, OneChanges
  <2> QED BY <1>1, <1>7, <2>0, <2>1 DEF CheckTimeLimit
<1>8. ASSUME NEW g \in Gens, Observe(g) PROVE NoneBegins
  <2>1. Live(mem[helper[g].id])
    BY <1>0, <1>8 DEF Observe, WatchTrue, Claimed
  <2> QED BY <1>0, <1>1, <1>8, <2>1, OneChanges DEF Observe
<1>9. ASSUME NEW g \in Gens, Judge(g) PROVE NoneBegins
  <2>0. PICK i : i = helper[g].id
    OBVIOUS
  <2>1. CASE Live(mem[i]) /\ Commit([mem EXCEPT ![i].host = TRUE])
    BY <1>0, <2>1, OneChanges
  <2> QED BY <1>1, <1>9, <2>0, <2>1 DEF Judge, MarkHostCondition
<1> QED BY <1>2, <1>3, <1>4, <1>5, <1>6, <1>7, <1>8, <1>9 DEF Watcher

\* Every step but two begins no entry: a start's record and a restart.
LEMMA OthersBeginNone ==
    ASSUME HelperInv, [Next]_vars, ~StartRecord, ~Restart
    PROVE  NoneBegins
<1>0. TypeOK /\ FoundTrue
  BY DEF HelperInv
<1>1. ASSUME UNCHANGED <<mem, disk>> PROVE NoneBegins
  BY <1>1 DEF NoneBegins
<1>2. CASE \E i \in Ids : StartRequest(i) \/ StartAdmit(i)
  BY <1>1, <1>2 DEF StartRequest, StartAdmit
<1>3. CASE StartSpawn \/ (\E on \in BOOLEAN : Drain(on)) \/ Crash \/ HostSpace \/ UNCHANGED vars
  BY <1>1, <1>3 DEF StartSpawn, Drain, Crash, HostSpace, vars
<1>4. CASE \E g \in Gens : HelperBoot(g) \/ HelperEnd(g) \/ HelperGone(g) \/ Age(g)
  BY <1>1, <1>4 DEF HelperBoot, HelperEnd, HelperGone, Age, HelperRest
<1>5. CASE Booting
  <2>1. CASE ReconcileList \/ \E g \in Gens : Reap(g) \/ ReapEnd(g)
    BY <1>1, <2>1 DEF ReconcileList, Reap, ReapEnd
  <2>2. CASE Serve
    BY <2>2 DEF Serve, Commit, NoneBegins
  <2>3. ASSUME NEW g \in Gens, ReconcileLost(g) PROVE NoneBegins
    <3>1. Live(mem[helper[g].id])
      BY <1>0, <2>3 DEF ReconcileLost, FoundTrue, Claimed
    <3> QED BY <1>0, <2>3, <3>1, OneChanges DEF ReconcileLost, Finished
  <2> QED BY <1>5, <2>1, <2>2, <2>3 DEF Booting
<1> QED BY <1>2, <1>3, <1>4, <1>5, CallsBeginNone, WatcherBeginsNone DEF Next

\* Neither two starts nor a restart take the last slot twice.
THEOREM SlotsTrue == Spec => []SlotsInv
<1>1. Init => SlotsInv
  <2> SUFFICES ASSUME Init PROVE SlotsInv
    OBVIOUS
  <2>1. LiveIn(mem) = {} /\ LiveIn(disk) = {}
    BY DEF Init, LiveIn, Live, NoEntry
  <2>2. IsFiniteSet({}) /\ Cardinality({}) = 0
    BY FS_EmptySet
  <2> QED BY <2>1, <2>2, AttemptsAssumption DEF SlotsInv, Room, Init, NoStart
<1>2. HelperInv /\ SlotsInv /\ [Next]_vars => SlotsInv'
  <2> SUFFICES ASSUME HelperInv, SlotsInv, [Next]_vars PROVE SlotsInv'
    OBVIOUS
  <2>0. TypeOK /\ IsFiniteSet(LiveIn(mem)) /\ Cardinality(LiveIn(mem)) \in Nat
    BY FS_CardinalityType DEF HelperInv, SlotsInv, Room
  <2>1. CASE StartRecord
    <3>0. PICK i \in Ids : i = starting.id
      BY <2>0 DEF TypeOK
    <3>1. /\ starting'.step = "none" /\ starting.step # "none" /\ disk' \in {disk, mem'}
          /\ \A j \in Ids : j # i => mem'[j] = mem[j]
      BY <2>0, <2>1, <3>0 DEF StartRecord, NoStart, Commit, TypeOK
    <3>2. LiveIn(mem)' \subseteq LiveIn(mem) \cup {i}
      BY <3>1 DEF LiveIn
    <3>3. /\ IsFiniteSet(LiveIn(mem) \cup {i})
          /\ Cardinality(LiveIn(mem) \cup {i}) <= Cardinality(LiveIn(mem)) + 1
          /\ Cardinality(LiveIn(mem) \cup {i}) \in Nat
      BY <2>0, FS_AddElement, FS_CardinalityType
    <3>4. IsFiniteSet(LiveIn(mem)') /\ Cardinality(LiveIn(mem)') <= Cardinality(LiveIn(mem) \cup {i})
          /\ Cardinality(LiveIn(mem)') \in Nat
      BY <3>2, <3>3, FS_Subset, FS_CardinalityType
    <3>5. Cardinality(LiveIn(mem)) < Limit
      BY <3>1 DEF SlotsInv
    <3>6. Room(mem)'
      BY <2>0, <3>3, <3>4, <3>5, AttemptsAssumption DEF Room
    <3>7. Room(disk)'
      <4>1. CASE disk' = disk
        BY <4>1 DEF SlotsInv, Room, LiveIn
      <4>2. CASE disk' = mem'
        BY <3>6, <4>2 DEF Room, LiveIn
      <4> QED BY <3>1, <4>1, <4>2
    <3> QED BY <3>1, <3>6, <3>7 DEF SlotsInv
  <2>2. CASE Restart
    <3>1. mem' = disk /\ disk' = disk /\ starting' = starting /\ starting.step = "none"
      BY <2>2 DEF Restart, HelperInv, StartHeld
    <3> QED BY <3>1 DEF SlotsInv, Room, LiveIn
  <2>3. CASE ~StartRecord /\ ~Restart
    <3>1. NoneBegins
      BY <2>3, OthersBeginNone
    <3>2. LiveIn(mem)' \subseteq LiveIn(mem)
      BY <3>1 DEF NoneBegins, LiveIn
    <3>3. IsFiniteSet(LiveIn(mem)') /\ Cardinality(LiveIn(mem)') <= Cardinality(LiveIn(mem))
          /\ Cardinality(LiveIn(mem)') \in Nat
      BY <2>0, <3>2, FS_Subset, FS_CardinalityType
    <3>4. Room(mem)'
      BY <2>0, <3>3, AttemptsAssumption DEF SlotsInv, Room
    <3>5. Room(disk)'
      <4>1. CASE disk' = disk
        BY <4>1 DEF SlotsInv, Room, LiveIn
      <4>2. CASE disk' = mem'
        BY <3>4, <4>2 DEF Room, LiveIn
      <4> QED BY <3>1, <4>1, <4>2 DEF NoneBegins
    <3>6. starting'.step # "none" => starting.step # "none" \/ Cardinality(LiveIn(mem)) < Limit
      <4>1. CASE starting' = starting
        BY <4>1
      <4>2. CASE \E i \in Ids : StartAdmit(i)
        BY <4>2 DEF StartAdmit, Admissible, Claims, LiveIn
      <4>3. CASE StartSpawn
        BY <4>3 DEF StartSpawn
      <4>4. CASE Crash
        BY <4>4 DEF Crash, NoStart
      <4> QED BY <2>3, <4>1, <4>2, <4>3, <4>4 DEF Next, vars, StartRequest, Stop, Remove, Drain, Watcher,
              Tick, CleanRelease, CleanDone, PollCopy, PollList, DiskDone, TimeDone, Finish, PollDone,
              CleanTeardown, CheckDiskFull, CheckTimeLimit, Observe, Judge, Booting, ReconcileList, Serve,
              ReconcileLost, Reap, ReapEnd, HelperBoot, HelperEnd, HelperGone, Age, HelperRest, HostSpace
    <3> QED BY <2>0, <3>3, <3>4, <3>5, <3>6, AttemptsAssumption DEF SlotsInv
  <2> QED BY <2>1, <2>2, <2>3
<1> QED BY <1>1, <1>2, HelpersTrue, PTL DEF Spec

\* Once the manager serves, every helper that was not told to go is claimed by a live entry or is
\* being recorded, and there are no more of them than the host admits, whatever fails.
THEOREM HelpersAreClaimed == Spec => []HelpersClaimed
<1>1. HelperInv /\ SlotsInv => HelpersClaimed
  <2> SUFFICES ASSUME HelperInv, SlotsInv, mode = "serving"
               PROVE  /\ Cardinality({g \in Gens : helper[g].st = "alive"}) <= Limit
                      /\ \A g \in {k \in Gens : helper[k].st = "alive"} :
                            \/ mem[helper[g].id].gen = g /\ Live(mem[helper[g].id])
                            \/ starting.step = "record" /\ starting.gen = g
    BY DEF HelpersClaimed
  <2> DEFINE running == {g \in Gens : helper[g].st = "alive"}
             held    == {g \in Gens : Claimed(g)}
             f       == [g \in held |-> helper[g].id]
  <2>1. TypeOK /\ IsFiniteSet(LiveIn(mem)) /\ Cardinality(LiveIn(mem)) \in Nat
        /\ Cardinality(LiveIn(mem)) <= Limit
    BY FS_CardinalityType DEF HelperInv, SlotsInv, Room
  <2>2. f \in Injection(held, LiveIn(mem))
    <3>1. f \in [held -> LiveIn(mem)]
      BY <2>1 DEF Claimed, LiveIn, TypeOK
    <3>2. \A a, b \in held : f[a] = f[b] => a = b
      BY DEF Claimed
    <3> QED BY <3>1, <3>2 DEF Injection, IsInjective
  <2>3. IsFiniteSet(held) /\ Cardinality(held) <= Cardinality(LiveIn(mem)) /\ Cardinality(held) \in Nat
    BY <2>1, <2>2, FS_Injection, FS_CardinalityType
  <2>4. \A g \in running : Claimed(g) \/ (starting.step = "record" /\ starting.gen = g)
    BY DEF HelperInv, NoneUnclaimed
  <2> HIDE DEF f, held
  <2>5. Cardinality(running) <= Limit
    <3>1. CASE starting.step = "record"
      <4>1. running \subseteq held \cup {starting.gen}
        BY <2>4 DEF held
      <4>2. /\ IsFiniteSet(held \cup {starting.gen})
            /\ Cardinality(held \cup {starting.gen}) <= Cardinality(held) + 1
            /\ Cardinality(held \cup {starting.gen}) \in Nat
        <5>1. /\ IsFiniteSet(held \cup {starting.gen})
              /\ Cardinality(held \cup {starting.gen}) =
                    IF starting.gen \in held THEN Cardinality(held) ELSE Cardinality(held) + 1
          BY <2>3, FS_AddElement
        <5> QED BY <2>3, <5>1
      <4>3. Cardinality(running) <= Cardinality(held \cup {starting.gen}) /\ Cardinality(running) \in Nat
        BY <4>1, <4>2, FS_Subset, FS_CardinalityType
      <4>4. Cardinality(LiveIn(mem)) < Limit
        BY <3>1 DEF SlotsInv
      <4> QED BY <2>1, <2>3, <4>2, <4>3, <4>4, AttemptsAssumption
    <3>2. CASE starting.step # "record"
      <4>1. running \subseteq held
        BY <2>4, <3>2 DEF held
      <4>2. Cardinality(running) <= Cardinality(held) /\ Cardinality(running) \in Nat
        BY <2>3, <4>1, FS_Subset, FS_CardinalityType
      <4> QED BY <2>1, <2>3, <4>2, AttemptsAssumption
    <3> QED BY <3>1, <3>2
  <2> QED BY <2>4, <2>5 DEF Claimed
<1> QED BY <1>1, HelpersTrue, SlotsTrue, PTL

-----------------------------------------------------------------------------
(* What holds while the table's saves succeed: nothing recorded is lost, no  *)
(* attempt ever has two helpers, and no VM is torn down under one.           *)

\* An entry's change that keeps what was recorded of it.
Kept(e, f) ==
    /\ f.gen = e.gen /\ (e.host => f.host)
    /\ f.host /\ Terminal(f) => f.state = "failed"

\* Only live entries change, and what is in memory is saved.
OnlyLiveChange ==
    /\ \A i \in Ids : mem'[i] = mem[i] \/ (Live(mem[i]) /\ Kept(mem[i], mem'[i]))
    /\ disk' = mem'

Removed == \E i \in Ids : /\ Remove(i) /\ i \notin rec'
                          /\ mem' = [mem EXCEPT ![i] = NoEntry] /\ disk' = mem'

Recorded == /\ StartRecord /\ UNCHANGED helper /\ disk' = mem'
            /\ mem' = [mem EXCEPT ![starting.id] =
                          [NoEntry EXCEPT !.gen = starting.gen, !.state = "starting"]]

LEMMA OneKept ==
    ASSUME TypeOK, "save" \notin Faults, NEW i, NEW e, Live(mem[i]), Kept(mem[i], e),
           Commit([mem EXCEPT ![i] = e])
    PROVE  OnlyLiveChange
<1>1. mem' = [mem EXCEPT ![i] = e] /\ disk' = mem'
  BY DEF Commit
<1>2. \A j \in Ids : mem'[j] = IF j = i THEN e ELSE mem[j]
  BY <1>1 DEF TypeOK
<1> QED BY <1>1, <1>2 DEF OnlyLiveChange

LEMMA MarksKept ==
    ASSUME NEW e \in Entry, Live(e)
    PROVE  /\ Kept(e, [e EXCEPT !.host = TRUE])
           /\ Kept(e, [e EXCEPT !.state = "stopping"]) /\ Kept(e, [e EXCEPT !.state = "running"])
           /\ Kept(e, [e EXCEPT !.host = TRUE, !.state = "stopping"])
           /\ Kept(e, [e EXCEPT !.timedOut = TRUE, !.state = "stopping"])
           /\ \A st : Kept(e, [e EXCEPT !.state = Outcome(e, st)])
<1>1. /\ Kept(e, [e EXCEPT !.host = TRUE])
      /\ Kept(e, [e EXCEPT !.state = "stopping"]) /\ Kept(e, [e EXCEPT !.state = "running"])
      /\ Kept(e, [e EXCEPT !.host = TRUE, !.state = "stopping"])
      /\ Kept(e, [e EXCEPT !.timedOut = TRUE, !.state = "stopping"])
  BY DEF Entry, Live, Kept, Terminal, Ended
<1>2. ASSUME NEW st PROVE Kept(e, [e EXCEPT !.state = Outcome(e, st)])
  BY DEF Entry, Kept, Outcome
<1> QED BY <1>1, <1>2

LEMMA WatcherKinds ==
    ASSUME HelperInv, disk = mem, "save" \notin Faults, Watcher
    PROVE  OnlyLiveChange
<1>0. TypeOK /\ WatchTrue
  BY DEF HelperInv
<1>a. \A i \in Ids : mem[i] \in Entry
  BY <1>0 DEF TypeOK
<1>b. \A g \in Gens : helper[g].id \in Ids
  BY <1>0 DEF TypeOK
<1>1. ASSUME UNCHANGED <<mem, disk>> PROVE OnlyLiveChange
  BY <1>1 DEF OnlyLiveChange
<1>2. CASE Tick
  BY <1>1, <1>2 DEF Tick
<1>3. CASE CleanRelease \/ CleanDone \/ PollCopy \/ PollList \/ DiskDone \/ TimeDone \/ PollDone
  BY <1>1, <1>3 DEF CleanRelease, CleanDone, PollCopy, PollList, DiskDone, TimeDone, PollDone
<1>4. CASE Finish
  <2>1. PICK i \in Ids : i = helper[watch.gen].id
    BY <1>0, <1>4, <1>b DEF Finish, WatchTrue, TypeOK
  <2>2. CASE Live(mem[i])
    <3>1. Commit([mem EXCEPT ![i] = [mem[i] EXCEPT !.state = Outcome(mem[i], watch.end)]])
      BY <1>4, <2>1, <2>2 DEF Finish, Finished
    <3> QED BY <1>0, <1>a, <2>2, <3>1, MarksKept, OneKept
  <2>3. CASE ~Live(mem[i])
    BY <1>1, <1>4, <2>1, <2>3 DEF Finish
  <2> QED BY <2>2, <2>3
<1>5. ASSUME NEW g \in Gens, CleanTeardown(g) PROVE OnlyLiveChange
  BY <1>1, <1>5 DEF CleanTeardown
<1>6. ASSUME NEW g \in Gens, CheckDiskFull(g) PROVE OnlyLiveChange
  <2>0. PICK i \in Ids : i = helper[g].id
    BY <1>b
  <2>1. CASE Live(mem[i]) /\ Commit([mem EXCEPT ![i].host = TRUE])
    BY <1>0, <1>a, <2>1, MarksKept, OneKept
  <2>2. CASE Live(mem[i]) /\ Commit([mem EXCEPT ![i].host = TRUE, ![i].state = "stopping"])
    <3>1. Commit([mem EXCEPT ![i] = [mem[i] EXCEPT !.host = TRUE, !.state = "stopping"]])
      BY <1>0, <2>2, TwoFields
    <3> QED BY <1>0, <1>a, <2>2, <3>1, MarksKept, OneKept
  <2> QED BY <1>1, <1>6, <2>0, <2>1, <2>2 DEF CheckDiskFull, MarkHostCondition
<1>7. ASSUME NEW g \in Gens, CheckTimeLimit(g) PROVE OnlyLiveChange
  <2>0. PICK i \in Ids : i = helper[g].id
    BY <1>b
  <2>1. CASE Live(mem[i]) /\ Commit([mem EXCEPT ![i].timedOut = TRUE, ![i].state = "stopping"])
    <3>1. Commit([mem EXCEPT ![i] = [mem[i] EXCEPT !.timedOut = TRUE, !.state = "stopping"]])
      BY <1>0, <2>1, TwoFields
    <3> QED BY <1>0, <1>a, <2>1, <3>1, MarksKept, OneKept
  <2> QED BY <1>1, <1>7, <2>0, <2>1 DEF CheckTimeLimit
<1>8. ASSUME NEW g \in Gens, Observe(g) PROVE OnlyLiveChange
  <2>0. PICK i \in Ids : i = helper[g].id
    BY <1>b
  <2>1. Live(mem[i])
    BY <1>0, <1>8, <2>0 DEF Observe, WatchTrue, Claimed
  <2>2. CASE Commit([mem EXCEPT ![i].state = "running"])
    BY <1>0, <1>a, <2>1, <2>2, MarksKept, OneKept
  <2> QED BY <1>1, <1>8, <2>0, <2>2 DEF Observe
<1>9. ASSUME NEW g \in Gens, Judge(g) PROVE OnlyLiveChange
  <2>0. PICK i \in Ids : i = helper[g].id
    BY <1>b
  <2>1. CASE Live(mem[i]) /\ Commit([mem EXCEPT ![i].host = TRUE])
    BY <1>0, <1>a, <2>1, MarksKept, OneKept
  <2> QED BY <1>1, <1>9, <2>0, <2>1 DEF Judge, MarkHostCondition
<1> QED BY <1>2, <1>3, <1>4, <1>5, <1>6, <1>7, <1>8, <1>9 DEF Watcher

\* Every step changes live entries only, but for a removal and a start's record.
LEMMA StepKinds ==
    ASSUME HelperInv, disk = mem, "save" \notin Faults, [Next]_vars
    PROVE  OnlyLiveChange \/ Removed \/ Recorded
<1>0. TypeOK /\ FoundTrue /\ StartHeld
  BY DEF HelperInv
<1>a. \A i \in Ids : mem[i] \in Entry
  BY <1>0 DEF TypeOK
<1>1. ASSUME UNCHANGED <<mem, disk>> PROVE OnlyLiveChange
  BY <1>1 DEF OnlyLiveChange
<1>2. CASE \E i \in Ids : StartRequest(i) \/ StartAdmit(i)
  BY <1>1, <1>2 DEF StartRequest, StartAdmit
<1>3. CASE StartSpawn \/ (\E on \in BOOLEAN : Drain(on)) \/ Crash \/ HostSpace \/ UNCHANGED vars
  BY <1>1, <1>3 DEF StartSpawn, Drain, Crash, HostSpace, vars
<1>4. CASE \E g \in Gens : HelperBoot(g) \/ HelperEnd(g) \/ HelperGone(g) \/ Age(g)
  BY <1>1, <1>4 DEF HelperBoot, HelperEnd, HelperGone, Age, HelperRest
<1>5. CASE Booting
  <2>1. CASE ReconcileList \/ \E g \in Gens : Reap(g) \/ ReapEnd(g)
    BY <1>1, <2>1 DEF ReconcileList, Reap, ReapEnd
  <2>2. CASE Serve \/ Restart
    BY <2>2 DEF Serve, Restart, Commit, OnlyLiveChange
  <2>3. ASSUME NEW g \in Gens, ReconcileLost(g) PROVE OnlyLiveChange
    <3>1. PICK i \in Ids : i = helper[g].id /\ Live(mem[i])
      BY <1>0, <2>3 DEF ReconcileLost, FoundTrue, Claimed, TypeOK
    <3>2. Commit([mem EXCEPT ![i] = [mem[i] EXCEPT !.state = Outcome(mem[i], "lost")]])
      BY <2>3, <3>1 DEF ReconcileLost, Finished
    <3> QED BY <1>0, <1>a, <3>1, <3>2, MarksKept, OneKept
  <2> QED BY <1>5, <2>1, <2>2, <2>3 DEF Booting
<1>6. ASSUME NEW i \in Ids, Stop(i) PROVE OnlyLiveChange
  BY <1>0, <1>6, <1>a, MarksKept, OneKept DEF Stop
<1>7. ASSUME NEW i \in Ids, Remove(i) PROVE OnlyLiveChange \/ Removed
  BY <1>1, <1>7 DEF Remove, Removed, Commit
<1>8. CASE StartRecord
  BY <1>1, <1>8 DEF StartRecord, Recorded, Commit
<1> QED BY <1>2, <1>3, <1>4, <1>5, <1>6, <1>7, <1>8, WatcherKinds DEF Next

\* A marked entry that ended has failed.
HostFails == \A i \in Ids : mem[i].host /\ Terminal(mem[i]) => mem[i].state = "failed"

EndsInv == disk = mem /\ HostFails

LEMMA EndsStep ==
    ASSUME HelperInv, EndsInv, "save" \notin Faults, [Next]_vars
    PROVE  /\ EndsInv'
           /\ \A i \in Ids :
                 /\ Terminal(mem[i]) => mem'[i] = mem[i] \/ mem'[i].gen # mem[i].gen
                 /\ (mem[i].host /\ mem'[i].gen = mem[i].gen) =>
                       mem'[i].host /\ (Terminal(mem'[i]) => mem'[i].state = "failed")
<1>0. TypeOK /\ StartHeld /\ Named(mem)
  BY DEF HelperInv, TablesTrue
<1>1. ~Terminal(NoEntry) /\ NoEntry.gen = 0 /\ ~NoEntry.host
  BY DEF NoEntry, Terminal, Ended
<1>2. CASE OnlyLiveChange
  <2>1. disk' = mem'
    BY <1>2 DEF OnlyLiveChange
  <2>2. ASSUME NEW i \in Ids
        PROVE  /\ mem'[i].host /\ Terminal(mem'[i]) => mem'[i].state = "failed"
               /\ Terminal(mem[i]) => mem'[i] = mem[i]
               /\ mem[i].host => mem'[i].host
    BY <1>2 DEF OnlyLiveChange, EndsInv, HostFails, Kept, Live
  <2> QED BY <2>1, <2>2 DEF EndsInv, HostFails
<1>3. CASE Removed
  <2>1. PICK i \in Ids : Terminal(mem[i]) /\ mem' = [mem EXCEPT ![i] = NoEntry] /\ disk' = mem'
    BY <1>3 DEF Removed, Remove, Removable
  <2>2. mem[i].gen # 0
    BY <1>0, <1>1, <2>1 DEF Named
  <2>3. mem'[i] = NoEntry /\ \A j \in Ids : j # i => mem'[j] = mem[j]
    BY <1>0, <2>1 DEF TypeOK
  <2> QED BY <1>1, <2>1, <2>2, <2>3 DEF EndsInv, HostFails
<1>4. CASE Recorded
  <2>1. PICK i \in Ids, g \in Gens : i = starting.id /\ g = starting.gen /\ mem[i] = NoEntry
    BY <1>0, <1>4 DEF Recorded, StartRecord, StartHeld, TypeOK
  <2> DEFINE e == [NoEntry EXCEPT !.gen = g, !.state = "starting"]
  <2>2. ~Terminal(e) /\ e.gen # 0 /\ ~e.host
    BY AttemptsAssumption DEF NoEntry, Gens, Terminal, Ended
  <2>3. mem' = [mem EXCEPT ![i] = e] /\ disk' = mem'
    BY <1>4, <2>1 DEF Recorded
  <2> HIDE DEF e
  <2>4. mem'[i] = e /\ \A j \in Ids : j # i => mem'[j] = mem[j]
    BY <1>0, <2>3 DEF TypeOK
  <2> QED BY <1>1, <2>1, <2>2, <2>3, <2>4 DEF EndsInv, HostFails
<1> QED BY <1>2, <1>3, <1>4, StepKinds DEF EndsInv

LEMMA EndsInit == Init => EndsInv
BY DEF Init, EndsInv, HostFails, NoEntry

\* finish and markHostCondition: an outcome once recorded is never changed or forgotten, across any
\* number of deaths of the manager, and a host condition once marked decides it, as long as the
\* table's saves succeed.
THEOREM EndsAreKept == "save" \notin Faults /\ Spec => EndKept
<1> SUFFICES ASSUME "save" \notin Faults PROVE Spec => EndKept
  OBVIOUS
<1>1. HelperInv /\ EndsInv /\ [Next]_vars => EndsInv'
  BY EndsStep
<1>2. HelperInv /\ EndsInv /\ [Next]_vars =>
        [\A i \in Ids :
            /\ Terminal(mem[i]) => mem'[i] = mem[i] \/ mem'[i].gen # mem[i].gen
            /\ (mem[i].host /\ mem'[i].gen = mem[i].gen) =>
                  mem'[i].host /\ (Terminal(mem'[i]) => mem'[i].state = "failed")]_vars
  BY EndsStep
<1> QED BY <1>1, <1>2, EndsInit, HelpersTrue, PTL DEF Spec, EndKept

\* A helper's record is open for as long as the helper may run.
RecordsOpen == \A g \in Gens : Present(g) => helper[g].id \in rec

\* An attempt's entry names the one helper of it that may run.
EntryOwns ==
    \A g \in Gens : Present(g) /\ mem[helper[g].id] # NoEntry => mem[helper[g].id].gen = g

\* A start under the lock has the attempt's only helper.
StartAlone ==
    starting.step # "none" =>
        /\ starting.id \in rec
        /\ \A g \in Gens : Present(g) /\ helper[g].id = starting.id =>
              starting.step = "record" /\ g = starting.gen

AloneInv == RecordsOpen /\ EntryOwns /\ OneHelperPerAttempt /\ StartAlone

\* Every step but a start's spawn.
LEMMA OthersLeave ==
    ASSUME HelperInv, [Next]_vars, ~StartSpawn
    PROVE  HelpersOnlyLeave
<1>0. TypeOK
  BY DEF HelperInv
<1>1. ASSUME UNCHANGED helper PROVE HelpersOnlyLeave
  BY <1>0, <1>1, SameLeaves
<1>2. CASE \E i \in Ids : StartRequest(i) \/ StartAdmit(i) \/ Stop(i) \/ Remove(i)
  BY <1>0, <1>1, <1>2, SignalLeaves DEF StartRequest, StartAdmit, Stop, Remove
<1>3. CASE StartRecord \/ (\E on \in BOOLEAN : Drain(on)) \/ Crash \/ HostSpace \/ UNCHANGED vars
  BY <1>0, <1>1, <1>3, SignalLeaves DEF StartRecord, Drain, Crash, HostSpace, vars
<1>4. CASE \E g \in Gens : HelperBoot(g) \/ HelperEnd(g) \/ HelperGone(g) \/ Age(g)
  BY <1>0, <1>4, HelpersLeave
<1>5. CASE Booting
  BY <1>0, <1>1, <1>5, SignalLeaves DEF Booting, Restart, ReconcileList, ReconcileLost, Reap, ReapEnd, Serve
<1>6. CASE Watcher
  <2>1. CASE Tick \/ CleanRelease \/ CleanDone \/ PollCopy \/ PollList \/ DiskDone \/ TimeDone
             \/ Finish \/ PollDone
    BY <1>1, <2>1 DEF Tick, CleanRelease, CleanDone, PollCopy, PollList, DiskDone, TimeDone, Finish, PollDone
  <2>2. CASE \E g \in Gens : CleanTeardown(g) \/ Observe(g) \/ Judge(g)
    BY <1>1, <2>2 DEF CleanTeardown, Observe, Judge
  <2>3. CASE \E g \in Gens : CheckDiskFull(g) \/ CheckTimeLimit(g)
    BY <1>0, <1>1, <2>3, SignalLeaves DEF CheckDiskFull, CheckTimeLimit
  <2> QED BY <1>6, <2>1, <2>2, <2>3 DEF Watcher
<1> QED BY <1>2, <1>3, <1>4, <1>5, <1>6 DEF Next

\* Where helpers only leave, what could have run beside another is no more than it was.
LEMMA LeavingKeepsAlone ==
    ASSUME TypeOK, HelpersOnlyLeave, AloneInv, rec \subseteq rec',
           \A g \in Gens : Present(g) /\ mem'[helper[g].id] # NoEntry =>
                mem'[helper[g].id] = mem[helper[g].id] \/ mem'[helper[g].id].gen = g
    PROVE  RecordsOpen' /\ EntryOwns' /\ OneHelperPerAttempt'
<1>1. \A g \in Gens : helper'[g].id = helper[g].id /\ (Present(g)' => Present(g))
  BY DEF HelpersOnlyLeave
<1>2. RecordsOpen'
  BY <1>1 DEF RecordsOpen, AloneInv
<1>3. OneHelperPerAttempt'
  BY <1>1 DEF OneHelperPerAttempt, AloneInv
<1>4. EntryOwns'
  BY <1>1 DEF EntryOwns, AloneInv
<1> QED BY <1>2, <1>3, <1>4

LEMMA AloneStep ==
    ASSUME HelperInv, EndsInv, AloneInv, "save" \notin Faults, [Next]_vars
    PROVE  AloneInv'
<1>0. TypeOK /\ StartHeld /\ BornInOrder /\ TablesTrue
  BY DEF HelperInv
<1>1. ASSUME NEW i \in Ids, StartAdmit(i) PROVE AloneInv'
  <2>1. UNCHANGED <<mem, helper>> /\ rec \subseteq rec' /\ starting.step = "none"
    BY <1>1 DEF StartAdmit, Closed, LockFree
  <2>2. RecordsOpen' /\ EntryOwns' /\ OneHelperPerAttempt'
    BY <1>0, <2>1, SameLeaves, LeavingKeepsAlone
  <2>3. CASE starting' = starting
    BY <2>1, <2>2, <2>3 DEF AloneInv, StartAlone
  <2>4. CASE starting' = [step |-> "spawn", id |-> i, gen |-> 0] /\ i \notin rec /\ rec' = rec \cup {i}
    <3>1. \A g \in Gens : Present(g) => helper[g].id # i
      BY <2>4 DEF AloneInv, RecordsOpen
    <3>2. StartAlone'
      BY <2>1, <2>4, <3>1 DEF StartAlone, Present
    <3> QED BY <2>2, <3>2 DEF AloneInv
  <2> QED BY <1>1, <2>3, <2>4 DEF StartAdmit
<1>2. CASE StartSpawn
  <2>0. PICK i \in Ids : i = starting.id
    BY <1>0 DEF TypeOK
  <2>1. /\ UNCHANGED mem /\ starting.step = "spawn" /\ mem[i] = NoEntry /\ i \in rec
        /\ \A g \in Gens : Present(g) => helper[g].id # i
    BY <1>0, <1>2, <2>0 DEF StartSpawn, StartHeld, AloneInv, StartAlone
  <2>2. CASE starting' = NoStart /\ UNCHANGED helper /\ rec' \in Closed(rec, {i})
    <3>1. rec \ {i} \subseteq rec'
      BY <2>2 DEF Closed
    <3> QED BY <2>1, <2>2, <3>1 DEF AloneInv, RecordsOpen, EntryOwns, OneHelperPerAttempt, StartAlone, NoStart, Present
  <2>3. ASSUME NEW n \in Gens,
               n = 1 + Cardinality({x \in Gens : helper[x].st # "unborn"}),
               helper' = [helper EXCEPT ![n] = [id |-> starting.id, st |-> "alive", status |-> "none", age |-> 0]],
               starting' = [starting EXCEPT !.step = "record", !.gen = n], UNCHANGED rec
        PROVE AloneInv'
    <3>1. /\ \A g \in Gens : g # n => helper'[g] = helper[g]
          /\ helper'[n].id = i
      BY <1>0, <2>0, <2>3 DEF TypeOK
    <3>2. starting'.step = "record" /\ starting'.gen = n /\ starting'.id = i
      BY <1>0, <2>0, <2>3 DEF TypeOK
    <3>3. RecordsOpen'
      BY <2>1, <2>3, <3>1 DEF AloneInv, RecordsOpen, Present
    <3>4. EntryOwns'
      BY <2>1, <3>1 DEF AloneInv, EntryOwns, Present
    <3>5. OneHelperPerAttempt'
      BY <2>1, <3>1 DEF AloneInv, OneHelperPerAttempt, Present
    <3>6. StartAlone'
      BY <2>1, <2>3, <3>1, <3>2 DEF StartAlone, Present
    <3> QED BY <3>3, <3>4, <3>5, <3>6 DEF AloneInv
  <2> QED BY <1>2, <2>0, <2>2, <2>3 DEF StartSpawn
<1>3. CASE StartRecord
  <2>0. PICK i \in Ids, g \in Gens : i = starting.id /\ g = starting.gen
    BY <1>0, <1>3 DEF StartRecord, StartHeld, TypeOK
  <2>1. /\ starting.step = "record" /\ starting' = NoStart /\ UNCHANGED rec /\ mem[i] = NoEntry
        /\ \A k \in Gens : Present(k) /\ helper[k].id = i => k = g
    BY <1>0, <1>3, <2>0 DEF StartRecord, StartHeld, AloneInv, StartAlone
  <2>2. HelpersOnlyLeave
    BY <1>0, <1>3, SameLeaves, SignalLeaves DEF StartRecord
  <2>3. \A k \in Gens : Present(k) /\ mem'[helper[k].id] # NoEntry =>
              mem'[helper[k].id] = mem[helper[k].id] \/ mem'[helper[k].id].gen = k
    <3>1. CASE UNCHANGED mem
      BY <3>1
    <3>2. CASE mem' = [mem EXCEPT ![i] = [NoEntry EXCEPT !.gen = g, !.state = "starting"]]
      <4>1. [NoEntry EXCEPT !.gen = g, !.state = "starting"].gen = g
        BY DEF NoEntry
      <4>2. \A j \in Ids : mem'[j] = IF j = i THEN [NoEntry EXCEPT !.gen = g, !.state = "starting"] ELSE mem[j]
        BY <1>0, <3>2 DEF TypeOK
      <4>3. \A k \in Gens : helper[k].id \in Ids
        BY <1>0 DEF TypeOK
      <4> QED BY <2>1, <4>1, <4>2, <4>3
    <3> QED BY <1>3, <2>0, <3>1, <3>2 DEF StartRecord, Commit
  <2>4. RecordsOpen' /\ EntryOwns' /\ OneHelperPerAttempt'
    BY <1>0, <2>1, <2>2, <2>3, LeavingKeepsAlone
  <2> QED BY <2>1, <2>4 DEF AloneInv, StartAlone, NoStart
<1>4. ASSUME NEW i \in Ids, Remove(i) PROVE AloneInv'
  <2>1. /\ UNCHANGED <<helper, starting>> /\ Terminal(mem[i]) /\ starting.step = "none" /\ rec \ {i} \subseteq rec'
        /\ mem' = mem \/ mem' = [mem EXCEPT ![i] = NoEntry]
    BY <1>4 DEF Remove, Removable, Closed, LockFree, Commit
  <2>2. \A g \in Gens : Present(g) => helper[g].id # i
    <3>1. mem[i] # NoEntry /\ ~Present(mem[i].gen)
      BY <1>0, <2>1 DEF TablesTrue, EndsTrue, NoEntry, Terminal, Ended
    <3> QED BY <3>1 DEF AloneInv, EntryOwns
  <2>3. \A j \in Ids : j # i => mem'[j] = mem[j]
    BY <1>0, <2>1 DEF TypeOK
  <2>4. \A g \in Gens : helper[g].id \in Ids
    BY <1>0 DEF TypeOK
  <2>5. RecordsOpen'
    BY <2>1, <2>2 DEF AloneInv, RecordsOpen, Present
  <2>6. EntryOwns'
    BY <2>1, <2>2, <2>3, <2>4 DEF AloneInv, EntryOwns, Present
  <2> QED BY <2>1, <2>5, <2>6 DEF AloneInv, OneHelperPerAttempt, Present, StartAlone
<1>5. CASE /\ \A i \in Ids : ~StartAdmit(i) /\ ~Remove(i)
           /\ ~StartSpawn /\ ~StartRecord
  <2>1. HelpersOnlyLeave
    BY <1>5, OthersLeave
  <2>2. OnlyLiveChange
    BY <1>5, StepKinds DEF EndsInv, Removed, Recorded
  <2>3. rec' = rec /\ (starting' = starting \/ starting' = NoStart)
    BY <1>5 DEF Next, vars, StartRequest, Stop, Drain, Watcher, Crash, Restart,
       Tick, CleanRelease, CleanDone, PollCopy, PollList, DiskDone, TimeDone, Finish, PollDone,
       CleanTeardown, CheckDiskFull, CheckTimeLimit, Observe, Judge, Booting, ReconcileList, Serve,
       ReconcileLost, Reap, ReapEnd, HelperBoot, HelperEnd, HelperGone, Age, HelperRest, HostSpace
  <2>4. \A g \in Gens : helper[g].id \in Ids
    BY <1>0 DEF TypeOK
  <2>5. ASSUME NEW g \in Gens, Present(g), mem'[helper[g].id] # NoEntry
        PROVE mem'[helper[g].id] = mem[helper[g].id] \/ mem'[helper[g].id].gen = g
    <3>1. CASE Live(mem[helper[g].id]) /\ Kept(mem[helper[g].id], mem'[helper[g].id])
      BY <2>5, <3>1 DEF AloneInv, EntryOwns, Kept, Live, NoEntry
    <3> QED BY <2>2, <2>4, <3>1 DEF OnlyLiveChange
  <2>6. RecordsOpen' /\ EntryOwns' /\ OneHelperPerAttempt'
    BY <1>0, <2>1, <2>3, <2>5, LeavingKeepsAlone
  <2>7. StartAlone'
    BY <2>1, <2>3 DEF StartAlone, AloneInv, HelpersOnlyLeave, NoStart
  <2> QED BY <2>6, <2>7 DEF AloneInv
<1> QED BY <1>1, <1>2, <1>3, <1>4, <1>5

LEMMA AloneInit == Init => AloneInv
BY DEF Init, AloneInv, RecordsOpen, EntryOwns, OneHelperPerAttempt, StartAlone, Present, NoStart

\* No attempt id ever has two helpers, across failed starts, deaths of the manager, removals and
\* reuse of the id, as long as the table's saves succeed.
THEOREM HelpersAreAlone == "save" \notin Faults /\ Spec => []OneHelperPerAttempt
<1> SUFFICES ASSUME "save" \notin Faults PROVE Spec => []OneHelperPerAttempt
  OBVIOUS
<1>1. HelperInv /\ EndsInv /\ AloneInv /\ [Next]_vars => EndsInv' /\ AloneInv'
  BY EndsStep, AloneStep
<1>2. AloneInv => OneHelperPerAttempt
  BY DEF AloneInv
<1> QED BY <1>1, <1>2, EndsInit, AloneInit, HelpersTrue, PTL DEF Spec

\* What the cleanup works on without the lock stays an ended attempt's, by its reservation.
CleanTrue ==
    watch.step \in {"clean", "release"} => \A g \in watch.todo :
        g \in reserved /\ mem[helper[g].id].gen = g /\ Terminal(mem[helper[g].id])

\* No helper but the one reconcile reaps can run for its attempt.
ReapAlone ==
    \A g \in found.orphans \cup found.reaping, k \in Gens :
        Present(k) /\ helper[k].id = helper[g].id => k = g

TeardownInv == CleanTrue /\ ReapAlone

\* Entries whose helpers are named and ended stay so, but for those removed.
LEMMA CleanStays ==
    ASSUME HelperInv, EndsInv, CleanTrue, "save" \notin Faults, [Next]_vars,
           watch'.step \in {"clean", "release"} => watch.step \in {"clean", "release"},
           watch'.todo \subseteq watch.todo, \A g \in watch'.todo : g \in reserved => g \in reserved'
    PROVE  CleanTrue'
<1> SUFFICES ASSUME watch'.step \in {"clean", "release"}, NEW g \in watch'.todo
             PROVE  g \in reserved' /\ mem'[helper'[g].id].gen = g /\ Terminal(mem'[helper'[g].id])
  BY DEF CleanTrue
<1>0. TypeOK /\ StartHeld /\ BornInOrder /\ TablesTrue
  BY DEF HelperInv
<1>1. g \in Gens /\ g \in reserved' /\ g \in reserved /\ helper[g].id \in Ids
  BY <1>0 DEF CleanTrue, TypeOK
<1>2. mem[helper[g].id].gen = g /\ Terminal(mem[helper[g].id])
  BY DEF CleanTrue
<1>3. helper'[g].id = helper[g].id
  <2>1. CASE StartSpawn
    <3>1. CASE UNCHANGED helper
      BY <3>1
    <3>2. ASSUME NEW n \in Gens, n = 1 + Cardinality({x \in Gens : helper[x].st # "unborn"}),
               helper' = [helper EXCEPT ![n] = [id |-> starting.id, st |-> "alive", status |-> "none", age |-> 0]]
          PROVE helper'[g].id = helper[g].id
      <4>1. ~Born(n)
        BY <1>0, <3>2, NextBorn
      <4>2. Born(g)
        <5>1. g # 0
          BY <1>1, AttemptsAssumption DEF Gens
        <5> QED BY <1>0, <1>1, <1>2, <5>1 DEF TablesTrue, Named
      <4> QED BY <1>0, <1>1, <3>2, <4>1, <4>2 DEF TypeOK
    <3> QED BY <2>1, <3>1, <3>2 DEF StartSpawn
  <2>2. CASE ~StartSpawn
    BY <1>1, <2>2, OthersLeave DEF HelpersOnlyLeave
  <2> QED BY <2>1, <2>2
<1>4. mem'[helper[g].id] = mem[helper[g].id]
  <2>1. CASE OnlyLiveChange
    BY <1>1, <1>2, <2>1 DEF OnlyLiveChange, Live
  <2>2. CASE Removed
    <3>1. PICK i \in Ids : mem[i].gen \notin reserved /\ mem' = [mem EXCEPT ![i] = NoEntry]
      BY <2>2 DEF Removed, Remove, Removable
    <3> QED BY <1>0, <1>1, <1>2, <3>1 DEF TypeOK
  <2>3. CASE Recorded
    <3>1. mem[starting.id] = NoEntry /\ starting.id \in Ids
      BY <1>0, <2>3 DEF Recorded, StartRecord, StartHeld, TypeOK
    <3>2. helper[g].id # starting.id
      BY <1>2, <3>1 DEF NoEntry, Terminal, Ended
    <3> QED BY <1>0, <1>1, <2>3, <3>2 DEF Recorded, TypeOK
  <2> QED BY <2>1, <2>2, <2>3, StepKinds DEF EndsInv
<1> QED BY <1>1, <1>2, <1>3, <1>4

\* The cleanup's work, as it is reserved.
LEMMA WorkTrue ==
    ASSUME HelperInv, NEW g \in Gens, NEW i \in Ids, mem[i].gen = g
    PROVE  helper[g].id = i
<1>1. g # 0
  BY AttemptsAssumption DEF Gens
<1> QED BY <1>1 DEF HelperInv, TablesTrue, Named

LEMMA CleanStep ==
    ASSUME HelperInv, EndsInv, CleanTrue, "save" \notin Faults, [Next]_vars
    PROVE  CleanTrue'
<1>0. TypeOK /\ WatchTrue /\ watch \in Watch
  BY DEF HelperInv, TypeOK, Watch
<1>1. CASE Tick
  <2>1. mem' = mem /\ UNCHANGED helper /\ Reserve(watch, "copy")
    BY <1>1 DEF Tick, Commit
  <2> DEFINE work == {g \in Gens \ reserved : \E i \in Ids : mem[i].gen = g /\ Terminal(mem[i])}
  <2>2. watch'.todo = work /\ reserved' = reserved \cup work
    BY <1>0, <2>1 DEF Reserve, Watch
  <2>3. ASSUME NEW g \in work PROVE mem[helper[g].id].gen = g /\ Terminal(mem[helper[g].id])
    BY WorkTrue
  <2> HIDE DEF work
  <2> QED BY <2>1, <2>2, <2>3 DEF CleanTrue
<1>2. CASE Finish
  <2>1. PICK g \in Gens : g = watch.gen /\ g \in watch.live
    BY <1>0, <1>2 DEF Finish, WatchTrue, TypeOK
  <2>2. PICK i \in Ids : i = helper[g].id /\ mem[i].gen = g /\ Live(mem[i])
    BY <1>0, <2>1 DEF WatchTrue, Claimed, TypeOK
  <2> DEFINE work == {k \in Gens \ reserved : k = watch.gen \/
                         \E j \in Ids : mem[j].gen = k /\ Terminal(mem[j])}
             w    == [watch EXCEPT !.live = @ \ {watch.gen}, !.gen = 0, !.end = "lost"]
  <2>3. /\ Finished(i, watch.end) /\ UNCHANGED helper /\ reserved' = reserved \cup work
        /\ watch' = [w EXCEPT !.step = "clean", !.after = "judge", !.todo = work]
    BY <1>2, <2>1, <2>2 DEF Finish
  <2>4. watch'.todo = work
    BY <1>0, <2>3 DEF Watch
  <2>5. mem[i] \in Entry /\ watch.end \in Ended
    BY <1>0 DEF TypeOK
  <2>6. /\ mem'[i].gen = g /\ Terminal(mem'[i])
        /\ \A j \in Ids : j # i => mem'[j] = mem[j]
    <3> DEFINE e == [mem[i] EXCEPT !.state = Outcome(mem[i], watch.end)]
    <3>1. e.gen = g /\ e.state = Outcome(mem[i], watch.end)
      BY <2>2, <2>5 DEF Entry
    <3>2. Outcome(mem[i], watch.end) \in Ended
      BY <2>5 DEF Outcome, Ended
    <3>3. mem' = [mem EXCEPT ![i] = e]
      BY <2>3 DEF Finished, Commit
    <3>4. Terminal(e)
      BY <3>1, <3>2 DEF Terminal
    <3> HIDE DEF e
    <3> QED BY <1>0, <3>1, <3>3, <3>4 DEF TypeOK
  <2>7. ASSUME NEW k \in work PROVE mem'[helper[k].id].gen = k /\ Terminal(mem'[helper[k].id])
    <3>1. CASE k = watch.gen
      BY <2>1, <2>2, <2>6, <3>1
    <3>2. ASSUME NEW j \in Ids, mem[j].gen = k, Terminal(mem[j])
          PROVE mem'[helper[k].id].gen = k /\ Terminal(mem'[helper[k].id])
      <4>1. helper[k].id = j /\ k \in Gens
        BY <3>2, WorkTrue
      <4>2. j # i
        BY <2>2, <3>2 DEF Live
      <4> QED BY <2>6, <3>2, <4>1, <4>2
    <3> QED BY <3>1, <3>2
  <2> HIDE DEF work
  <2> QED BY <2>3, <2>4, <2>7 DEF CleanTrue
<1>3. CASE CleanRelease
  <2>1. watch'.todo = watch.todo \ {watch.gen} /\ reserved' = reserved \ {watch.gen} /\ watch.step = "release"
    BY <1>0, <1>3 DEF CleanRelease, Watch
  <2> QED BY <2>1, CleanStays
<1>4. CASE \E g \in Gens : CleanTeardown(g)
  <2>1. watch'.todo = watch.todo /\ reserved' = reserved /\ watch.step = "clean"
    BY <1>0, <1>4 DEF CleanTeardown, Watch
  <2> QED BY <2>1, CleanStays
<1>5. CASE UNCHANGED <<watch, reserved>>
  BY <1>5, CleanStays
<1>6. CASE CleanDone \/ PollCopy \/ PollList \/ DiskDone \/ TimeDone \/ PollDone
  <2>1. watch'.step \notin {"clean", "release"}
    <3>1. CASE CleanDone
      BY <1>0, <3>1 DEF CleanDone, Watch
    <3>2. CASE PollCopy
      BY <1>0, <3>2 DEF PollCopy, Watch, AtRest
    <3>3. CASE PollList
      <4>1. CASE watch' = AtRest
        BY <4>1 DEF AtRest
      <4>2. CASE watch' # AtRest
        <5>1. PICK S, T : watch' = [watch EXCEPT !.step = "disk", !.seen = S, !.todo = T]
          BY <3>3, <4>2 DEF PollList
        <5>2. watch'.step = "disk"
          BY <1>0, <5>1 DEF Watch
        <5> QED BY <5>2
      <4> QED BY <4>1, <4>2
    <3>4. CASE DiskDone
      <4>1. PICK T : watch' = [watch EXCEPT !.step = "time", !.todo = T]
        BY <3>4 DEF DiskDone
      <4>2. watch'.step = "time"
        BY <1>0, <4>1 DEF Watch
      <4> QED BY <4>2
    <3>5. CASE TimeDone \/ PollDone
      BY <1>0, <3>5 DEF TimeDone, PollDone, Watch, AtRest
    <3> QED BY <1>6, <3>1, <3>2, <3>3, <3>4, <3>5
  <2> QED BY <2>1 DEF CleanTrue
<1>7. ASSUME NEW g \in Gens, CheckDiskFull(g) \/ CheckTimeLimit(g) \/ Observe(g) \/ Judge(g)
      PROVE CleanTrue'
  <2>1. watch'.step \notin {"clean", "release"}
    <3>1. CASE CheckDiskFull(g) \/ CheckTimeLimit(g)
      BY <1>0, <3>1 DEF CheckDiskFull, CheckTimeLimit, Watch
    <3>2. CASE watch.step = "judge" /\ watch' = [watch EXCEPT !.live = @ \ {g}]
      BY <1>0, <3>2 DEF Watch
    <3>3. CASE watch' = [watch EXCEPT !.step = "finish", !.gen = g, !.end = EndFromStatus(helper[g].status)]
      <4>1. watch'.step = "finish"
        BY <1>0, <3>3 DEF Watch
      <4> QED BY <4>1
    <3> QED BY <1>7, <3>1, <3>2, <3>3 DEF Observe, Judge
  <2> QED BY <2>1 DEF CleanTrue
<1>8. CASE Crash
  BY <1>8 DEF Crash, CleanTrue, AtRest
<1> QED BY <1>1, <1>2, <1>3, <1>4, <1>5, <1>6, <1>7, <1>8 DEF Next, Watcher, vars, StartRequest, StartAdmit,
        Stop, Remove, StartSpawn, StartRecord, Drain, Booting, Restart, ReconcileList, Serve, ReconcileLost,
        Reap, ReapEnd, HelperBoot, HelperEnd, HelperGone, Age, HelperRest, HostSpace

LEMMA ReapStep ==
    ASSUME HelperInv, AloneInv, ReapAlone, [Next]_vars
    PROVE  ReapAlone'
<1>0. TypeOK /\ FoundTrue /\ StartHeld
  BY DEF HelperInv
<1>1. CASE found' = Nothing
  BY <1>1 DEF ReapAlone, Nothing
<1>2. CASE StartSpawn
  BY <1>0, <1>1, <1>2 DEF StartSpawn, StartHeld, FoundTrue
<1>3. CASE ~StartSpawn /\ found'.orphans \cup found'.reaping \subseteq found.orphans \cup found.reaping
  <2>1. \A g \in Gens : helper'[g].id = helper[g].id /\ (Present(g)' => Present(g))
    BY <1>3, OthersLeave DEF HelpersOnlyLeave
  <2>2. found.orphans \cup found.reaping \subseteq Gens
    BY <1>0 DEF TypeOK
  <2> QED BY <1>3, <2>1, <2>2 DEF ReapAlone
<1>4. CASE ReconcileList
  <2>1. CASE found' = Findings
    <3>1. UNCHANGED helper
      BY <1>4 DEF ReconcileList
    <3>2. \A g \in Findings.orphans : g \in Gens /\ Present(g)
      BY DEF Findings, Shown
    <3>3. Findings.reaping = {}
      BY DEF Findings
    <3> QED BY <2>1, <3>1, <3>2, <3>3 DEF ReapAlone, AloneInv, OneHelperPerAttempt, Present
  <2>2. CASE found' = found
    BY <1>3, <1>4, <2>2 DEF ReconcileList, StartSpawn, StartHeld, HelperInv
  <2> QED BY <1>4, <2>1, <2>2 DEF ReconcileList
<1>5. ASSUME NEW g \in Gens, ReconcileLost(g) \/ Reap(g) \/ ReapEnd(g) PROVE ReapAlone'
  <2>1. mode = "reconcile" /\ ~StartSpawn
    BY <1>0, <1>5 DEF ReconcileLost, Reap, ReapEnd, StartSpawn, StartHeld
  <2>2. found'.orphans \cup found'.reaping \subseteq found.orphans \cup found.reaping
    <3>1. found \in [lost : SUBSET Gens, orphans : SUBSET Gens, reaping : SUBSET Gens]
      BY <1>0 DEF TypeOK
    <3>2. CASE ReconcileLost(g)
      BY <3>1, <3>2 DEF ReconcileLost
    <3>3. CASE Reap(g)
      BY <3>1, <3>3 DEF Reap
    <3>4. CASE ReapEnd(g)
      BY <3>1, <3>4 DEF ReapEnd
    <3> QED BY <1>5, <3>2, <3>3, <3>4
  <2> QED BY <1>3, <2>1, <2>2
<1>6. CASE UNCHANGED found
  BY <1>2, <1>3, <1>6
<1>7. CASE Crash
  BY <1>1, <1>7 DEF Crash
<1> QED BY <1>4, <1>5, <1>6, <1>7 DEF Next, Watcher, vars, StartRequest, StartAdmit, Stop, Remove, StartSpawn,
        StartRecord, Drain, Tick, CleanRelease, CleanDone, PollCopy, PollList, DiskDone, TimeDone, Finish,
        PollDone, CleanTeardown, CheckDiskFull, CheckTimeLimit, Observe, Judge, Booting, Restart, Serve,
        HelperBoot, HelperEnd, HelperGone, Age, HelperRest, HostSpace

LEMMA TeardownInit == Init => TeardownInv
BY DEF Init, TeardownInv, CleanTrue, ReapAlone, AtRest, Nothing

\* A helper of an ended attempt's entry may not run.
LEMMA EndedAlone ==
    ASSUME HelperInv, AloneInv, NEW g \in Gens, mem[helper[g].id].gen = g, ~Present(g),
           mem[helper[g].id] # NoEntry, NEW k \in Gens, helper[k].id = helper[g].id
    PROVE  ~Present(k)
BY DEF AloneInv, EntryOwns

LEMMA VMStep ==
    ASSUME HelperInv, AloneInv, TeardownInv, [Next]_vars, NEW i \in vm \ vm', NEW k \in Gens, helper[k].id = i
    PROVE  helper'[k].st \notin {"alive", "term"}
<1>0. TypeOK /\ FoundTrue /\ StartHeld /\ TablesTrue
  BY DEF HelperInv
<1>a. ASSUME UNCHANGED helper, ~Present(k) PROVE helper'[k].st \notin {"alive", "term"}
  BY <1>a DEF Present
<1>1. CASE StartSpawn
  <2>1. UNCHANGED helper /\ i = starting.id /\ starting.step = "spawn"
    BY <1>1 DEF StartSpawn, Closed
  <2>2. ~Present(k)
    BY <2>1 DEF AloneInv, StartAlone
  <2> QED BY <1>a, <2>1, <2>2
<1>2. ASSUME NEW g \in Gens, CleanTeardown(g) PROVE helper'[k].st \notin {"alive", "term"}
  <2>1. UNCHANGED helper /\ i = helper[g].id /\ watch.step = "clean" /\ g \in watch.todo /\ i \in Ids
    BY <1>0, <1>2 DEF CleanTeardown, Closed, TypeOK
  <2>2. mem[i].gen = g /\ Terminal(mem[i])
    BY <2>1 DEF TeardownInv, CleanTrue
  <2>3. ~Present(g) /\ mem[i] # NoEntry
    BY <1>0, <2>1, <2>2 DEF TablesTrue, EndsTrue, NoEntry, Terminal, Ended
  <2> QED BY <1>a, <2>1, <2>2, <2>3, EndedAlone
<1>3. ASSUME NEW g \in Gens, ReconcileLost(g) PROVE helper'[k].st \notin {"alive", "term"}
  <2>1. UNCHANGED helper /\ g \in found.lost /\ (i = helper[g].id \/ (i \in Ids /\ Terminal(mem[i])))
    BY <1>3 DEF ReconcileLost, Closed
  <2>2. CASE i = helper[g].id
    <3>1. mem[i].gen = g /\ ~Present(g) /\ mem[i] # NoEntry
      BY <1>0, <2>1, <2>2 DEF FoundTrue, Claimed, Live, NoEntry
    <3> QED BY <1>a, <2>1, <2>2, <3>1, EndedAlone
  <2>3. CASE i \in Ids /\ Terminal(mem[i])
    <3>1. mem[i] # NoEntry /\ ~Present(mem[i].gen)
      BY <1>0, <2>3 DEF TablesTrue, EndsTrue, NoEntry, Terminal, Ended
    <3>2. ~Present(k)
      BY <3>1 DEF AloneInv, EntryOwns
    <3> QED BY <1>a, <2>1, <3>2
  <2> QED BY <2>1, <2>2, <2>3
<1>4. ASSUME NEW g \in Gens, ReapEnd(g) PROVE helper'[k].st \notin {"alive", "term"}
  <2>1. g \in found.reaping /\ i = helper[g].id /\ Signal(g, "killed")
    BY <1>4 DEF ReapEnd, Closed
  <2>2. CASE k = g
    BY <1>0, <2>1, <2>2 DEF Signal, TypeOK
  <2>3. CASE k # g
    <3>1. ~Present(k)
      BY <2>1, <2>3 DEF TeardownInv, ReapAlone
    <3>2. helper'[k] = helper[k]
      BY <1>0, <2>1, <2>3 DEF Signal, TypeOK
    <3> QED BY <3>1, <3>2 DEF Present
  <2> QED BY <2>2, <2>3
<1>5. CASE \E j \in Ids : StartAdmit(j)
  BY <1>5 DEF StartAdmit
<1>6. vm' # vm
  OBVIOUS
<1> QED BY <1>1, <1>2, <1>3, <1>4, <1>5, <1>6 DEF Next, Watcher, vars, StartRequest, Stop, Remove,
        StartRecord, Drain, Tick, CleanRelease, CleanDone, PollCopy, PollList, DiskDone, TimeDone, Finish,
        PollDone, CheckDiskFull, CheckTimeLimit, Observe, Judge, Booting, Restart, ReconcileList, Reap, Serve,
        Crash, HelperBoot, HelperEnd, HelperGone, Age, HelperRest, HostSpace

\* An attempt's VM object is torn down only when no helper of that attempt can still be using it,
\* although the cleanup tears it down by id and without the lock, as long as the table's saves succeed.
THEOREM VMsOutliveHelpers == "save" \notin Faults /\ Spec => VMOutlivesHelper
<1> SUFFICES ASSUME "save" \notin Faults PROVE Spec => VMOutlivesHelper
  OBVIOUS
<1>1. HelperInv /\ EndsInv /\ AloneInv /\ TeardownInv /\ [Next]_vars => EndsInv' /\ AloneInv' /\ TeardownInv'
  BY EndsStep, AloneStep, CleanStep, ReapStep DEF TeardownInv
<1>2. HelperInv /\ AloneInv /\ TeardownInv /\ [Next]_vars =>
        [\A i \in vm \ vm' : \A g \in Gens :
            helper[g].id = i => helper'[g].st \notin {"alive", "term"}]_vars
  BY VMStep
<1> QED BY <1>1, <1>2, EndsInit, AloneInit, TeardownInit, HelpersTrue, PTL DEF Spec, VMOutlivesHelper
=============================================================================

---------------------------- MODULE OwnerProofs -----------------------------
(* Proofs about the owner's operations on the host. The four parts share no variable, so *)
(* each has an inductive invariant of its own, which every step of the composition keeps: *)
(* its own steps by the part's lemmas, the others by leaving it alone.                    *)
EXTENDS MCOwner, SequenceTheorems, TLAPS

(******************************* the service's upgrade *******************************)
\* Nothing in a history was admitted by the target build.
NoNew(h) == \A i \in DOMAIN h : h[i] # "new"

OpRecs == [kind : {"none", "apply", "rollback"}, archive : 0 .. MaxApplies, step : Steps, to : Phases,
           fenced : BOOLEAN, same : BOOLEAN, seen : Seq(Builds)]
UpVarsOK ==
    /\ bin \in [{"pomar", "host"} -> Builds] /\ rec \in Records /\ manager \in Builds \cup {"none"}
    /\ open \in BOOLEAN /\ loaded \in BOOLEAN /\ draining \in BOOLEAN /\ live \in BOOLEAN
    /\ history \in Seq(Builds) /\ journal \in [Archives -> [phase : Phases, history : Seq(Builds)]]
    /\ op \in OpRecs

AllBuild(b) == bin["pomar"] = b /\ bin["host"] = b
Marked == \E a \in Archives : journal[a].phase \notin {"none", "fencing", "stopping", "rolled-back"}

\* The host: without the job nothing runs, is served or was done by the target, and an open
\* directory is beside files of one build.
HostTrue ==
    /\ ~loaded => (~Running /\ ~open /\ ~live /\ NoNew(history))
    /\ draining => Running
    /\ Running => manager = bin["pomar"]
    /\ open => /\ bin["pomar"] = bin["host"] /\ rec # invalidatedRecord
               /\ (rec = beforeRecord <=> bin["pomar"] = "old")
    /\ rec = beforeRecord => AllBuild("old")
    /\ NoNew(history) \/ AllBuild("new")
    /\ BaselineInstalled \/ Marked
    /\ \A a \in Archives : NoNew(journal[a].history)

\* The operation: which steps and phases each kind has, and what they have left.
StepsTrue ==
    /\ op.kind = "none" <=> op.step = "idle"
    /\ op.kind # "none" => op.archive \in Archives
    /\ NoNew(op.seen)
    /\ op.kind = "apply" => op.step # "restore"
    /\ op.kind = "rollback" => op.step \notin {"inspect", "inspected", "archive", "reobserve", "reobserved", "pending"}
    /\ op.step = "save" => IF op.kind = "apply" THEN op.to \in DOMAIN After ELSE op.to \in {"rolling-back", "rolled-back"}

\* An apply has changed no file before "pending", and from there its journal says so; a
\* rollback has restored what is behind it.
FilesTrue ==
    /\ op.kind = "apply" =>
         /\ op.step \in {"inspect", "inspected", "archive", "fence", "reobserve", "reobserved", "stop", "drained",
                         "close", "recheck", "bootout", "absent", "pending"} => BaselineInstalled
         /\ op.step = "save" /\ op.to \in {"fencing", "stopping", "installing"} => BaselineInstalled
         /\ op.step \in {"absent", "pending", "pomar", "host", "record"} => journal[op.archive].phase = "installing"
         /\ op.step \in {"pomar", "host", "record"} => rec # beforeRecord
    /\ op.kind = "rollback" =>
         /\ op.step # "save" => journal[op.archive].phase = "rolling-back"
         /\ op.step \in {"host", "record"} => bin["pomar"] = "old"
         /\ op.step = "record" => bin["host"] = "old"
         /\ op.step \in {"start", "redrain", "verify", "readback", "confirm", "open", "lift"} => BaselineInstalled
         /\ op.step = "save" /\ op.to = "rolled-back" => BaselineInstalled

\* The stop of the service: what was observed still holds while the process is the same.
StopTrue ==
    /\ op.step = "close" /\ op.same => draining /\ ~live
    /\ op.step = "recheck" => ~open /\ (op.same => draining /\ ~live)
    /\ op.step = "bootout" => ~open /\ ~live
    /\ op.step \in {"pending", "pomar", "host", "record"} => ~loaded
    /\ op.kind = "rollback" =>
         /\ op.step \in {"stop", "drained", "close", "recheck"} /\ op.same /\ draining => history = journal[op.archive].history
         /\ op.step = "bootout" => history = journal[op.archive].history

UpInv == UpVarsOK /\ HostTrue /\ StepsTrue /\ FilesTrue /\ StopTrue

hostVars == <<bin, rec, open, loaded, manager, draining, history, live, journal>>

LEMMA IdleIsOp == Idle \in OpRecs /\ NoNew(Idle.seen)
<1>1. <<>> \in Seq(Builds) /\ DOMAIN <<>> = {}
  OBVIOUS
<1>2. Idle \in OpRecs
  BY <1>1, UpgradeAssumption DEF Idle, OpRecs, Steps, Phases
<1> QED BY <1>1, <1>2 DEF Idle, NoNew

\* An operation that ends says nothing any more.
LEMMA EndsTrue ==
    ASSUME op' = Idle
    PROVE  op' \in OpRecs /\ StepsTrue' /\ FilesTrue' /\ StopTrue'
<1>1. op' \in OpRecs /\ NoNew(op'.seen) /\ op'.kind = "none" /\ op'.step = "idle"
  BY IdleIsOp DEF Idle
<1>2. StepsTrue'
  BY <1>1 DEF StepsTrue, NoNew
<1>3. FilesTrue' /\ StopTrue'
  BY <1>1 DEF FilesTrue, StopTrue
<1> QED BY <1>1, <1>2, <1>3

\* The host is true as long as it is left alone.
LEMMA HostKept ==
    ASSUME UpInv, UNCHANGED hostVars
    PROVE  HostTrue'
  BY DEF UpInv, HostTrue, hostVars, Running, NoNew, AllBuild, BaselineInstalled, Marked

LEMMA StoppedKeeps ==
    ASSUME UpInv, Stopped
    PROVE  UpInv'
<1>1. UNCHANGED hostVars /\ op' = Idle
  BY DEF Stopped, hostVars, files, service, work
<1>2. HostTrue'
  BY <1>1, HostKept
<1>3. UpVarsOK'
  BY <1>1, EndsTrue DEF UpInv, UpVarsOK, hostVars
<1> QED BY <1>1, <1>2, <1>3, EndsTrue DEF UpInv

\* A step that only moves the operation on.
LEMMA GotoIs ==
    ASSUME UpInv, NEW s \in Steps, Goto(s)
    PROVE  /\ op' \in OpRecs /\ op'.step = s
           /\ op'.kind = op.kind /\ op'.archive = op.archive /\ op'.to = op.to
           /\ op'.same = op.same /\ op'.seen = op.seen
  BY DEF UpInv, UpVarsOK, OpRecs, Goto

LEMMA ThenIs ==
    ASSUME UpInv, NEW p \in Phases, Then(p)
    PROVE  /\ op' \in OpRecs /\ op'.step = "save" /\ op'.to = p
           /\ op'.kind = op.kind /\ op'.archive = op.archive
           /\ op'.same = op.same /\ op'.seen = op.seen
  BY DEF UpInv, UpVarsOK, OpRecs, Then, Steps

LEMMA InspectKeeps ==
    ASSUME UpInv, Inspect PROVE UpInv'
<1>1. CASE Stopped
  BY <1>1, StoppedKeeps
<1>2. CASE ~Stopped
  <2>1. op' = [op EXCEPT !.step = "inspected", !.same = TRUE, !.seen = history] /\ UNCHANGED hostVars /\ op.step = "inspect"
    BY <1>2 DEF Inspect, ObserveBegin, At, hostVars, files, service, work
  <2>2. /\ op' \in OpRecs /\ op'.step = "inspected" /\ op'.kind = op.kind /\ op'.archive = op.archive /\ op'.seen = history
    BY <2>1 DEF UpInv, UpVarsOK, OpRecs, Steps
  <2>3. op.kind = "apply"
    BY <2>1 DEF UpInv, UpVarsOK, OpRecs, StepsTrue
  <2>4. NoNew(history)
    BY <2>1, <2>3 DEF UpInv, FilesTrue, HostTrue, BaselineInstalled, AllBuild, UpVarsOK
  <2>5. UpVarsOK'
    BY <2>1, <2>2 DEF UpInv, UpVarsOK, hostVars
  <2>6. HostTrue'
    BY <2>1, HostKept
  <2>7. StepsTrue'
    BY <2>1, <2>2, <2>3, <2>4 DEF UpInv, StepsTrue, NoNew
  <2>8. FilesTrue'
    BY <2>1, <2>2, <2>3 DEF UpInv, FilesTrue, hostVars, BaselineInstalled
  <2>9. StopTrue'
    BY <2>1, <2>2, <2>3 DEF UpInv, StopTrue
  <2> QED BY <2>5, <2>6, <2>7, <2>8, <2>9 DEF UpInv
<1> QED BY <1>1, <1>2

\* The operation goes on to another step, its kind, archive and observation as they were.
Onward ==
    /\ op' \in OpRecs /\ op'.kind = op.kind /\ op'.archive = op.archive
    /\ op'.seen = op.seen /\ op'.same = op.same

LEMMA GotoOnward ==
    ASSUME UpInv, NEW s \in Steps, Goto(s)
    PROVE  Onward /\ op'.step = s /\ op'.to = op.to
  BY GotoIs DEF Onward

LEMMA ThenOnward ==
    ASSUME UpInv, NEW p \in Phases, Then(p)
    PROVE  Onward /\ op'.step = "save" /\ op'.to = p
  BY ThenIs DEF Onward

LEMMA KindIs ==
    ASSUME UpInv
    PROVE  /\ op.kind \in {"none", "apply", "rollback"} /\ op.step \in Steps
           /\ (op.step \in {"inspect", "inspected", "archive", "reobserve", "reobserved", "pending"} => op.kind = "apply")
           /\ (op.step = "restore" => op.kind = "rollback")
  BY DEF UpInv, UpVarsOK, OpRecs, StepsTrue

LEMMA CheckIs ==
    ASSUME UpInv, NEW ok \in BOOLEAN, NEW s \in Steps, Check(ok, s)
    PROVE  UpInv' \/ (ok /\ UNCHANGED hostVars /\ Onward /\ op'.step = s /\ op'.to = op.to)
<1>1. CASE Stopped
  BY <1>1, StoppedKeeps
<1>2. CASE ~Stopped
  <2>1. ok /\ Goto(s) /\ UNCHANGED hostVars
    BY <1>2 DEF Check, hostVars, files, service, work
  <2> QED BY <2>1, GotoOnward
<1> QED BY <1>1, <1>2

LEMMA OnwardKeeps ==
    ASSUME UpInv, UNCHANGED hostVars, Onward, StepsTrue', FilesTrue', StopTrue'
    PROVE  UpInv'
<1>1. UpVarsOK'
  BY DEF UpInv, UpVarsOK, hostVars, Onward
<1> QED BY <1>1, HostKept DEF UpInv

\* What a phase that was saved is followed by.
LEMMA AfterIs ==
    /\ DOMAIN After = {"fencing", "stopping", "installing", "starting", "verifying", "opening", "complete"}
    /\ After["fencing"] = "fence" /\ After["stopping"] = "reobserve" /\ After["installing"] = "absent"
    /\ After["starting"] = "start" /\ After["verifying"] = "verify" /\ After["opening"] = "open"
    /\ After["complete"] = "idle"
    /\ AfterRollback["rolling-back"] = "fence" /\ AfterRollback["rolled-back"] = "idle"
  BY DEF After, AfterRollback

LEMMA ChecksKeep ==
    ASSUME UpInv, Inspected \/ Reobserve \/ Reobserved \/ StopProcess \/ StopDrained \/ Recheck \/ Absent \/ Open
    PROVE  UpInv'
<1> USE DEF UpInv, StepsTrue, FilesTrue, StopTrue, HostTrue, Onward, hostVars, BaselineInstalled, NoNew, Steps, At
<1>0. UpVarsOK
  OBVIOUS
<1>1. CASE Inspected
  BY <1>1, CheckIs, OnwardKeeps DEF Inspected, Observed, process, noWriters, Running
<1>2. CASE Reobserve
  BY <1>2, CheckIs, OnwardKeeps DEF Reobserve, process, Running
<1>3. CASE Reobserved
  BY <1>3, CheckIs, OnwardKeeps DEF Reobserved, Observed, process, noWriters, Running
<1>4. CASE StopProcess
  BY <1>4, CheckIs, OnwardKeeps DEF StopProcess, Observed, process, noWriters, Running
<1>5. CASE StopDrained
  BY <1>5, CheckIs, OnwardKeeps DEF StopDrained, idleDrain, Running
<1>6. CASE Recheck
  BY <1>6, CheckIs, OnwardKeeps DEF Recheck, process, Running
<1>7. CASE Absent
  <2>1. PICK ok \in BOOLEAN : ok = (absent /\ retainedCheck /\ (op.kind = "apply" => rec = beforeRecord))
    OBVIOUS
  <2>2. PICK s \in {"pending", "pomar"} : s = IF op.kind = "apply" THEN "pending" ELSE "pomar"
    OBVIOUS
  <2>3. Check(ok, s) /\ op.step = "absent"
    BY <1>7, <2>1, <2>2 DEF Absent
  <2>4. UpInv' \/ (ok /\ UNCHANGED hostVars /\ Onward /\ op'.step = s)
    BY <2>2, <2>3, CheckIs
  <2>5. CASE ok /\ UNCHANGED hostVars /\ Onward /\ op'.step = s
    <3>1. ~loaded /\ op.kind # "none" /\ (op.kind = "apply" => rec = beforeRecord)
      BY <2>1, <2>3, <2>5 DEF absent
    <3>2. StepsTrue'
      BY <2>2, <2>3, <2>5, <3>1
    <3>3. FilesTrue'
      BY <2>2, <2>3, <2>5, <3>1
    <3>4. StopTrue'
      BY <2>2, <2>3, <2>5, <3>1
    <3> QED BY <2>5, <3>2, <3>3, <3>4, OnwardKeeps
  <2> QED BY <2>4, <2>5
<1>8. CASE Open
  BY <1>8, CheckIs, OnwardKeeps DEF Open, retainedCheck, idleDrain, Running
<1> QED BY <1>1, <1>2, <1>3, <1>4, <1>5, <1>6, <1>7, <1>8

LEMMA ArchiveKeeps ==
    ASSUME UpInv, Archive PROVE UpInv'
<1>1. CASE Stopped
  BY <1>1, StoppedKeeps
<1>2. CASE ~Stopped
  <2>1. op.step = "archive" /\ Then("fencing") /\ UNCHANGED hostVars
    BY <1>2 DEF Archive, At, hostVars, files, service, work
  <2>2. Onward /\ op'.step = "save" /\ op'.to = "fencing"
    BY <2>1, ThenOnward DEF Phases
  <2> QED BY <2>1, <2>2, OnwardKeeps, AfterIs, KindIs
          DEF UpInv, StepsTrue, FilesTrue, StopTrue, Onward, hostVars, BaselineInstalled, NoNew
<1> QED BY <1>1, <1>2


LEMMA SaveKeeps ==
    ASSUME UpInv, Save PROVE UpInv'
<1>1. /\ op.step = "save" /\ op.kind \in {"apply", "rollback"} /\ op.archive \in Archives /\ op \in OpRecs
      /\ op.to \in DOMAIN After \cup {"rolling-back", "rolled-back"} /\ NoNew(op.seen) /\ op.seen \in Seq(Builds)
      /\ (op.kind = "apply" <=> op.to \in DOMAIN After) /\ op.to \in Phases
  BY KindIs, AfterIs DEF UpInv, UpVarsOK, StepsTrue, Save, At, OpRecs
<1>2. PICK h : h = IF journal[op.archive].phase = "none" THEN op.seen ELSE journal[op.archive].history
  OBVIOUS
<1>3. h \in Seq(Builds) /\ NoNew(h)
  BY <1>1, <1>2 DEF UpInv, UpVarsOK, HostTrue
<1>4. PICK j : j = [phase |-> op.to, history |-> h]
  OBVIOUS
<1>5. journal' = [journal EXCEPT ![op.archive] = j]
  BY <1>1, <1>2, <1>4 DEF Save, UpInv, UpVarsOK
<1>6. /\ j \in [phase : Phases, history : Seq(Builds)] /\ j.phase = op.to /\ j.history = h
  BY <1>1, <1>3, <1>4
<1>7. /\ journal' \in [Archives -> [phase : Phases, history : Seq(Builds)]]
      /\ journal'[op.archive].phase = op.to
      /\ \A a \in Archives : journal'[a] = journal[a] \/ (a = op.archive /\ journal'[a] = j)
  BY <1>1, <1>5, <1>6 DEF UpInv, UpVarsOK
<1>8. UNCHANGED <<bin, rec, open, loaded, manager, draining, history, live>>
  BY DEF Save, files, service, work
<1>9. HostTrue'
  <2>1. \A a \in Archives : NoNew(journal'[a].history)
    BY <1>3, <1>6, <1>7 DEF UpInv, HostTrue
  <2>2. BaselineInstalled \/ Marked'
    <3>1. CASE op.to \in {"none", "fencing", "stopping", "rolled-back"}
      BY <1>1, <3>1, AfterIs DEF UpInv, FilesTrue
    <3>2. CASE op.to \notin {"none", "fencing", "stopping", "rolled-back"}
      BY <1>1, <1>7, <3>2 DEF Marked
    <3> QED BY <3>1, <3>2
  <2> QED BY <1>8, <2>1, <2>2 DEF UpInv, HostTrue, Running, NoNew, AllBuild, BaselineInstalled
<1>10. CASE op' = Idle
  BY <1>7, <1>8, <1>9, <1>10, EndsTrue DEF UpInv, UpVarsOK
<1>11. CASE op' # Idle
  <2>1. PICK s : s = IF op.kind = "apply" THEN After[op.to] ELSE AfterRollback[op.to]
    OBVIOUS
  <2>2. op' = [op EXCEPT !.step = s] /\ s # "idle"
    BY <2>1, <1>11 DEF Save
  <2>3. /\ op.kind = "apply" => s \in {"fence", "reobserve", "absent", "start", "verify", "open"}
        /\ s \in {"fence", "reobserve"} /\ op.kind = "apply" => op.to \in {"fencing", "stopping"}
        /\ s = "absent" => op.to = "installing"
        /\ op.kind = "rollback" => s = "fence" /\ op.to = "rolling-back"
    BY <1>1, <2>1, <2>2, AfterIs
  <2>4. Onward /\ op'.step = s /\ op'.to = op.to
    BY <1>1, <2>2, <2>3, GotoOnward DEF Goto, Steps
  <2>5. StepsTrue'
    BY <1>1, <2>3, <2>4 DEF UpInv, StepsTrue, Onward, NoNew
  <2>6. FilesTrue'
    BY <1>1, <1>7, <1>8, <2>3, <2>4 DEF UpInv, FilesTrue, Onward, BaselineInstalled
  <2>7. StopTrue'
    BY <1>1, <2>3, <2>4 DEF StopTrue, Onward
  <2> QED BY <1>7, <1>8, <1>9, <2>4, <2>5, <2>6, <2>7 DEF UpInv, UpVarsOK, Onward
<1> QED BY <1>10, <1>11

LEMMA FenceKeeps ==
    ASSUME UpInv, Fence PROVE UpInv'
<1>1. CASE Stopped
  BY <1>1, StoppedKeeps
<1>2. CASE ~Stopped
  <2>1. /\ op.step = "fence" /\ op.kind \in {"apply", "rollback"}
        /\ draining' \in BOOLEAN /\ open' \in {open, FALSE}
        /\ UNCHANGED <<bin, rec, loaded, manager, history, live, journal>>
    BY <1>2, KindIs DEF Fence, At, files, service, work, UpInv, UpVarsOK, StepsTrue
  <2>2. HostTrue'
    <3>1. (open' => open) /\ (draining' => Running)
      BY <1>2, <2>1 DEF Fence, UpInv, HostTrue
    <3> QED BY <2>1, <3>1 DEF UpInv, HostTrue, Running, NoNew, AllBuild, BaselineInstalled, Marked
  <2>3. op' \in OpRecs => UpVarsOK'
    BY <2>1 DEF UpInv, UpVarsOK
  <2>4. CASE op' = Idle
    BY <2>2, <2>3, <2>4, EndsTrue DEF UpInv
  <2>5. CASE op' # Idle
    <3>1. \/ op' = [op EXCEPT !.fenced = TRUE, !.step = "save", !.to = "stopping"] /\ op.kind = "apply"
          \/ op' = [op EXCEPT !.fenced = TRUE, !.step = "restore"] /\ op.kind = "rollback"
          \/ op' = [op EXCEPT !.step = "restore"] /\ op.kind = "rollback"
      BY <1>2, <2>1, <2>5 DEF Fence, Goto
    <3>2. Onward /\ (op.kind = "apply" => op'.step = "save" /\ op'.to = "stopping") /\ (op.kind = "rollback" => op'.step = "restore")
      BY <3>1 DEF Onward, UpInv, UpVarsOK, OpRecs, Steps, Phases
    <3>3. StepsTrue'
      BY <2>1, <3>2, AfterIs DEF UpInv, StepsTrue, Onward, NoNew
    <3>4. FilesTrue'
      BY <2>1, <3>2 DEF UpInv, FilesTrue, Onward, BaselineInstalled
    <3>5. StopTrue'
      BY <2>1, <3>2 DEF StopTrue, Onward
    <3> QED BY <2>2, <2>3, <3>2, <3>3, <3>4, <3>5 DEF UpInv, Onward
  <2> QED BY <2>4, <2>5
<1> QED BY <1>1, <1>2

LEMMA RestoreKeeps ==
    ASSUME UpInv, Restore PROVE UpInv'
<1>1. CASE Stopped
  BY <1>1, StoppedKeeps
<1>2. CASE ~Stopped
  <2>1. op.step = "restore" /\ op.kind = "rollback" /\ UNCHANGED hostVars
    BY <1>2, KindIs DEF Restore, At, Check, hostVars, files, service, work
  <2>2. \/ op' = [op EXCEPT !.step = "stop", !.same = TRUE] /\ history = journal[op.archive].history
        \/ Goto("absent")
    BY <1>2 DEF Restore, Check
  <2>3. CASE op' = [op EXCEPT !.step = "stop", !.same = TRUE] /\ history = journal[op.archive].history
    <3>1. /\ op' \in OpRecs /\ op'.step = "stop" /\ op'.kind = op.kind /\ op'.archive = op.archive /\ op'.seen = op.seen
      BY <2>3 DEF UpInv, UpVarsOK, OpRecs, Steps
    <3>2. StepsTrue' /\ FilesTrue' /\ StopTrue'
      BY <2>1, <2>3, <3>1 DEF UpInv, StepsTrue, FilesTrue, StopTrue, NoNew, hostVars, BaselineInstalled
    <3> QED BY <2>1, <3>1, <3>2, HostKept DEF UpInv, UpVarsOK, hostVars
  <2>4. CASE Goto("absent")
    <3>1. Onward /\ op'.step = "absent"
      BY <2>4, GotoOnward DEF Steps
    <3>2. StepsTrue' /\ FilesTrue' /\ StopTrue'
      BY <2>1, <3>1 DEF UpInv, StepsTrue, FilesTrue, StopTrue, NoNew, hostVars, BaselineInstalled, Onward
    <3> QED BY <2>1, <3>1, <3>2, OnwardKeeps
  <2> QED BY <2>2, <2>3, <2>4
<1> QED BY <1>1, <1>2

LEMMA CloseKeeps ==
    ASSUME UpInv, closeControl PROVE UpInv'
<1>1. op.step = "close" /\ Goto("recheck") /\ open' = FALSE /\ UNCHANGED <<bin, rec, loaded, manager, draining, history, live, journal>>
  BY DEF closeControl, At, files, work
<1>2. Onward /\ op'.step = "recheck"
  BY <1>1, GotoOnward DEF Steps
<1>3. StepsTrue' /\ FilesTrue' /\ StopTrue'
  BY <1>1, <1>2, KindIs DEF UpInv, StepsTrue, FilesTrue, StopTrue, NoNew, BaselineInstalled, Onward
<1>4. HostTrue'
  BY <1>1 DEF UpInv, HostTrue, Running, NoNew, AllBuild, BaselineInstalled, Marked
<1> QED BY <1>1, <1>2, <1>3, <1>4 DEF UpInv, UpVarsOK, Onward

LEMMA BootoutKeeps ==
    ASSUME UpInv, Bootout PROVE UpInv'
<1>1. /\ op.step = "bootout" /\ loaded' = FALSE /\ manager' = "none" /\ draining' = FALSE
      /\ UNCHANGED <<bin, rec, open, history, live, journal>>
  BY DEF Bootout, At, files, work
<1>2. op.kind \in {"apply", "rollback"} /\ op.archive \in Archives /\ ~open /\ ~live
  BY <1>1, KindIs DEF UpInv, StepsTrue, StopTrue
<1>3. NoNew(history)
  <2>1. CASE op.kind = "apply"
    BY <1>1, <2>1 DEF UpInv, FilesTrue, HostTrue, AllBuild, BaselineInstalled, UpVarsOK
  <2>2. CASE op.kind = "rollback"
    BY <1>1, <1>2, <2>2 DEF UpInv, StopTrue, HostTrue
  <2> QED BY <1>2, <2>1, <2>2
<1>4. Onward /\ (op.kind = "apply" => op'.step = "save" /\ op'.to = "installing") /\ (op.kind = "rollback" => op'.step = "absent")
  BY <1>2, GotoOnward, ThenOnward DEF Bootout, Steps, Phases
<1>5. HostTrue'
  BY <1>1, <1>2, <1>3 DEF UpInv, HostTrue, Running, NoNew, AllBuild, BaselineInstalled, Marked
<1>6. StepsTrue' /\ FilesTrue' /\ StopTrue'
  BY <1>1, <1>2, <1>4, AfterIs DEF UpInv, StepsTrue, FilesTrue, StopTrue, NoNew, BaselineInstalled, Onward
<1> QED BY <1>1, <1>4, <1>5, <1>6 DEF UpInv, UpVarsOK, Onward

LEMMA PendingKeeps ==
    ASSUME UpInv, Pending PROVE UpInv'
<1>1. op.step = "pending" /\ rec' = invalidatedRecord /\ Goto("pomar") /\ UNCHANGED <<bin, open, loaded, manager, draining, history, live, journal>>
  BY DEF Pending, At, service, work
<1>2. op.kind = "apply" /\ op.archive \in Archives /\ ~loaded /\ BaselineInstalled /\ journal[op.archive].phase = "installing"
  BY <1>1, KindIs DEF UpInv, StepsTrue, StopTrue, FilesTrue
<1>3. Onward /\ op'.step = "pomar"
  BY <1>1, GotoOnward DEF Steps
<1>4. rec' # beforeRecord /\ rec' \in Records
  BY <1>1 DEF invalidatedRecord, beforeRecord, Records
<1>5. HostTrue'
  BY <1>1, <1>2, <1>4 DEF UpInv, HostTrue, Running, NoNew, AllBuild, BaselineInstalled, Marked
<1>6. StepsTrue' /\ FilesTrue' /\ StopTrue'
  BY <1>1, <1>2, <1>3, <1>4 DEF UpInv, StepsTrue, FilesTrue, StopTrue, NoNew, Onward
<1> QED BY <1>1, <1>3, <1>4, <1>5, <1>6 DEF UpInv, UpVarsOK, Onward

LEMMA ReplaceKeeps ==
    ASSUME UpInv, NEW b \in {"pomar", "host"}, NEW s \in {"host", "record"}, b = "pomar" <=> s = "host", Replace(b, s)
    PROVE  UpInv'
<1>1. CASE Stopped
  BY <1>1, StoppedKeeps
<1>2. CASE ~Stopped
  <2>1. /\ op.step = b /\ bin' = [bin EXCEPT ![b] = Wanted] /\ Goto(s)
        /\ UNCHANGED <<rec, open, loaded, manager, draining, history, live, journal>>
    BY <1>2 DEF Replace, At, service, work
  <2>2. op.kind \in {"apply", "rollback"} /\ op.archive \in Archives /\ ~loaded
    BY <2>1, KindIs DEF UpInv, StepsTrue, StopTrue
  <2>3. /\ op.kind = "apply" => journal[op.archive].phase = "installing" /\ rec # beforeRecord /\ Wanted = "new"
        /\ op.kind = "rollback" => journal[op.archive].phase = "rolling-back" /\ Wanted = "old"
    BY <2>1, <2>2 DEF UpInv, FilesTrue, Wanted
  <2>4. ~open /\ ~Running /\ NoNew(history) /\ Marked'
    BY <2>1, <2>2, <2>3 DEF UpInv, HostTrue, Marked
  <2>5. bin' \in [{"pomar", "host"} -> Builds] /\ bin'[b] = Wanted /\ \A c \in {"pomar", "host"} : c # b => bin'[c] = bin[c]
    BY <2>1, <2>2, <2>3 DEF UpInv, UpVarsOK, Builds
  <2>6. Onward /\ op'.step = s
    BY <2>1, GotoOnward DEF Steps
  <2>7. HostTrue'
    BY <2>1, <2>2, <2>3, <2>4, <2>5 DEF UpInv, HostTrue, Running, NoNew, AllBuild
  <2>8. StepsTrue'
    BY <2>1, <2>2, <2>6 DEF UpInv, StepsTrue, NoNew, Onward
  <2>9. FilesTrue'
    BY <2>1, <2>2, <2>3, <2>5, <2>6 DEF UpInv, FilesTrue, Onward
  <2>10. StopTrue'
    BY <2>1, <2>2, <2>6 DEF StopTrue, Onward
  <2> QED BY <2>1, <2>5, <2>6, <2>7, <2>8, <2>9, <2>10 DEF UpInv, UpVarsOK, Onward
<1> QED BY <1>1, <1>2

LEMMA RecordKeeps ==
    ASSUME UpInv, Record PROVE UpInv'
<1>1. op.step = "record" /\ rec' = ExpectedRecord /\ UNCHANGED <<bin, open, loaded, manager, draining, history, live, journal>>
  BY DEF Record, At, service, work
<1>2. op.kind \in {"apply", "rollback"} /\ op.archive \in Archives /\ ~loaded
  BY <1>1, KindIs DEF UpInv, StepsTrue, StopTrue
<1>3. /\ op.kind = "apply" => journal[op.archive].phase = "installing" /\ rec' = op.archive
      /\ op.kind = "rollback" => journal[op.archive].phase = "rolling-back" /\ rec' = beforeRecord /\ AllBuild("old")
  BY <1>1, <1>2 DEF UpInv, FilesTrue, ExpectedRecord, AllBuild
<1>4. rec' \in Records /\ (op.kind = "apply" => rec' # beforeRecord)
  BY <1>2, <1>3, UpgradeAssumption DEF Records, Archives, beforeRecord
<1>5. ~open /\ ~Running /\ NoNew(history) /\ Marked'
  BY <1>1, <1>2, <1>3 DEF UpInv, HostTrue, Marked
<1>6. Onward /\ (op.kind = "apply" => op'.step = "save" /\ op'.to = "starting") /\ (op.kind = "rollback" => op'.step = "start")
  BY <1>2, GotoOnward, ThenOnward DEF Record, Steps, Phases
<1>7. HostTrue'
  BY <1>1, <1>2, <1>3, <1>4, <1>5 DEF UpInv, HostTrue, Running, NoNew, AllBuild
<1>8. StepsTrue' /\ StopTrue'
  BY <1>1, <1>2, <1>6, AfterIs DEF UpInv, StepsTrue, StopTrue, NoNew, Onward
<1>9. op.kind = "rollback" => BaselineInstalled'
  BY <1>1, <1>3 DEF BaselineInstalled, AllBuild, UpInv, UpVarsOK
<1>10. FilesTrue'
  BY <1>1, <1>2, <1>3, <1>6, <1>9 DEF FilesTrue, Onward
<1> QED BY <1>1, <1>4, <1>6, <1>7, <1>8, <1>10 DEF UpInv, UpVarsOK, Onward

LEMMA StartKeeps ==
    ASSUME UpInv, Start PROVE UpInv'
<1>1. CASE Stopped
  BY <1>1, StoppedKeeps
<1>2. CASE ~Stopped
  <2>1. /\ op.step = "start" /\ loaded' = TRUE /\ manager' = bin["pomar"] /\ draining' = FALSE /\ Goto("redrain")
        /\ ~open /\ UNCHANGED <<bin, rec, open, history, live, journal>>
    BY <1>2 DEF Start, At, files, work
  <2>2. Onward /\ op'.step = "redrain"
    BY <2>1, GotoOnward DEF Steps
  <2>3. HostTrue'
    BY <2>1 DEF UpInv, HostTrue, Running, NoNew, AllBuild, BaselineInstalled, Marked
  <2>4. StepsTrue' /\ FilesTrue' /\ StopTrue'
    BY <2>1, <2>2, KindIs DEF UpInv, StepsTrue, FilesTrue, StopTrue, NoNew, BaselineInstalled, Onward
  <2>5. manager' \in Builds
    BY <2>1 DEF UpInv, UpVarsOK
  <2> QED BY <2>1, <2>2, <2>3, <2>4, <2>5 DEF UpInv, UpVarsOK, Onward
<1> QED BY <1>1, <1>2

LEMMA RedrainKeeps ==
    ASSUME UpInv, Redrain PROVE UpInv'
<1>1. CASE Stopped
  BY <1>1, StoppedKeeps
<1>2. CASE ~Stopped
  <2>1. op.step = "redrain" /\ Running /\ draining' = TRUE /\ UNCHANGED <<bin, rec, open, loaded, manager, history, live, journal>>
    BY <1>2 DEF Redrain, At, files, work
  <2>2. HostTrue'
    BY <2>1 DEF UpInv, HostTrue, Running, NoNew, AllBuild, BaselineInstalled, Marked
  <2>3. op' \in OpRecs => UpVarsOK'
    BY <2>1 DEF UpInv, UpVarsOK
  <2>4. CASE op' = Idle
    BY <2>2, <2>3, <2>4, EndsTrue DEF UpInv
  <2>5. CASE op' # Idle
    <3>1. op.kind \in {"apply", "rollback"}
      BY <2>1, KindIs DEF UpInv, StepsTrue
    <3>2. Onward /\ (op.kind = "apply" => op'.step = "save" /\ op'.to = "verifying") /\ (op.kind = "rollback" => op'.step = "verify")
      BY <1>2, <2>5, <3>1, GotoOnward, ThenOnward DEF Redrain, Steps, Phases
    <3>3. StepsTrue' /\ FilesTrue' /\ StopTrue'
      BY <2>1, <3>1, <3>2, AfterIs DEF UpInv, StepsTrue, FilesTrue, StopTrue, NoNew, BaselineInstalled, Onward
    <3> QED BY <2>2, <2>3, <3>2, <3>3 DEF UpInv, Onward
  <2> QED BY <2>4, <2>5
<1> QED BY <1>1, <1>2

LEMMA VerifyKeeps ==
    ASSUME UpInv, Verify PROVE UpInv'
<1>1. CASE Stopped
  BY <1>1, StoppedKeeps
<1>2. CASE ~Stopped
  <2>1. /\ op.step = "verify" /\ Verified /\ Running /\ open' = TRUE /\ Goto("readback")
        /\ UNCHANGED <<bin, rec, loaded, manager, draining, history, live, journal>>
    BY <1>2 DEF Verify, At, idleDrain, files, work
  <2>2. op.kind \in {"apply", "rollback"} /\ op.archive \in Archives
    BY <2>1, KindIs DEF UpInv, StepsTrue
  <2>3. Onward /\ op'.step = "readback"
    BY <2>1, GotoOnward DEF Steps
  <2>4. AllBuild(Wanted) /\ rec = ExpectedRecord
    BY <2>1 DEF Verified, AllBuild, UpInv, UpVarsOK
  <2>5. op.archive # beforeRecord /\ op.archive # invalidatedRecord /\ beforeRecord # invalidatedRecord
    BY <2>2, UpgradeAssumption DEF Archives, beforeRecord, invalidatedRecord
  <2>6. bin["pomar"] = bin["host"] /\ rec # invalidatedRecord /\ (rec = beforeRecord <=> bin["pomar"] = "old")
    BY <2>2, <2>4, <2>5 DEF Wanted, ExpectedRecord, AllBuild
  <2>7. HostTrue'
    BY <2>1, <2>6 DEF UpInv, HostTrue, Running, NoNew, AllBuild, BaselineInstalled, Marked
  <2>8. StepsTrue' /\ FilesTrue' /\ StopTrue'
    BY <2>1, <2>2, <2>3 DEF UpInv, StepsTrue, FilesTrue, StopTrue, NoNew, BaselineInstalled, Onward
  <2> QED BY <2>1, <2>3, <2>7, <2>8 DEF UpInv, UpVarsOK, Onward
<1> QED BY <1>1, <1>2

\* The directory is closed with the operation's end.
LEMMA ReclosedKeeps ==
    ASSUME UpInv, op' = Idle, open' \in {open, FALSE},
           UNCHANGED <<bin, rec, loaded, manager, draining, history, live, journal>>
    PROVE  UpInv'
<1>1. open' => open
  OBVIOUS
<1>2. HostTrue'
  BY <1>1 DEF UpInv, HostTrue, Running, NoNew, AllBuild, BaselineInstalled, Marked
<1> QED BY <1>2, EndsTrue DEF UpInv, UpVarsOK

LEMMA ReadbackKeeps ==
    ASSUME UpInv, Readback PROVE UpInv'
<1>1. CASE Reclosed
  BY <1>1, ReclosedKeeps DEF Reclosed, files, work
<1>2. CASE ~Reclosed
  <2>1. op.step = "readback" /\ op' = [op EXCEPT !.step = "confirm", !.same = TRUE] /\ UNCHANGED hostVars
    BY <1>2 DEF Readback, At, hostVars, files, service, work
  <2>2. /\ op' \in OpRecs /\ op'.step = "confirm" /\ op'.kind = op.kind /\ op'.archive = op.archive /\ op'.seen = op.seen
    BY <2>1 DEF UpInv, UpVarsOK, OpRecs, Steps
  <2>3. StepsTrue' /\ FilesTrue' /\ StopTrue'
    BY <2>1, <2>2, KindIs DEF UpInv, StepsTrue, FilesTrue, StopTrue, NoNew, hostVars, BaselineInstalled
  <2> QED BY <2>1, <2>2, <2>3, HostKept DEF UpInv, UpVarsOK, hostVars
<1> QED BY <1>1, <1>2

LEMMA ConfirmKeeps ==
    ASSUME UpInv, Confirm PROVE UpInv'
<1>1. CASE Reclosed
  BY <1>1, ReclosedKeeps DEF Reclosed, files, work
<1>2. CASE ~Reclosed
  <2>1. op.step = "confirm" /\ UNCHANGED hostVars /\ IF op.kind = "apply" THEN Then("opening") ELSE Goto("open")
    BY <1>2 DEF Confirm, At, hostVars, files, service, work
  <2>2. op.kind \in {"apply", "rollback"}
    BY <2>1, KindIs DEF UpInv, StepsTrue
  <2>3. Onward /\ (op.kind = "apply" => op'.step = "save" /\ op'.to = "opening") /\ (op.kind = "rollback" => op'.step = "open")
    BY <2>1, <2>2, GotoOnward, ThenOnward DEF Steps, Phases
  <2>4. StepsTrue' /\ FilesTrue' /\ StopTrue'
    BY <2>1, <2>2, <2>3, AfterIs DEF UpInv, StepsTrue, FilesTrue, StopTrue, NoNew, hostVars, BaselineInstalled, Onward
  <2> QED BY <2>1, <2>3, <2>4, OnwardKeeps
<1> QED BY <1>1, <1>2

LEMMA LiftKeeps ==
    ASSUME UpInv, Lift PROVE UpInv'
<1>1. CASE Stopped
  BY <1>1, StoppedKeeps
<1>2. CASE ~Stopped
  <2>1. /\ op.step = "lift" /\ draining' = FALSE /\ UNCHANGED <<bin, rec, open, loaded, manager, history, live, journal>>
        /\ Then(IF op.kind = "apply" THEN "complete" ELSE "rolled-back")
    BY <1>2 DEF Lift, At, files, work
  <2>2. op.kind \in {"apply", "rollback"}
    BY <2>1, KindIs DEF UpInv, StepsTrue
  <2>3. Onward /\ op'.step = "save" /\ op'.to = IF op.kind = "apply" THEN "complete" ELSE "rolled-back"
    BY <2>1, <2>2, ThenOnward DEF Phases
  <2>4. HostTrue'
    BY <2>1 DEF UpInv, HostTrue, Running, NoNew, AllBuild, BaselineInstalled, Marked
  <2>5. StepsTrue' /\ FilesTrue' /\ StopTrue'
    BY <2>1, <2>2, <2>3, AfterIs DEF UpInv, StepsTrue, FilesTrue, StopTrue, NoNew, BaselineInstalled, Onward
  <2> QED BY <2>1, <2>3, <2>4, <2>5 DEF UpInv, UpVarsOK, Onward
<1> QED BY <1>1, <1>2

LEMMA BeginsKeep ==
    ASSUME UpInv, Apply \/ \E a \in Archives : Rollback(a)
    PROVE  UpInv'
<1>1. UNCHANGED hostVars
  BY DEF Apply, Rollback, hostVars, files, service, work
<1>2. CASE Apply
  <2>1. PICK a \in Archives : op' = [Idle EXCEPT !.kind = "apply", !.archive = a, !.step = "inspect"]
    BY <1>2 DEF Apply
  <2>2. /\ op' \in OpRecs /\ op'.kind = "apply" /\ op'.archive = a /\ op'.step = "inspect" /\ NoNew(op'.seen)
    <3>1. <<>> \in Seq(Builds) /\ NoNew(<<>>) /\ a \in 0 .. MaxApplies
      BY UpgradeAssumption DEF NoNew, Archives
    <3>2. op' = [kind |-> "apply", archive |-> a, step |-> "inspect", to |-> "none", fenced |-> FALSE, same |-> FALSE, seen |-> <<>>]
      BY <2>1 DEF Idle
    <3>3. op'.seen = <<>>
      BY <3>2
    <3> QED BY <3>1, <3>2, <3>3 DEF OpRecs, Steps, Phases
  <2>3. StepsTrue' /\ FilesTrue' /\ StopTrue'
    BY <1>1, <1>2, <2>2 DEF StepsTrue, FilesTrue, StopTrue, Apply, hostVars, BaselineInstalled, NoNew
  <2> QED BY <1>1, <2>2, <2>3, HostKept DEF UpInv, UpVarsOK, hostVars
<1>3. ASSUME NEW a \in Archives, Rollback(a) PROVE UpInv'
  <2>1. op' = [Idle EXCEPT !.kind = "rollback", !.archive = a, !.step = "save", !.to = "rolling-back", !.seen = journal[a].history]
    BY <1>3 DEF Rollback
  <2>2. journal[a].history \in Seq(Builds) /\ NoNew(journal[a].history)
    BY DEF UpInv, UpVarsOK, HostTrue
  <2>3. /\ op' \in OpRecs /\ op'.kind = "rollback" /\ op'.archive = a /\ op'.step = "save" /\ op'.to = "rolling-back"
        /\ op'.seen = journal[a].history
    <3>1. a \in 0 .. MaxApplies
      BY UpgradeAssumption DEF Archives
    <3>2. op' = [kind |-> "rollback", archive |-> a, step |-> "save", to |-> "rolling-back", fenced |-> FALSE, same |-> FALSE,
                 seen |-> journal[a].history]
      BY <2>1 DEF Idle
    <3> QED BY <2>2, <3>1, <3>2 DEF OpRecs, Steps, Phases
  <2>4. StepsTrue' /\ FilesTrue' /\ StopTrue'
    BY <1>1, <2>2, <2>3 DEF StepsTrue, FilesTrue, StopTrue, hostVars, NoNew
  <2> QED BY <1>1, <2>3, <2>4, HostKept DEF UpInv, UpVarsOK, hostVars
<1> QED BY <1>2, <1>3

\* The rest of the host leaves the operation's record alone but for the process's identity.
LEMMA AdmitKeeps ==
    ASSUME UpInv, Admit PROVE UpInv'
<1>1. /\ open /\ Running /\ ~draining /\ history' = Append(history, manager) /\ live' = TRUE
      /\ UNCHANGED <<bin, rec, open, loaded, manager, draining, journal, op>>
  BY DEF Admit, Admitting, files, service
<1>2. manager \in Builds /\ history \in Seq(Builds) /\ loaded
  BY <1>1 DEF UpInv, UpVarsOK, HostTrue, Running
<1>3. /\ history' \in Seq(Builds) /\ DOMAIN history' = DOMAIN history \cup {Len(history) + 1}
      /\ history'[Len(history) + 1] = manager /\ \A i \in DOMAIN history : history'[i] = history[i]
  BY <1>1, <1>2
<1>4. NoNew(history') \/ AllBuild("new")
  BY <1>1, <1>2, <1>3 DEF UpInv, HostTrue, NoNew, AllBuild, Builds, UpVarsOK
<1>5. HostTrue'
  BY <1>1, <1>2, <1>4 DEF UpInv, HostTrue, Running, NoNew, AllBuild, BaselineInstalled, Marked
<1>6. StepsTrue' /\ FilesTrue'
  BY <1>1 DEF UpInv, StepsTrue, FilesTrue, NoNew, BaselineInstalled
<1>7. StopTrue'
  BY <1>1, <1>2 DEF UpInv, StopTrue
<1> QED BY <1>1, <1>3, <1>5, <1>6, <1>7 DEF UpInv, UpVarsOK

LEMMA EndKeeps ==
    ASSUME UpInv, End PROVE UpInv'
<1>1. live' = FALSE /\ UNCHANGED <<bin, rec, open, loaded, manager, draining, history, journal, op>>
  BY DEF End, files, service
<1>2. HostTrue'
  BY <1>1 DEF UpInv, HostTrue, Running, NoNew, AllBuild, BaselineInstalled, Marked
<1>3. StepsTrue' /\ FilesTrue'
  BY <1>1 DEF UpInv, StepsTrue, FilesTrue, NoNew, BaselineInstalled
<1>4. StopTrue'
  BY <1>1 DEF UpInv, StopTrue
<1> QED BY <1>1, <1>2, <1>3, <1>4 DEF UpInv, UpVarsOK

LEMMA OwnerDrainKeeps ==
    ASSUME UpInv, OwnerDrain PROVE UpInv'
<1>1. op.kind = "none" /\ Running /\ draining' \in BOOLEAN /\ UNCHANGED <<bin, rec, open, loaded, manager, history, live, journal, op>>
  BY DEF OwnerDrain, files, work
<1>2. HostTrue'
  BY <1>1 DEF UpInv, HostTrue, Running, NoNew, AllBuild, BaselineInstalled, Marked
<1> QED BY <1>1, <1>2 DEF UpInv, UpVarsOK, StepsTrue, FilesTrue, StopTrue, NoNew, BaselineInstalled

LEMMA DieKeeps ==
    ASSUME UpInv, Die PROVE UpInv'
<1>1. /\ Running /\ manager' = "none" /\ draining' = FALSE /\ op' = [op EXCEPT !.same = FALSE]
      /\ UNCHANGED <<bin, rec, open, loaded, history, live, journal>>
  BY DEF Die, files, work
<1>2. /\ op' \in OpRecs /\ op'.kind = op.kind /\ op'.archive = op.archive /\ op'.step = op.step /\ op'.to = op.to
      /\ op'.seen = op.seen /\ op'.same = FALSE
  BY <1>1 DEF UpInv, UpVarsOK, OpRecs
<1>3. HostTrue'
  BY <1>1 DEF UpInv, HostTrue, Running, NoNew, AllBuild, BaselineInstalled, Marked
<1>4. StepsTrue' /\ FilesTrue' /\ StopTrue'
  BY <1>1, <1>2 DEF UpInv, StepsTrue, FilesTrue, StopTrue, NoNew, BaselineInstalled
<1> QED BY <1>1, <1>2, <1>3, <1>4 DEF UpInv, UpVarsOK

LEMMA RelaunchKeeps ==
    ASSUME UpInv, Relaunch PROVE UpInv'
<1>1. loaded /\ manager' = bin["pomar"] /\ draining' = FALSE /\ UNCHANGED <<bin, rec, open, loaded, history, live, journal, op>> /\ ~Running
  BY DEF Relaunch, files, work
<1>2. HostTrue' /\ manager' \in Builds
  BY <1>1 DEF UpInv, HostTrue, Running, NoNew, AllBuild, BaselineInstalled, Marked, UpVarsOK
<1>3. StepsTrue' /\ FilesTrue'
  BY <1>1 DEF UpInv, StepsTrue, FilesTrue, NoNew, BaselineInstalled
<1>4. StopTrue'
  BY <1>1 DEF UpInv, StopTrue, HostTrue
<1> QED BY <1>1, <1>2, <1>3, <1>4 DEF UpInv, UpVarsOK

LEMMA RebootKeeps ==
    ASSUME UpInv, Reboot PROVE UpInv'
<1>1. op' = Idle /\ loaded' = TRUE /\ manager' = "none" /\ draining' = FALSE /\ live' = FALSE /\ UNCHANGED <<bin, rec, open, history, journal>>
  BY DEF Reboot, files
<1>2. HostTrue'
  BY <1>1 DEF UpInv, HostTrue, Running, NoNew, AllBuild, BaselineInstalled, Marked
<1> QED BY <1>1, <1>2, EndsTrue DEF UpInv, UpVarsOK

LEMMA AloneKeeps ==
    ASSUME UpInv, UNCHANGED hostVars, UNCHANGED op
    PROVE  UpInv'
<1>1. UpVarsOK' /\ StepsTrue' /\ FilesTrue' /\ StopTrue'
  BY DEF UpInv, UpVarsOK, StepsTrue, FilesTrue, StopTrue, NoNew, BaselineInstalled, hostVars
<1> QED BY <1>1, HostKept DEF UpInv

LEMMA UpStepKeeps ==
    ASSUME UpInv, Next \/ UNCHANGED vars
    PROVE  UpInv'
<1>1. CASE UNCHANGED vars \/ Stage \/ Edit \/ PutBack
  BY <1>1, AloneKeeps DEF vars, hostVars, Stage, Edit, PutBack, files, service, work
<1>2. CASE Step
  BY <1>2, InspectKeeps, ChecksKeep, ArchiveKeeps, SaveKeeps, FenceKeeps, RestoreKeeps, CloseKeeps, BootoutKeeps,
     PendingKeeps, ReplaceKeeps, RecordKeeps, StartKeeps, RedrainKeeps, VerifyKeeps, ReadbackKeeps, ConfirmKeeps, LiftKeeps
     DEF Step, ReplacePomar, ReplaceHost
<1>3. CASE Abort
  BY <1>3, ReclosedKeeps DEF Abort, files, work
<1> QED BY <1>1, <1>2, <1>3, BeginsKeep, AdmitKeeps, EndKeeps, OwnerDrainKeeps, DieKeeps, RelaunchKeeps, RebootKeeps DEF Next

LEMMA UpInitTrue == ASSUME Init PROVE UpInv
<1>1. /\ bin = [pomar |-> "old", host |-> "old"] /\ rec = beforeRecord /\ open = TRUE /\ loaded = TRUE /\ manager = "old"
      /\ draining = FALSE /\ history = <<>> /\ live = FALSE /\ journal = [a \in Archives |-> NoJournal] /\ op = Idle
  BY DEF Init
<1>2. bin \in [{"pomar", "host"} -> Builds] /\ bin["pomar"] = "old" /\ bin["host"] = "old"
  BY <1>1 DEF Builds
<1>3. <<>> \in Seq(Builds) /\ NoNew(<<>>)
  BY DEF NoNew
<1>4. \A a \in Archives : journal[a].phase = "none" /\ journal[a].history = <<>>
  BY <1>1 DEF NoJournal
<1>5. journal \in [Archives -> [phase : Phases, history : Seq(Builds)]]
  BY <1>1, <1>3 DEF NoJournal, Phases
<1>6. UpVarsOK
  BY <1>1, <1>2, <1>3, <1>5, IdleIsOp DEF UpVarsOK, Records, Builds
<1>7. HostTrue
  BY <1>1, <1>2, <1>3, <1>4 DEF HostTrue, AllBuild, BaselineInstalled, beforeRecord, invalidatedRecord
<1>8. StepsTrue /\ FilesTrue /\ StopTrue
  BY <1>1, IdleIsOp DEF StepsTrue, FilesTrue, StopTrue, Idle
<1> QED BY <1>6, <1>7, <1>8 DEF UpInv

\* Each step of the composition is one of the part's or leaves it alone.
LEMMA OwnerStepIs ==
    ASSUME [OwnerNext]_ownerVars
    PROVE  /\ Next \/ UNCHANGED vars
           /\ SeedNext \/ UNCHANGED seedVars
           /\ FeedNext \/ UNCHANGED feedVars
           /\ RecordNext \/ UNCHANGED recordVars
  BY DEF OwnerNext, ownerVars

\* In every state of an upgrade, through deaths, retries and rollbacks, the job, the open
\* directory, the files and what an operation has journalled and observed agree
\* (native_darwin.go, run_darwin.go, transaction.go).
THEOREM UpgradeInvariant == OwnerSpec => []UpInv
<1>1. OwnerInit => UpInv
  BY UpInitTrue DEF OwnerInit
<1>2. UpInv /\ [OwnerNext]_ownerVars => UpInv'
  BY UpStepKeeps, OwnerStepIs
<1> QED BY <1>1, <1>2, PTL DEF OwnerSpec

LEMMA OneBuildHolds == ASSUME UpInv PROVE OneBuild
<1>1. DOMAIN bin = {"pomar", "host"} /\ UpVarsOK
  BY DEF UpInv, UpVarsOK
<1>2. ServesOneBuild
  BY <1>1 DEF UpInv, HostTrue, ServesOneBuild, Admitting
<1>3. RecordTrue
  BY <1>1 DEF UpInv, HostTrue, RecordTrue, Marked, AllBuild
<1>4. NoWorkUndone
  BY <1>1 DEF UpInv, HostTrue, NoWorkUndone, NoNew, AllBuild
<1> QED BY <1>2, <1>3, <1>4 DEF OneBuild

\* Whatever dies, is cut short or restarted, callers are served by one build only, the
\* record and the journals tell what is installed, and no work of the target's is left to
\* the baseline (Native.Replace, Restore, Open; transaction.go).
THEOREM BuildIsOne == OwnerSpec => []OneBuild
<1>1. UpInv => OneBuild
  BY OneBuildHolds
<1> QED BY <1>1, UpgradeInvariant, PTL

Untouched ==
    /\ (loaded /\ ~loaded') => ~live
    /\ (files' # files) => (~Running /\ ~live)

\* Which steps change a file or unload the job.
LEMMA TouchIs ==
    ASSUME Next \/ UNCHANGED vars
    PROVE  /\ UNCHANGED files \/ op.step \in {"pending", "pomar", "host", "record"}
           /\ (loaded => loaded') \/ op.step = "bootout"
<1> USE DEF At, files, service, Stopped, Check, Goto
<1>1. CASE Inspect \/ Inspected \/ Archive \/ Reobserve \/ Reobserved
  BY <1>1 DEF Inspect, ObserveBegin, Inspected, Archive, Reobserve, Reobserved
<1>2. CASE Save \/ Fence \/ Restore \/ StopProcess \/ StopDrained
  BY <1>2 DEF Save, Fence, Restore, StopProcess, StopDrained
<1>3. CASE closeControl \/ Recheck \/ Bootout \/ Absent
  BY <1>3 DEF closeControl, Recheck, Bootout, Absent
<1>4. CASE Pending \/ ReplacePomar \/ ReplaceHost \/ Record
  BY <1>4 DEF Pending, ReplacePomar, ReplaceHost, Replace, Record
<1>5. CASE Start \/ Redrain \/ Verify \/ Readback \/ Confirm
  BY <1>5 DEF Start, Redrain, Verify, Readback, Confirm, Reclosed
<1>6. CASE Open \/ Lift \/ UNCHANGED vars
  BY <1>6 DEF Open, Lift, vars
<1>7. CASE Stage \/ Admit \/ End \/ OwnerDrain
  BY <1>7 DEF Stage, Admit, End, OwnerDrain
<1>8. CASE Die \/ Relaunch \/ Edit \/ PutBack
  BY <1>8 DEF Die, Relaunch, Edit, PutBack
<1>9. CASE Reboot
  BY <1>9 DEF Reboot
<1>10. CASE Abort
  <2>1. UNCHANGED <<bin, rec, loaded>>
    BY <1>10, Zenon DEF Abort
  <2> QED BY <2>1
<1>11. CASE Apply
  BY <1>11 DEF Apply
<1>12. CASE \E a \in Archives : Rollback(a)
  BY <1>12 DEF Rollback
<1> HIDE DEF At, files, service, Stopped, Check, Goto
<1> QED BY <1>1, <1>2, <1>3, <1>4, <1>5, <1>6, <1>7, <1>8, <1>9, <1>10, <1>11, <1>12 DEF Next, Step

LEMMA UntouchedHolds ==
    ASSUME UpInv, Next \/ UNCHANGED vars
    PROVE  Untouched
<1>1. op.step = "bootout" => ~live
  BY DEF UpInv, StopTrue
<1>2. op.step \in {"pending", "pomar", "host", "record"} => ~Running /\ ~live
  BY DEF UpInv, StopTrue, HostTrue
<1> QED BY <1>1, <1>2, TouchIs DEF Untouched

\* No operation unloads the service under a live attempt, or replaces a file under a manager
\* or an attempt (Native.Stop, Replace, Restore), whoever dies or is relaunched in between.
THEOREM NothingLiveIsTouched == OwnerSpec => NothingLiveTouched
<1>1. UpInv /\ [OwnerNext]_ownerVars => [Untouched]_vars
  BY UntouchedHolds, OwnerStepIs
<1>2. OwnerSpec => [][Untouched]_vars
  BY <1>1, UpgradeInvariant, PTL DEF OwnerSpec
<1>3. [][Untouched]_vars => NothingLiveTouched
  BY PTL DEF NothingLiveTouched, Untouched
<1> QED BY <1>2, <1>3

(******************************** the seeded caches **********************************)
SeedSteps == {"idle", "check", "make", "intent", "copy", "readback", "mark", "fail", "ledger", "receipt", "targets"}
SeedVarsOK ==
    /\ entry \in [1 .. Receipt -> {"none", "intent", "created", "failed"}]
    /\ target \in [SeedGroups -> {"none", "part", "pinned", "other"}] /\ source \in [SeedGroups -> {"pinned", "other"}]
    /\ receipt \in {"none", "part", "whole"} /\ rootMade \in BOOLEAN /\ vouched \in BOOLEAN
    /\ drifted \subseteq SeedGroups /\ seeder \in [Seeders -> [pc : SeedSteps, at : 1 .. Receipt]]
    /\ verifier \in {"ledger", "receipt", "targets"}

\* A preparation that made the root, and one that writes there.
Past(p) == seeder[p].pc \notin {"idle", "check", "make"}
Writing(p) == seeder[p].pc \in {"intent", "copy", "readback", "mark", "fail"}
Copied(g) == target[g] = "pinned" \/ g \in drifted
DoneTo(n) == \A g \in SeedGroups : g < n => entry[g] = "created" /\ Copied(g)
NotFrom(n) == \A g \in 1 .. Receipt : g >= n => entry[g] # "created"

\* Where the one preparation of the root is, the groups before it are done, its own and
\* the later ones are not, and there is no receipt before the last.
SeederTrue(p) ==
    /\ Past(p) => rootMade
    /\ Writing(p) =>
         /\ DoneTo(seeder[p].at) /\ NotFrom(seeder[p].at)
         /\ seeder[p].at # Receipt => receipt = "none"
         /\ seeder[p].at = Receipt => seeder[p].pc # "readback"
         /\ seeder[p].pc = "mark" => IF seeder[p].at = Receipt THEN receipt = "whole" ELSE Copied(seeder[p].at)
         /\ seeder[p].pc = "readback" => Copied(seeder[p].at)
    /\ seeder[p].pc \in {"receipt", "targets"} => LedgerWhole
    /\ seeder[p].pc \in {"ledger", "targets"} => receipt = "whole"

SeedInv ==
    /\ SeedVarsOK /\ SeedTrue
    /\ \A p, q \in Seeders : Past(p) /\ Past(q) => p = q
    /\ \A p \in Seeders : SeederTrue(p)
    /\ ~rootMade => receipt = "none" /\ \A g \in 1 .. Receipt : entry[g] = "none"
    /\ verifier \in {"receipt", "targets"} => LedgerWhole
    /\ verifier = "targets" => receipt = "whole"

LEMMA GroupsAre ==
    /\ Receipt \in Nat /\ GroupCount \in Nat /\ 1 \in 1 .. Receipt /\ Receipt \in 1 .. Receipt
    /\ 1 .. Receipt = SeedGroups \cup {Receipt} /\ Receipt \notin SeedGroups
    /\ \A g \in 1 .. Receipt : g \in Nat /\ (g # Receipt <=> g \in SeedGroups)
    /\ \A g \in SeedGroups : g < Receipt /\ g + 1 \in 1 .. Receipt
  BY SeedAssumption DEF Receipt, SeedGroups

\* What a preparation says stays true when nothing it speaks of is taken back.
Grows ==
    /\ rootMade => rootMade'
    /\ \A g \in 1 .. Receipt : (entry[g] = "created" <=> entry'[g] = "created")
    /\ \A g \in SeedGroups : Copied(g) => Copied(g)'
    /\ receipt' = receipt

LEMMA SeederKept ==
    ASSUME SeedInv, Grows, NEW p \in Seeders, seeder'[p] = seeder[p]
    PROVE  SeederTrue(p)'
<1>1. seeder[p].at \in 1 .. Receipt
  BY DEF SeedInv, SeedVarsOK
<1>2. SeederTrue(p)
  BY DEF SeedInv
<1>3. \A n \in Nat : DoneTo(n) => DoneTo(n)'
  BY GroupsAre DEF DoneTo, Grows
<1>4. (LedgerWhole => LedgerWhole') /\ \A n \in Nat : NotFrom(n) => NotFrom(n)'
  BY DEF LedgerWhole, NotFrom, Grows
<1> QED BY <1>1, <1>2, <1>3, <1>4, GroupsAre DEF SeederTrue, Grows, Past, Writing, Copied

LEMMA LedgerKept ==
    ASSUME SeedInv, Grows
    PROVE  /\ LedgerWhole <=> LedgerWhole'
           /\ ReceiptTrue'
           /\ vouched' = vouched => VouchedStays'
           /\ verifier' = verifier => /\ verifier' \in {"receipt", "targets"} => LedgerWhole'
                                      /\ verifier' = "targets" => receipt' = "whole"
<1>1. LedgerWhole <=> LedgerWhole'
  BY DEF LedgerWhole, Grows
<1>2. ReceiptTrue'
  BY GroupsAre DEF SeedInv, SeedTrue, ReceiptTrue, Grows, Copied
<1>3. vouched' = vouched => VouchedStays'
  BY <1>1 DEF SeedInv, SeedTrue, VouchedStays, Grows
<1> QED BY <1>1, <1>2, <1>3 DEF SeedInv, Grows

\* Inputs and files change by hand.
LEMMA HandsKeep ==
    ASSUME SeedInv, \E g \in SeedGroups : SourceChanges(g) \/ Drift(g)
    PROVE  SeedInv'
<1>1. PICK g \in SeedGroups : SourceChanges(g) \/ Drift(g)
  OBVIOUS
<1>2. UNCHANGED <<rootMade, entry, receipt, seeder, verifier, vouched>>
  BY <1>1 DEF SourceChanges, Drift
<1>3. SeedVarsOK' /\ \A h \in SeedGroups : Copied(h) => Copied(h)'
  <2>1. CASE SourceChanges(g)
    <3>1. source' \in [SeedGroups -> {"pinned", "other"}] /\ UNCHANGED <<target, drifted>>
      BY <2>1 DEF SourceChanges, SeedInv, SeedVarsOK
    <3> QED BY <1>2, <3>1 DEF SeedInv, SeedVarsOK, Copied
  <2>2. CASE Drift(g)
    <3>1. target' = [target EXCEPT ![g] = "other"] /\ drifted' = drifted \cup {g} /\ source' = source
      BY <2>2 DEF Drift
    <3>2. target' \in [SeedGroups -> {"none", "part", "pinned", "other"}] /\ \A h \in SeedGroups : h # g => target'[h] = target[h]
      BY <3>1 DEF SeedInv, SeedVarsOK
    <3> QED BY <1>2, <3>1, <3>2 DEF SeedInv, SeedVarsOK, Copied
  <2> QED BY <1>1, <2>1, <2>2
<1>4. Grows
  BY <1>2, <1>3 DEF Grows
<1>5. \A p \in Seeders : SeederTrue(p)'
  BY <1>2, <1>4, SeederKept
<1> QED BY <1>2, <1>3, <1>4, <1>5, LedgerKept DEF SeedInv, SeedTrue, Past

\* A preparation moves on: the others are as they were.
LEMMA ToStepIs ==
    ASSUME SeedInv, NEW p \in Seeders, NEW s \in SeedSteps, NEW n \in 1 .. Receipt, ToStep(p, s, n)
    PROVE  /\ seeder' \in [Seeders -> [pc : SeedSteps, at : 1 .. Receipt]]
           /\ seeder'[p].pc = s /\ seeder'[p].at = n
           /\ \A q \in Seeders : q # p => seeder'[q] = seeder[q]
           /\ (s \in {"idle", "check", "make"} \/ Past(p)) => \A q, r \in Seeders : Past(q)' /\ Past(r)' => q = r
<1>1. PICK w : w = [pc |-> s, at |-> n]
  OBVIOUS
<1>2. w \in [pc : SeedSteps, at : 1 .. Receipt] /\ w.pc = s /\ w.at = n
  BY <1>1
<1>3. seeder' = [seeder EXCEPT ![p] = w]
  BY <1>1 DEF ToStep
<1>4. /\ seeder' \in [Seeders -> [pc : SeedSteps, at : 1 .. Receipt]]
      /\ seeder'[p].pc = s /\ seeder'[p].at = n
      /\ \A q \in Seeders : q # p => seeder'[q] = seeder[q]
  BY <1>2, <1>3 DEF SeedInv, SeedVarsOK
<1> QED BY <1>4 DEF Past, SeedInv

\* One preparation takes a step that takes nothing back.
LEMMA SeederMoves ==
    ASSUME SeedInv, Grows, NEW p \in Seeders, NEW s \in SeedSteps, NEW n \in 1 .. Receipt, ToStep(p, s, n),
           s \in {"idle", "check", "make"} \/ Past(p), SeederTrue(p)',
           target' \in [SeedGroups -> {"none", "part", "pinned", "other"}],
           entry' \in [1 .. Receipt -> {"none", "intent", "created", "failed"}],
           ~rootMade' => \A g \in 1 .. Receipt : entry'[g] = "none",
           UNCHANGED <<source, rootMade, verifier, vouched, drifted>>
    PROVE  SeedInv'
<1>1. \A q \in Seeders : SeederTrue(q)'
  <2>1. SUFFICES ASSUME NEW q \in Seeders, q # p PROVE SeederTrue(q)'
    OBVIOUS
  <2> QED BY <2>1, ToStepIs, SeederKept
<1>2. SeedVarsOK'
  BY ToStepIs DEF SeedInv, SeedVarsOK, Grows
<1>3. \A q, r \in Seeders : Past(q)' /\ Past(r)' => q = r
  BY ToStepIs
<1> QED BY <1>1, <1>2, <1>3, LedgerKept DEF SeedInv, SeedTrue, Grows

\* A preparation that gives up, or has not made anything yet, has nothing to answer for.
LEMMA AtRestTrue ==
    ASSUME NEW p \in Seeders, seeder'[p].pc \in {"idle", "check", "make"}
    PROVE  SeederTrue(p)'
  BY DEF SeederTrue, Past, Writing

LEMMA ChecksSeed ==
    ASSUME SeedInv, NEW p \in Seeders, SeedEnds(p) \/ CheckSource(p)
    PROVE  SeedInv'
<1>1. UNCHANGED <<source, rootMade, target, entry, receipt, verifier, vouched, drifted>>
  BY DEF SeedEnds, CheckSource
<1>2. seeder[p].at \in 1 .. Receipt
  BY DEF SeedInv, SeedVarsOK
<1>3. PICK s \in {"idle", "check", "make"}, n \in 1 .. Receipt : ToStep(p, s, n)
  <2>1. CASE GivesUp(p)
    BY <2>1, GroupsAre DEF GivesUp
  <2>2. CASE ~GivesUp(p)
    BY <1>2, <2>2, GroupsAre DEF SeedEnds, CheckSource, SeedGroups
  <2> QED BY <2>1, <2>2
<1>4. s \in SeedSteps /\ seeder'[p].pc = s
  BY <1>3, ToStepIs DEF SeedSteps
<1>5. Grows
  BY <1>1 DEF Grows, Copied
<1> QED BY <1>1, <1>3, <1>4, <1>5, AtRestTrue, SeederMoves DEF SeedInv, SeedVarsOK

LEMMA MakeRootKeeps ==
    ASSUME SeedInv, NEW p \in Seeders, MakeRoot(p)
    PROVE  SeedInv'
<1>1. rootMade' = TRUE /\ UNCHANGED <<source, target, entry, receipt, verifier, vouched, drifted>> /\ seeder[p].pc = "make"
  BY DEF MakeRoot
<1>2. PICK s \in {"idle", "intent"} : ToStep(p, s, 1) /\ (s = "intent" => ~rootMade)
  BY DEF MakeRoot, GivesUp
<1>3. /\ seeder' \in [Seeders -> [pc : SeedSteps, at : 1 .. Receipt]] /\ seeder'[p].pc = s /\ seeder'[p].at = 1
      /\ \A q \in Seeders : q # p => seeder'[q] = seeder[q]
  BY <1>2, ToStepIs, GroupsAre DEF SeedSteps
<1>4. Grows
  BY <1>1 DEF Grows, Copied
<1>5. SeederTrue(p)'
  <2>1. CASE s = "idle"
    BY <1>3, <2>1, AtRestTrue
  <2>2. CASE s = "intent"
    <3>1. receipt' = "none" /\ \A g \in 1 .. Receipt : entry'[g] = "none"
      BY <1>1, <1>2, <2>2 DEF SeedInv
    <3>2. DoneTo(1)' /\ NotFrom(1)'
      BY <3>1, SeedAssumption DEF DoneTo, SeedGroups, NotFrom
    <3> QED BY <1>1, <1>3, <2>2, <3>1, <3>2, GroupsAre DEF SeederTrue, Past, Writing
  <2> QED BY <2>1, <2>2
<1>6. \A q \in Seeders : SeederTrue(q)'
  <2>1. SUFFICES ASSUME NEW q \in Seeders, q # p PROVE SeederTrue(q)'
    BY <1>5
  <2> QED BY <1>3, <1>4, <2>1, SeederKept
<1>7. \A q, r \in Seeders : Past(q)' /\ Past(r)' => q = r
  <2>1. s = "intent" => \A q \in Seeders : ~Past(q)
    BY <1>2 DEF SeedInv, SeederTrue
  <2> QED BY <1>1, <1>2, <1>3, <2>1 DEF Past, SeedInv
<1>8. SeedVarsOK'
  BY <1>1, <1>3 DEF SeedInv, SeedVarsOK
<1> QED BY <1>1, <1>4, <1>6, <1>7, <1>8, LedgerKept DEF SeedInv, SeedTrue

\* What is known of a preparation that writes.
LEMMA WriterIs ==
    ASSUME SeedInv, NEW p \in Seeders, Writing(p)
    PROVE  /\ Past(p) /\ rootMade /\ seeder[p].at \in 1 .. Receipt /\ DoneTo(seeder[p].at)
           /\ NotFrom(seeder[p].at) /\ entry[seeder[p].at] # "created" /\ (seeder[p].at # Receipt => receipt = "none")
           /\ ~LedgerWhole /\ ~vouched /\ verifier = "ledger"
           /\ \A q \in Seeders : Past(q) => q = p
<1>1. /\ Past(p) /\ rootMade /\ seeder[p].at \in 1 .. Receipt /\ DoneTo(seeder[p].at)
      /\ NotFrom(seeder[p].at) /\ (seeder[p].at # Receipt => receipt = "none")
  BY DEF SeedInv, SeedVarsOK, SeederTrue, Writing, Past
<1>2. entry[seeder[p].at] # "created" /\ ~LedgerWhole
  BY <1>1, GroupsAre DEF LedgerWhole, NotFrom
<1> QED BY <1>1, <1>2 DEF SeedInv, SeedVarsOK, SeedTrue, VouchedStays

LEMMA IntentKeeps ==
    ASSUME SeedInv, NEW p \in Seeders, SeedIntent(p) \/ MarkFailed(p)
    PROVE  SeedInv'
<1>1. PICK g \in 1 .. Receipt : g = seeder[p].at
  BY DEF SeedInv, SeedVarsOK
<1>2. /\ UNCHANGED <<source, rootMade, target, receipt, verifier, vouched, drifted>>
      /\ seeder[p].pc \in {"intent", "fail"} /\ Writing(p)
  BY DEF SeedIntent, MarkFailed, Writing
<1>3. PICK m \in {"intent", "failed"} : entry' = [entry EXCEPT ![g] = m]
  BY <1>1 DEF SeedIntent, MarkFailed
<1>4. /\ entry' \in [1 .. Receipt -> {"none", "intent", "created", "failed"}]
      /\ entry[g] # "created" /\ entry'[g] # "created" /\ \A h \in 1 .. Receipt : h # g => entry'[h] = entry[h]
  BY <1>1, <1>2, <1>3, WriterIs DEF SeedInv, SeedVarsOK
<1>5. Grows
  BY <1>2, <1>4 DEF Grows, Copied
<1>6. CASE SeedIntent(p)
  <2>1. ToStep(p, "copy", g) /\ seeder[p].pc = "intent"
    BY <1>1, <1>6 DEF SeedIntent
  <2>2. seeder'[p].pc = "copy" /\ seeder'[p].at = g
    BY <2>1, ToStepIs DEF SeedSteps
  <2>3. DoneTo(g)' /\ NotFrom(g)'
    BY <1>1, <1>2, <1>5, WriterIs, GroupsAre DEF DoneTo, NotFrom, Grows
  <2>4. SeederTrue(p)'
    BY <1>1, <1>2, <1>4, <2>2, <2>3, WriterIs DEF SeederTrue, Past, Writing
  <2> QED BY <1>2, <1>4, <1>5, <2>1, <2>4, SeederMoves, WriterIs DEF SeedSteps, SeedInv, SeedVarsOK
<1>7. CASE MarkFailed(p)
  <2>1. ToStep(p, "idle", 1)
    BY <1>7 DEF MarkFailed, GivesUp
  <2>2. SeederTrue(p)'
    BY <2>1, ToStepIs, GroupsAre, AtRestTrue DEF SeedSteps
  <2> QED BY <1>2, <1>4, <1>5, <2>1, <2>2, SeederMoves, WriterIs, GroupsAre DEF SeedSteps, SeedInv, SeedVarsOK
<1> QED BY <1>6, <1>7

LEMMA CopyKeeps ==
    ASSUME SeedInv, NEW p \in Seeders, CopyGroup(p) \/ ReadGroup(p)
    PROVE  SeedInv'
<1>1. PICK g \in 1 .. Receipt : g = seeder[p].at
  BY DEF SeedInv, SeedVarsOK
<1>2. /\ UNCHANGED <<source, rootMade, entry, receipt, verifier, vouched, drifted>>
      /\ seeder[p].pc \in {"copy", "readback"} /\ Writing(p) /\ g \in SeedGroups
  <2>1. seeder[p].pc = "readback" => g # Receipt
    BY <1>1 DEF SeedInv, SeederTrue, Writing
  <2> QED BY <1>1, <2>1, GroupsAre DEF CopyGroup, ReadGroup, Writing
<1>3. PICK s \in {"readback", "mark", "fail"} : ToStep(p, s, g) /\ (s # "fail" => target'[g] = "pinned")
  BY <1>1, <1>2 DEF CopyGroup, ReadGroup, Pins, SeedInv, SeedVarsOK
<1>4. /\ target' \in [SeedGroups -> {"none", "part", "pinned", "other"}]
      /\ \A h \in SeedGroups : Copied(h) => Copied(h)'
  <2>1. CASE target' = target
    BY <1>2, <2>1 DEF SeedInv, SeedVarsOK, Copied
  <2>2. CASE target' # target
    <3>1. PICK b \in {"part", "pinned", "other"} : target' = [target EXCEPT ![g] = b] /\ target[g] = "none"
      BY <1>1, <1>2, <2>2 DEF CopyGroup, ReadGroup, SeedInv, SeedVarsOK
    <3> QED BY <1>2, <3>1 DEF SeedInv, SeedVarsOK, Copied
  <2> QED BY <2>1, <2>2
<1>5. s # "fail" => Copied(g)'
  BY <1>3 DEF Copied
<1>6. Grows
  BY <1>2, <1>4 DEF Grows
<1>7. DoneTo(g)' /\ NotFrom(g)'
  BY <1>1, <1>2, <1>6, WriterIs, GroupsAre DEF DoneTo, NotFrom, Grows
<1>8. seeder'[p].pc = s /\ seeder'[p].at = g
  BY <1>3, ToStepIs DEF SeedSteps
<1>9. SeederTrue(p)'
  BY <1>1, <1>2, <1>5, <1>7, <1>8, WriterIs, GroupsAre DEF SeederTrue, Past, Writing
<1>10. s \in SeedSteps /\ Past(p) /\ rootMade /\ entry' \in [1 .. Receipt -> {"none", "intent", "created", "failed"}]
  BY <1>2, WriterIs DEF SeedSteps, SeedInv, SeedVarsOK
<1> QED BY <1>2, <1>3, <1>4, <1>6, <1>9, <1>10, SeederMoves

\* The receipt is written when every group is done, by the one preparation.
LEMMA ReceiptKeeps ==
    ASSUME SeedInv, NEW p \in Seeders, WriteReceipt(p)
    PROVE  SeedInv'
<1>1. /\ UNCHANGED <<source, rootMade, target, entry, verifier, vouched, drifted>>
      /\ seeder[p].pc = "copy" /\ seeder[p].at = Receipt /\ Writing(p)
  BY DEF WriteReceipt, Writing
<1>2. PICK s \in {"mark", "fail"} : ToStep(p, s, Receipt) /\ (s = "mark" => receipt' = "whole")
  BY DEF WriteReceipt
<1>3. receipt' \in {"none", "part", "whole"}
  BY DEF WriteReceipt, SeedInv, SeedVarsOK
<1>4. /\ seeder' \in [Seeders -> [pc : SeedSteps, at : 1 .. Receipt]] /\ seeder'[p].pc = s /\ seeder'[p].at = Receipt
      /\ \A q \in Seeders : q # p => seeder'[q] = seeder[q]
      /\ \A q, r \in Seeders : Past(q)' /\ Past(r)' => q = r
  BY <1>1, <1>2, ToStepIs, GroupsAre, WriterIs DEF SeedSteps
<1>5. DoneTo(Receipt)' /\ NotFrom(Receipt)'
  BY <1>1, WriterIs DEF DoneTo, NotFrom, Copied
<1>6. SeederTrue(p)'
  BY <1>1, <1>2, <1>4, <1>5, WriterIs DEF SeederTrue, Past, Writing
<1>7. \A q \in Seeders : q # p => SeederTrue(q)'
  BY <1>1, <1>4, WriterIs DEF SeederTrue, Past, Writing
<1>8. ReceiptTrue' /\ VouchedStays'
  BY <1>1, <1>5, WriterIs, GroupsAre DEF ReceiptTrue, VouchedStays, DoneTo, Copied
<1>9. SeedVarsOK'
  BY <1>1, <1>3, <1>4 DEF SeedInv, SeedVarsOK
<1> QED BY <1>1, <1>4, <1>6, <1>7, <1>8, <1>9, WriterIs DEF SeedInv, SeedTrue

LEMMA MarkKeeps ==
    ASSUME SeedInv, NEW p \in Seeders, MarkCreated(p)
    PROVE  SeedInv'
<1>1. PICK g \in 1 .. Receipt : g = seeder[p].at
  BY DEF SeedInv, SeedVarsOK
<1>2. /\ UNCHANGED <<source, rootMade, target, receipt, verifier, vouched, drifted>>
      /\ seeder[p].pc = "mark" /\ Writing(p) /\ entry' = [entry EXCEPT ![g] = "created"]
  BY <1>1 DEF MarkCreated, Writing
<1>3. /\ entry' \in [1 .. Receipt -> {"none", "intent", "created", "failed"}]
      /\ entry'[g] = "created" /\ \A h \in 1 .. Receipt : h # g => entry'[h] = entry[h]
  BY <1>2 DEF SeedInv, SeedVarsOK
<1>4. IF g = Receipt THEN receipt = "whole" ELSE Copied(g)
  BY <1>1, <1>2 DEF SeedInv, SeederTrue
<1>5. PICK s \in {"intent", "ledger"}, n \in 1 .. Receipt :
         /\ ToStep(p, s, n)
         /\ IF g = Receipt THEN s = "ledger" ELSE s = "intent" /\ n = g + 1
  BY <1>1, GroupsAre DEF MarkCreated
<1>6. /\ seeder' \in [Seeders -> [pc : SeedSteps, at : 1 .. Receipt]] /\ seeder'[p].pc = s /\ seeder'[p].at = n
      /\ \A q \in Seeders : q # p => seeder'[q] = seeder[q]
      /\ \A q, r \in Seeders : Past(q)' /\ Past(r)' => q = r
  BY <1>2, <1>5, ToStepIs, WriterIs DEF SeedSteps
<1>7. SeederTrue(p)'
  <2>1. CASE g = Receipt
    BY <1>2, <1>4, <1>5, <1>6, <2>1, WriterIs DEF SeederTrue, Past, Writing
  <2>2. CASE g # Receipt
    <3>1. receipt = "none" /\ rootMade
      BY <1>1, <1>2, <2>2, WriterIs
    <3>2. DoneTo(n)'
      BY <1>1, <1>2, <1>3, <1>4, <1>5, <2>2, WriterIs, GroupsAre DEF DoneTo, Copied
    <3>3. NotFrom(n)'
      BY <1>1, <1>2, <1>3, <1>5, <2>2, WriterIs, GroupsAre DEF NotFrom
    <3> QED BY <1>2, <1>5, <1>6, <2>2, <3>1, <3>2, <3>3 DEF SeederTrue, Past, Writing
  <2> QED BY <2>1, <2>2
<1>8. \A q \in Seeders : q # p => SeederTrue(q)'
  BY <1>2, <1>6, WriterIs DEF SeederTrue, Past, Writing
<1>9. ReceiptTrue' /\ VouchedStays'
  BY <1>1, <1>2, <1>3, <1>4, WriterIs, GroupsAre DEF SeedInv, SeedTrue, ReceiptTrue, VouchedStays
<1>10. SeedVarsOK'
  BY <1>2, <1>3, <1>6 DEF SeedInv, SeedVarsOK
<1> QED BY <1>2, <1>6, <1>7, <1>8, <1>9, <1>10, WriterIs DEF SeedInv, SeedTrue

\* verifyPrepared goes on to "receipt" past a whole ledger only, to "targets" past a whole
\* receipt, and vouches at the last.
LEMMA VerdictIs ==
    /\ Verdict("ledger") = IF LedgerWhole THEN "receipt" ELSE "refused"
    /\ Verdict("receipt") = IF receipt = "whole" THEN "targets" ELSE "refused"
    /\ Verdict("targets") = IF FilesWhole THEN "vouched" ELSE "refused"
  BY DEF Verdict

LEMMA VerifiesKeep ==
    ASSUME SeedInv, VerifyPrepared \/ \E p \in Seeders : VerifyOwn(p)
    PROVE  SeedInv'
<1>1. UNCHANGED <<source, rootMade, target, entry, receipt, drifted>>
  BY DEF VerifyPrepared, VerifyOwn
<1>2. Grows
  BY <1>1 DEF Grows, Copied
<1>3. CASE VerifyPrepared
  <2>1. seeder' = seeder /\ verifier \in {"ledger", "receipt", "targets"}
    BY <1>3 DEF VerifyPrepared, SeedInv, SeedVarsOK
  <2>2. PICK v : v = Verdict(verifier)
    OBVIOUS
  <2>3. /\ verifier' = (IF v \in Settled THEN "ledger" ELSE v) /\ vouched' = (vouched \/ v = "vouched")
    BY <1>3, <2>2 DEF VerifyPrepared
  <2>4. /\ v \in {"receipt", "targets", "refused", "vouched"}
        /\ v # "refused" => LedgerWhole
        /\ v \in {"targets", "vouched"} => receipt = "whole"
    BY <2>1, <2>2, VerdictIs DEF SeedInv
  <2>5. SeedVarsOK'
    BY <1>1, <2>1, <2>3, <2>4 DEF SeedInv, SeedVarsOK, Settled
  <2>6. \A p \in Seeders : SeederTrue(p)'
    BY <1>2, <2>1, SeederKept
  <2>7. VouchedStays'
    BY <1>1, <2>3, <2>4 DEF SeedInv, SeedTrue, VouchedStays, LedgerWhole
  <2>8. /\ verifier' \in {"receipt", "targets"} => LedgerWhole'
        /\ verifier' = "targets" => receipt' = "whole"
    BY <1>1, <2>3, <2>4 DEF Settled, LedgerWhole
  <2>9. \A p, q \in Seeders : Past(p)' /\ Past(q)' => p = q
    BY <2>1 DEF SeedInv, Past
  <2> QED BY <1>1, <1>2, <2>5, <2>6, <2>7, <2>8, <2>9, LedgerKept DEF SeedInv, SeedTrue
<1>4. ASSUME NEW p \in Seeders, VerifyOwn(p) PROVE SeedInv'
  <2>1. verifier' = verifier /\ seeder[p].pc \in {"ledger", "receipt", "targets"} /\ Past(p)
    BY <1>4 DEF VerifyOwn, Past
  <2>2. PICK v : v = Verdict(seeder[p].pc)
    OBVIOUS
  <2>3. PICK s : s = IF v \in Settled THEN "idle" ELSE v
    OBVIOUS
  <2>4. ToStep(p, s, 1) /\ vouched' = (vouched \/ v = "vouched")
    BY <1>4, <2>2, <2>3 DEF VerifyOwn
  <2>5. /\ v \in {"receipt", "targets", "refused", "vouched"}
        /\ v # "refused" => LedgerWhole
        /\ v \in {"targets", "vouched"} => receipt = "whole"
    BY <2>1, <2>2, VerdictIs DEF SeedInv, SeederTrue
  <2>6. s \in {"idle", "receipt", "targets"} /\ (s # "idle" => LedgerWhole) /\ (s = "targets" => receipt = "whole")
    BY <2>3, <2>5 DEF Settled
  <2>7. /\ seeder' \in [Seeders -> [pc : SeedSteps, at : 1 .. Receipt]] /\ seeder'[p].pc = s
        /\ \A q \in Seeders : q # p => seeder'[q] = seeder[q]
        /\ \A q, r \in Seeders : Past(q)' /\ Past(r)' => q = r
    BY <2>1, <2>4, <2>6, ToStepIs, GroupsAre DEF SeedSteps
  <2>8. SeederTrue(p)'
    <3>1. rootMade
      BY <2>1 DEF SeedInv, SeederTrue
    <3> QED BY <1>1, <2>6, <2>7, <3>1 DEF SeederTrue, Past, Writing, LedgerWhole
  <2>9. \A q \in Seeders : q # p => SeederTrue(q)'
    BY <1>2, <2>7, SeederKept
  <2>10. VouchedStays'
    BY <1>1, <2>4, <2>5 DEF SeedInv, SeedTrue, VouchedStays, LedgerWhole
  <2>11. SeedVarsOK'
    BY <1>1, <2>1, <2>4, <2>7 DEF SeedInv, SeedVarsOK
  <2> QED BY <1>1, <1>2, <2>1, <2>7, <2>8, <2>9, <2>10, <2>11, LedgerKept DEF SeedInv, SeedTrue
<1> QED BY <1>3, <1>4

LEMMA SeedStepKeeps ==
    ASSUME SeedInv, SeedNext \/ UNCHANGED seedVars
    PROVE  SeedInv'
<1>1. CASE UNCHANGED seedVars
  BY <1>1 DEF seedVars, SeedInv, SeedVarsOK, SeedTrue, ReceiptTrue, VouchedStays, SeederTrue, Past, Writing, LedgerWhole,
     DoneTo, NotFrom, Copied
<1>2. CASE SeedNext
  BY <1>2, VerifiesKeep, HandsKeep, ChecksSeed, MakeRootKeeps, IntentKeeps, CopyKeeps, ReceiptKeeps, MarkKeeps DEF SeedNext
<1> QED BY <1>1, <1>2

LEMMA SeedInitTrue == ASSUME SeedInit PROVE SeedInv
<1>1. \A p \in Seeders : seeder[p].pc = "check"
  BY DEF SeedInit
<1>2. SeedVarsOK
  <2>1. seeder \in [Seeders -> [pc : SeedSteps, at : 1 .. Receipt]]
    BY GroupsAre DEF SeedInit, SeedSteps
  <2> QED BY <2>1 DEF SeedInit, SeedVarsOK
<1> QED BY <1>1, <1>2 DEF SeedInit, SeedInv, SeedTrue, ReceiptTrue, VouchedStays, SeederTrue, Past, Writing

(******************************** the release feed ***********************************)
KeeperSteps == Publishing \cup {"idle", "intend", "seed", "public", "lock", "check", "sign", "retain", "publish",
                                "release", "pend", "link", "unpend"}
\* Steps with the issuance lock, and after the intent, the signature and the attestation.
Locked == Publishing \cup {"check", "sign", "retain", "publish", "release"}
Retained == Publishing \cup {"publish", "release"}

Entries == [policy : Policies, whole : BOOLEAN]
FeedVarsOK ==
    /\ keyFile \in [Homes -> [intent : BOOLEAN, seed : Nat, public : Nat]]
    /\ issuing \subseteq Homes /\ publication \in BOOLEAN
    /\ intended \in [Homes -> SUBSET Nat] /\ attestations \in [Homes -> SUBSET Policies]
    /\ pending \in [Homes -> SUBSET Entries] /\ feed \in [Homes -> SUBSET Entries]
    /\ trust \in [pending : Nat, exported : Nat] /\ keeperRuns \in Nat
    /\ signatures \in [Homes -> Seq([policy : Policies, key : Nat])]
    /\ keeper \in [Keepers -> [pc : KeeperSteps, home : Homes, policy : Policies \cup {NoPolicy}, key : Nat]]

Signed(h, p) == \E i \in DOMAIN signatures[h] : signatures[h][i].policy = p

\* A command that issues holds its home's lock alone, and the publication's from the stage on.
LocksTrue ==
    /\ \A k \in Keepers : keeper[k].pc \in Locked => keeper[k].home \in issuing
    /\ \A k, l \in Keepers : keeper[k].pc \in Locked /\ keeper[l].pc \in Locked /\ keeper[k].home = keeper[l].home => k = l
    /\ \A k \in Keepers : keeper[k].pc \in Publishing => publication
    /\ OnePublisher

\* What each command has done by its step.
KeeperTrue(k) ==
    LET h == keeper[k].home
        p == keeper[k].policy
    IN  /\ keeper[k].pc \in Locked \cup {"lock"} => p \in Policies
        /\ keeper[k].pc = "sign" => p.seq \in intended[h] /\ \A i \in DOMAIN signatures[h] : signatures[h][i].policy.seq < p.seq
        /\ keeper[k].pc = "retain" => Signed(h, p)
        /\ keeper[k].pc \in Retained => p \in attestations[h]
        /\ keeper[k].pc = "rename" => \A e \in pending[h] : e.policy = p => e.whole

\* A home's files: what is signed was intended, under the one seed; what is retained was
\* signed, and what is published was retained.
HomeTrue(h) ==
    /\ \A i \in DOMAIN signatures[h] : /\ signatures[h][i].policy.seq \in intended[h]
                                       /\ signatures[h][i].key = keyFile[h].seed /\ keyFile[h].seed # 0
    /\ \A i, j \in DOMAIN signatures[h] : i < j => signatures[h][i].policy.seq < signatures[h][j].policy.seq
    /\ \A r \in attestations[h] : Signed(h, r)
    /\ \A e \in feed[h] : e.whole /\ e.policy \in attestations[h]

TrustTrue ==
    /\ trust.pending # 0 => trust.pending = keyFile["production"].seed
    /\ trust.exported # 0 => trust.exported = keyFile["production"].seed

FeedInv ==
    /\ FeedVarsOK /\ LocksTrue /\ TrustTrue
    /\ \A k \in Keepers : KeeperTrue(k)
    /\ \A h \in Homes : HomeTrue(h)

\* A command's record, and where it goes next.
KeeperRecs == [pc : KeeperSteps, home : Homes, policy : Policies \cup {NoPolicy}, key : Nat]

LEMMA AwayIs == Away \in KeeperRecs /\ Away.pc = "idle"
  BY DEF Away, KeeperRecs, KeeperSteps, Homes

LEMMA KeeperIs ==
    ASSUME FeedInv, NEW k \in Keepers
    PROVE  /\ keeper[k] \in KeeperRecs /\ keeper[k].home \in Homes /\ KeeperTrue(k)
           /\ (keeper[k].pc \in Locked \cup {"lock"} => keeper[k].policy \in Policies)
           /\ \A p \in Policies : p.seq \in Nat
<1>1. keeper[k] \in KeeperRecs /\ KeeperTrue(k)
  BY DEF FeedInv, FeedVarsOK, KeeperRecs
<1>2. \A p \in Policies : p.seq \in Nat
  BY FeedAssumption DEF Policies
<1> QED BY <1>1, <1>2 DEF KeeperRecs, KeeperTrue

\* The step of one command: the others are as they were.
OneMoves(k, w) ==
    /\ keeper' = [keeper EXCEPT ![k] = w]
    /\ w \in KeeperRecs

LEMMA OneMovesIs ==
    ASSUME FeedInv, NEW k \in Keepers, NEW w, OneMoves(k, w)
    PROVE  /\ keeper' \in [Keepers -> KeeperRecs] /\ keeper'[k] = w
           /\ \A l \in Keepers : l # k => keeper'[l] = keeper[l]
  BY DEF OneMoves, FeedInv, FeedVarsOK, KeeperRecs

LEMMA EndsMove ==
    ASSUME FeedInv, NEW k \in Keepers, KeeperEnds(k)
    PROVE  OneMoves(k, Away)
  BY AwayIs DEF KeeperEnds, OneMoves

LEMMA ToMoves ==
    ASSUME FeedInv, NEW k \in Keepers, NEW s \in KeeperSteps, KeeperTo(k, s)
    PROVE  \E w : /\ OneMoves(k, w) /\ w.pc = s /\ w.home = keeper[k].home
                  /\ w.policy = keeper[k].policy /\ w.key = keeper[k].key
<1>1. keeper[k] \in KeeperRecs
  BY KeeperIs
<1>2. PICK w : w = [keeper[k] EXCEPT !.pc = s]
  OBVIOUS
<1>3. w \in KeeperRecs /\ w.pc = s /\ w.home = keeper[k].home /\ w.policy = keeper[k].policy /\ w.key = keeper[k].key
  BY <1>1, <1>2 DEF KeeperRecs
<1>4. keeper' = [keeper EXCEPT ![k] = w]
  BY <1>2 DEF KeeperTo
<1> QED BY <1>3, <1>4 DEF OneMoves

\* What is said of homes stays true while files are only added to.
Adds ==
    /\ issuing' \subseteq Homes /\ publication' \in BOOLEAN /\ keeperRuns' \in Nat
    /\ keyFile' \in [Homes -> [intent : BOOLEAN, seed : Nat, public : Nat]]
    /\ intended' \in [Homes -> SUBSET Nat] /\ attestations' \in [Homes -> SUBSET Policies]
    /\ pending' \in [Homes -> SUBSET Entries] /\ feed' \in [Homes -> SUBSET Entries]
    /\ trust' \in [pending : Nat, exported : Nat]
    /\ signatures' \in [Homes -> Seq([policy : Policies, key : Nat])]

\* The locks stay true when a command that newly holds one found it free.
LEMMA LocksMove ==
    ASSUME FeedInv, NEW k \in Keepers, NEW w, OneMoves(k, w), w.pc \in Locked => w.home = keeper[k].home,
           IF w.pc \in Locked
             THEN IF keeper[k].pc \in Locked THEN issuing' = issuing ELSE w.home \notin issuing /\ issuing' = issuing \cup {w.home}
             ELSE issuing' = issuing \/ (keeper[k].pc \in Locked /\ issuing' = issuing \ {keeper[k].home}),
           IF w.pc \in Publishing
             THEN IF keeper[k].pc \in Publishing THEN publication' = publication ELSE ~publication /\ publication' = TRUE
             ELSE publication' = publication \/ keeper[k].pc \in Publishing
    PROVE  LocksTrue'
<1>1. /\ keeper'[k] = w /\ \A l \in Keepers : l # k => keeper'[l] = keeper[l]
  BY OneMovesIs
<1>2. LocksTrue
  BY DEF FeedInv
<1>3. \A l \in Keepers : keeper'[l].pc \in Locked => keeper'[l].home \in issuing'
  BY <1>1, <1>2 DEF LocksTrue
<1>4. \A l, m \in Keepers : keeper'[l].pc \in Locked /\ keeper'[m].pc \in Locked /\ keeper'[l].home = keeper'[m].home => l = m
  BY <1>1, <1>2 DEF LocksTrue
<1>5. \A l \in Keepers : keeper'[l].pc \in Publishing => publication'
  BY <1>1, <1>2 DEF LocksTrue, OnePublisher
<1>6. OnePublisher'
  BY <1>1, <1>2 DEF LocksTrue, OnePublisher
<1> QED BY <1>3, <1>4, <1>5, <1>6 DEF LocksTrue

\* Nothing another command relies on is taken from it.
Monotone(k) ==
    /\ \A h \in Homes : intended[h] \subseteq intended'[h] /\ attestations[h] \subseteq attestations'[h]
    /\ \A h \in Homes : \A p \in Policies : Signed(h, p) => Signed(h, p)'
    /\ \A h \in Homes : (h # keeper[k].home \/ keeper[k].pc \notin Locked) => signatures'[h] = signatures[h]
    /\ keeper[k].pc \notin Publishing => pending' = pending

LEMMA OthersTrue ==
    ASSUME FeedInv, NEW k \in Keepers, Monotone(k), NEW l \in Keepers, l # k, keeper'[l] = keeper[l]
    PROVE  KeeperTrue(l)'
<1>1. KeeperTrue(l) /\ keeper[l].home \in Homes /\ (keeper[l].pc \in Locked \cup {"lock"} => keeper[l].policy \in Policies)
  BY KeeperIs
<1>2. keeper[l].pc \in Locked => signatures'[keeper[l].home] = signatures[keeper[l].home]
  BY <1>1 DEF Monotone, FeedInv, LocksTrue
<1>3. keeper[l].pc = "rename" => pending' = pending
  BY DEF Monotone, FeedInv, LocksTrue, OnePublisher, Publishing
<1>4. keeper[l].pc = "sign" => keeper[l].pc \in Locked
  BY DEF Locked
<1>5. keeper[l].pc = "retain" => keeper[l].pc \in Locked
  BY DEF Locked
<1> QED BY <1>1, <1>2, <1>3, <1>4, <1>5 DEF KeeperTrue, Monotone

LEMMA MoveKeeps ==
    ASSUME FeedInv, NEW k \in Keepers, NEW w, OneMoves(k, w), Adds, Monotone(k), LocksTrue', KeeperTrue(k)',
           \A h \in Homes : HomeTrue(h)', TrustTrue'
    PROVE  FeedInv'
<1>1. keeper' \in [Keepers -> KeeperRecs] /\ \A l \in Keepers : l # k => keeper'[l] = keeper[l]
  BY OneMovesIs
<1>2. \A l \in Keepers : KeeperTrue(l)'
  BY <1>1, OthersTrue
<1>3. FeedVarsOK'
  BY <1>1 DEF FeedVarsOK, Adds, KeeperRecs
<1> QED BY <1>2, <1>3 DEF FeedInv

\* The homes' files are true while they are left alone.
LEMMA HomesKept ==
    ASSUME FeedInv, UNCHANGED <<keyFile, intended, attestations, signatures, feed>>
    PROVE  \A h \in Homes : HomeTrue(h)'
  BY DEF FeedInv, HomeTrue, Signed

LEMMA FilesAlone ==
    ASSUME FeedInv, UNCHANGED <<keyFile, intended, attestations, signatures, feed, trust>>, keeperRuns' \in Nat,
           issuing' \subseteq Homes, publication' \in BOOLEAN, pending' = pending, NEW k \in Keepers
    PROVE  Adds /\ Monotone(k) /\ (\A h \in Homes : HomeTrue(h)') /\ TrustTrue'
<1>1. Adds
  BY DEF FeedInv, FeedVarsOK, Adds
<1>2. Monotone(k)
  BY DEF Monotone, Signed
<1>3. TrustTrue'
  BY DEF FeedInv, TrustTrue
<1> QED BY <1>1, <1>2, <1>3, HomesKept

\* A command ends, and leaves what it has made.
LEMMA AwayTrue ==
    ASSUME NEW k \in Keepers, keeper'[k].pc \notin Locked \cup {"lock"}
    PROVE  KeeperTrue(k)'
  BY DEF KeeperTrue, Locked, Retained, Publishing

LEMMA EndsKeep ==
    ASSUME FeedInv, NEW k \in Keepers, KeeperEnds(k), UNCHANGED <<keyFile, custody, lanes, trust, keeperRuns>>
    PROVE  FeedInv'
<1>1. OneMoves(k, Away)
  BY EndsMove
<1>2. keeper'[k] = Away /\ Away.pc \notin Locked \cup {"lock"} /\ Away.pc \notin Publishing
  BY <1>1, OneMovesIs, AwayIs DEF Locked, Publishing
<1>3. UNCHANGED <<keyFile, intended, attestations, signatures, feed, trust, issuing, publication, pending, keeperRuns>>
  BY DEF custody, lanes
<1>4. Adds /\ Monotone(k) /\ (\A h \in Homes : HomeTrue(h)') /\ TrustTrue'
  BY <1>3, FilesAlone DEF FeedInv, FeedVarsOK
<1>5. LocksTrue'
  BY <1>1, <1>2, <1>3, LocksMove
<1> QED BY <1>1, <1>2, <1>4, <1>5, AwayTrue, MoveKeeps

LEMMA BeginKeeps ==
    ASSUME FeedInv, NEW k \in Keepers, NEW s \in {"intend", "lock", "pend"}, NEW h \in Homes, NEW p \in Policies \cup {NoPolicy},
           s = "lock" => p \in Policies, Begins(k, s, h, p)
    PROVE  FeedInv'
<1>1. PICK w : w = [pc |-> s, home |-> h, policy |-> p, key |-> 0]
  OBVIOUS
<1>2. w \in KeeperRecs /\ w.pc = s /\ w.policy = p
  BY <1>1 DEF KeeperRecs, KeeperSteps
<1>3. OneMoves(k, w)
  BY <1>1, <1>2 DEF Begins, OneMoves
<1>4. keeper'[k] = w /\ w.pc \notin Locked /\ w.pc \notin Publishing /\ keeper[k].pc \notin Publishing
  BY <1>2, <1>3, OneMovesIs DEF Locked, Publishing, Begins, KeeperAt
<1>5. UNCHANGED <<keyFile, intended, attestations, signatures, feed, trust, issuing, publication, pending>> /\ keeperRuns' \in Nat
  BY DEF Begins, custody, lanes, FeedInv, FeedVarsOK
<1>6. Adds /\ Monotone(k) /\ (\A g \in Homes : HomeTrue(g)') /\ TrustTrue'
  BY <1>5, FilesAlone DEF FeedInv, FeedVarsOK
<1>7. LocksTrue'
  BY <1>3, <1>4, <1>5, LocksMove
<1>8. KeeperTrue(k)'
  BY <1>2, <1>4 DEF KeeperTrue, Locked, Retained, Publishing
<1> QED BY <1>3, <1>6, <1>7, <1>8, MoveKeeps

\* A command outside the locks goes to a step outside them.
LEMMA FreeMoves ==
    ASSUME FeedInv, NEW k \in Keepers, NEW w, OneMoves(k, w), keeper[k].pc \notin Locked, w.pc \notin Locked \cup {"lock"},
           UNCHANGED <<issuing, publication>>
    PROVE  LocksTrue' /\ KeeperTrue(k)'
<1>1. keeper'[k] = w /\ w.pc \notin Publishing /\ keeper[k].pc \notin Publishing
  BY OneMovesIs DEF Locked
<1> QED BY <1>1, LocksMove, AwayTrue

\* A seed is written once; nothing is signed or trusted before.
LEMMA KeysKeep ==
    ASSUME FeedInv, NEW k \in Keepers, NEW w, OneMoves(k, w), NEW h \in Homes, NEW f,
           f \in [intent : BOOLEAN, seed : Nat, public : Nat], keyFile' = [keyFile EXCEPT ![h] = f],
           keyFile[h].seed # 0 => f.seed = keyFile[h].seed,
           keeper[k].pc \notin Locked, w.pc \notin Locked \cup {"lock"},
           UNCHANGED <<custody, lanes, trust, keeperRuns>>
    PROVE  FeedInv'
<1>1. UNCHANGED <<intended, attestations, signatures, feed, trust, issuing, publication, pending, keeperRuns>>
  BY DEF custody, lanes
<1>2. /\ keyFile' \in [Homes -> [intent : BOOLEAN, seed : Nat, public : Nat]]
      /\ \A g \in Homes : keyFile[g].seed # 0 => keyFile'[g].seed = keyFile[g].seed
  BY DEF FeedInv, FeedVarsOK
<1>3. Adds
  BY <1>1, <1>2 DEF FeedInv, FeedVarsOK, Adds
<1>4. Monotone(k)
  BY <1>1 DEF Monotone, Signed
<1>5. ASSUME NEW g \in Homes PROVE HomeTrue(g)'
  BY <1>1, <1>2 DEF FeedInv, HomeTrue, Signed
<1>6. TrustTrue'
  BY <1>1, <1>2 DEF FeedInv, TrustTrue, Homes
<1>7. LocksTrue' /\ KeeperTrue(k)'
  BY <1>1, FreeMoves
<1> QED BY <1>3, <1>4, <1>5, <1>6, <1>7, MoveKeeps

LEMMA GenerateKeeps ==
    ASSUME FeedInv, NEW k \in Keepers, GenerationIntent(k) \/ WriteSeed(k) \/ WritePublic(k)
    PROVE  FeedInv'
<1>1. PICK h \in Homes : h = keeper[k].home
  BY KeeperIs
<1>2. UNCHANGED <<custody, lanes, trust, keeperRuns>> /\ keeper[k].pc \in {"intend", "seed", "public"}
  BY DEF GenerationIntent, WriteSeed, WritePublic, KeeperAt
<1>3. keeper[k].pc \notin Locked /\ "seed" \notin Locked \cup {"lock"} /\ "public" \notin Locked \cup {"lock"}
      /\ Away.pc \notin Locked \cup {"lock"}
  BY <1>2, AwayIs DEF Locked, Publishing
<1>4. keyFile[h] \in [intent : BOOLEAN, seed : Nat, public : Nat] /\ keeperRuns \in Nat /\ keeper[k] \in KeeperRecs
  BY KeeperIs DEF FeedInv, FeedVarsOK
<1>5. CASE keyFile' = keyFile /\ KeeperEnds(k)
  BY <1>2, <1>5, EndsKeep
<1>6. CASE GenerationIntent(k) /\ ~(keyFile' = keyFile /\ KeeperEnds(k))
  <2>1. /\ keyFile' = [keyFile EXCEPT ![h].intent = TRUE]
        /\ keeper' = [keeper EXCEPT ![k].pc = "seed", ![k].key = keeperRuns]
    BY <1>1, <1>6 DEF GenerationIntent
  <2>2. PICK f : f = [keyFile[h] EXCEPT !.intent = TRUE]
    OBVIOUS
  <2>3. f \in [intent : BOOLEAN, seed : Nat, public : Nat] /\ f.seed = keyFile[h].seed
    BY <1>4, <2>2
  <2>4. PICK w : w = [keeper[k] EXCEPT !.pc = "seed", !.key = keeperRuns]
    OBVIOUS
  <2>5. w \in KeeperRecs /\ w.pc = "seed"
    BY <1>4, <2>4 DEF KeeperRecs, KeeperSteps
  <2>6. keyFile' = [keyFile EXCEPT ![h] = f] /\ keeper' = [keeper EXCEPT ![k] = w]
    BY <2>1, <2>2, <2>4
  <2> QED BY <1>2, <1>3, <2>3, <2>5, <2>6, KeysKeep DEF OneMoves
<1>7. CASE WriteSeed(k) /\ ~(keyFile' = keyFile /\ KeeperEnds(k))
  <2>1. keyFile[h].seed = 0 /\ keyFile' = [keyFile EXCEPT ![h].seed = keeper[k].key] /\ KeeperTo(k, "public")
    BY <1>1, <1>7 DEF WriteSeed
  <2>2. PICK f : f = [keyFile[h] EXCEPT !.seed = keeper[k].key]
    OBVIOUS
  <2>3. f \in [intent : BOOLEAN, seed : Nat, public : Nat]
    BY <1>4, <2>2 DEF KeeperRecs
  <2>4. PICK w : OneMoves(k, w) /\ w.pc = "public"
    BY <2>1, ToMoves DEF KeeperSteps
  <2>5. keyFile' = [keyFile EXCEPT ![h] = f]
    BY <2>1, <2>2
  <2>6. (keyFile[h].seed # 0 => f.seed = keyFile[h].seed) /\ w.pc \notin Locked \cup {"lock"}
    BY <1>3, <2>1, <2>4
  <2> QED BY <1>2, <1>3, <2>3, <2>4, <2>5, <2>6, KeysKeep
<1>8. CASE WritePublic(k) /\ ~(keyFile' = keyFile /\ KeeperEnds(k))
  <2>1. keyFile' = [keyFile EXCEPT ![h].public = keeper[k].key] /\ KeeperEnds(k)
    BY <1>1, <1>8 DEF WritePublic
  <2>2. PICK f : f = [keyFile[h] EXCEPT !.public = keeper[k].key]
    OBVIOUS
  <2>3. f \in [intent : BOOLEAN, seed : Nat, public : Nat] /\ f.seed = keyFile[h].seed
    BY <1>4, <2>2 DEF KeeperRecs
  <2>4. OneMoves(k, Away)
    BY <2>1, EndsMove
  <2>5. keyFile' = [keyFile EXCEPT ![h] = f]
    BY <2>1, <2>2
  <2> QED BY <1>2, <1>3, <2>3, <2>4, <2>5, KeysKeep
<1> QED BY <1>5, <1>6, <1>7, <1>8

LEMMA TrustKeeps ==
    ASSUME FeedInv, NEW k \in Keepers, TrustPending(k) \/ TrustLink(k) \/ TrustDone(k)
    PROVE  FeedInv'
<1>1. UNCHANGED <<keyFile, custody, lanes, keeperRuns>> /\ keeper[k].pc \in {"pend", "link", "unpend"}
  BY DEF TrustPending, TrustLink, TrustDone, KeeperAt
<1>2. PICK w : OneMoves(k, w) /\ w.pc \in {"idle", "link", "unpend"}
  <2>1. CASE KeeperEnds(k)
    BY <2>1, EndsMove, AwayIs
  <2>2. CASE ~KeeperEnds(k)
    <3>1. PICK s \in {"link", "unpend"} : KeeperTo(k, s)
      BY <2>2 DEF TrustPending, TrustLink, TrustDone
    <3> QED BY <3>1, ToMoves DEF KeeperSteps
  <2> QED BY <2>1, <2>2
<1>3. trust \in [pending : Nat, exported : Nat] /\ keyFile["production"].public \in Nat /\ TrustTrue
  BY DEF FeedInv, FeedVarsOK, Homes
<1>4. trust' \in [pending : Nat, exported : Nat] /\ TrustTrue'
  <2>1. CASE trust' = trust
    BY <1>1, <1>3, <2>1 DEF TrustTrue
  <2>2. CASE trust' = [trust EXCEPT !.pending = 0]
    BY <1>1, <1>3, <2>2 DEF TrustTrue
  <2>3. CASE trust' = [trust EXCEPT !.exported = trust.pending]
    BY <1>1, <1>3, <2>3 DEF TrustTrue
  <2>4. CASE trust' = [trust EXCEPT !.pending = keyFile["production"].public] /\ PublicKey("production")
    BY <1>1, <1>3, <2>4 DEF TrustTrue, PublicKey
  <2> QED BY <2>1, <2>2, <2>3, <2>4 DEF TrustPending, TrustLink, TrustDone
<1>5. UNCHANGED <<keyFile, intended, attestations, signatures, feed, issuing, publication, pending, keeperRuns>>
  BY <1>1 DEF custody, lanes
<1>6. Adds
  BY <1>4, <1>5 DEF Adds, FeedInv, FeedVarsOK
<1>7. Monotone(k)
  BY <1>5 DEF Monotone, Signed
<1>8. keeper[k].pc \notin Locked /\ w.pc \notin Locked \cup {"lock"}
  BY <1>1, <1>2 DEF Locked, Publishing
<1>9. LocksTrue' /\ KeeperTrue(k)'
  BY <1>2, <1>5, <1>8, FreeMoves
<1>10. \A h \in Homes : HomeTrue(h)'
  BY <1>5, HomesKept
<1> QED BY <1>2, <1>4, <1>6, <1>7, <1>9, <1>10, MoveKeeps

\* Steps of a command with locks that change no file of the homes.
LEMMA LockKeeps ==
    ASSUME FeedInv, NEW k \in Keepers, IssuanceLock(k) \/ PublicationLock(k)
    PROVE  FeedInv'
<1>1. CASE KeeperEnds(k) /\ UNCHANGED <<issuing, publication>>
  BY <1>1, EndsKeep DEF IssuanceLock, PublicationLock, custody, lanes
<1>2. CASE ~(KeeperEnds(k) /\ UNCHANGED <<issuing, publication>>)
  <2>1. \/ /\ keeper[k].pc = "lock" /\ keeper[k].home \notin issuing /\ issuing' = issuing \cup {keeper[k].home} /\ KeeperTo(k, "check")
           /\ publication' = publication
        \/ /\ keeper[k].pc = "publish" /\ ~publication /\ publication' = TRUE /\ KeeperTo(k, "stage") /\ issuing' = issuing
    BY <1>2 DEF IssuanceLock, PublicationLock, KeeperAt, custody, lanes
  <2>2. UNCHANGED <<keyFile, intended, attestations, signatures, feed, trust, pending, keeperRuns>>
    BY DEF IssuanceLock, PublicationLock, custody, lanes
  <2>3. PICK w : /\ OneMoves(k, w) /\ w.home = keeper[k].home /\ w.policy = keeper[k].policy
                 /\ w.pc = IF keeper[k].pc = "lock" THEN "check" ELSE "stage"
    BY <2>1, ToMoves DEF KeeperSteps, Publishing
  <2>4. Adds /\ Monotone(k) /\ (\A h \in Homes : HomeTrue(h)') /\ TrustTrue'
    <3>1. keeper[k].home \in Homes
      BY KeeperIs
    <3>2. issuing' \subseteq Homes
      BY <2>1, <3>1 DEF FeedInv, FeedVarsOK
    <3>3. publication' \in BOOLEAN /\ keeperRuns' \in Nat
      BY <2>1, <2>2 DEF FeedInv, FeedVarsOK
    <3> QED BY <2>2, <3>2, <3>3, FilesAlone
  <2>5. /\ w.pc \in Locked /\ (keeper[k].pc \in Locked <=> keeper[k].pc = "publish")
        /\ (w.pc \in Publishing <=> keeper[k].pc = "publish") /\ keeper[k].pc \notin Publishing
    BY <2>1, <2>3 DEF Locked, Publishing
  <2>6. LocksTrue'
    BY <2>1, <2>3, <2>5, LocksMove
  <2>7. keeper'[k] = w /\ keeper[k].policy \in Policies /\ (keeper[k].pc = "publish" => w.policy \in attestations[w.home])
    BY <2>1, <2>3, OneMovesIs, KeeperIs DEF KeeperTrue, Retained, Locked
  <2>8. KeeperTrue(k)'
    BY <2>1, <2>2, <2>3, <2>7 DEF KeeperTrue, Retained, Publishing
  <2> QED BY <2>3, <2>4, <2>6, <2>8, MoveKeeps
<1> QED BY <1>1, <1>2

\* A sequence that exceeds every intent exceeds every signature.
LEMMA IntentKeepsFeed ==
    ASSUME FeedInv, NEW k \in Keepers, SequenceIntent(k)
    PROVE  FeedInv'
<1>1. CASE KeeperEnds(k) /\ UNCHANGED intended
  BY <1>1, EndsKeep DEF SequenceIntent, custody
<1>2. CASE ~(KeeperEnds(k) /\ UNCHANGED intended)
  <2>1. PICK h \in Homes, p \in Policies : h = keeper[k].home /\ p = keeper[k].policy
    BY KeeperIs DEF SequenceIntent, KeeperAt, Locked
  <2>2. /\ keeper[k].pc = "check" /\ Advances(h, p) /\ intended' = [intended EXCEPT ![h] = @ \cup {p.seq}] /\ KeeperTo(k, "sign")
        /\ UNCHANGED <<keyFile, issuing, attestations, publication, pending, feed, trust, signatures, keeperRuns>>
    BY <1>2, <2>1 DEF SequenceIntent, KeeperAt, lanes
  <2>3. p.seq \in Nat /\ intended \in [Homes -> SUBSET Nat]
    BY KeeperIs DEF FeedInv, FeedVarsOK
  <2>4. /\ intended' \in [Homes -> SUBSET Nat] /\ p.seq \in intended'[h]
        /\ \A g \in Homes : intended[g] \subseteq intended'[g]
    BY <2>2, <2>3
  <2>5. PICK w : OneMoves(k, w) /\ w.pc = "sign" /\ w.home = h /\ w.policy = p
    BY <2>1, <2>2, ToMoves DEF KeeperSteps
  <2>6. Adds
    BY <2>2, <2>4 DEF Adds, FeedInv, FeedVarsOK
  <2>7. Monotone(k)
    BY <2>2, <2>4 DEF Monotone, Signed
  <2>8. \A i \in DOMAIN signatures[h] : signatures[h][i].policy.seq < p.seq
    <3>1. \A i \in DOMAIN signatures[h] : signatures[h][i].policy.seq \in intended[h]
      BY DEF FeedInv, HomeTrue
    <3> QED BY <2>2, <2>3, <3>1 DEF Advances
  <2>9. keeper'[k] = w
    BY <2>5, OneMovesIs
  <2>10. KeeperTrue(k)'
    BY <2>2, <2>4, <2>5, <2>8, <2>9 DEF KeeperTrue, Retained, Publishing
  <2>11. LocksTrue'
    BY <2>1, <2>2, <2>5, LocksMove DEF Locked, Publishing
  <2>12. ASSUME NEW g \in Homes PROVE HomeTrue(g)'
    BY <2>2, <2>4 DEF FeedInv, HomeTrue, Signed
  <2>13. TrustTrue'
    BY <2>2 DEF FeedInv, TrustTrue
  <2> QED BY <2>5, <2>6, <2>7, <2>10, <2>11, <2>12, <2>13, MoveKeeps
<1> QED BY <1>1, <1>2

LEMMA BuildKeeps ==
    ASSUME FeedInv, NEW k \in Keepers, Build(k)
    PROVE  FeedInv'
<1>1. CASE KeeperEnds(k) /\ UNCHANGED signatures
  BY <1>1, EndsKeep DEF Build, custody
<1>2. CASE ~(KeeperEnds(k) /\ UNCHANGED signatures)
  <2>1. PICK h \in Homes, p \in Policies : h = keeper[k].home /\ p = keeper[k].policy
    BY KeeperIs DEF Build, KeeperAt, Locked
  <2>2. PICK z : z = [policy |-> p, key |-> keyFile[h].seed]
    OBVIOUS
  <2>3. /\ keeper[k].pc = "sign" /\ PublicKey(h) /\ signatures' = [signatures EXCEPT ![h] = Append(signatures[h], z)] /\ KeeperTo(k, "retain")
        /\ UNCHANGED <<keyFile, issuing, attestations, publication, pending, feed, trust, intended, keeperRuns>>
    BY <1>2, <2>1, <2>2 DEF Build, KeeperAt, lanes
  <2>4. /\ keyFile[h].seed \in Nat /\ keyFile[h].public \in Nat /\ signatures[h] \in Seq([policy : Policies, key : Nat])
        /\ signatures \in [Homes -> Seq([policy : Policies, key : Nat])]
    BY DEF FeedInv, FeedVarsOK
  <2>5. z \in [policy : Policies, key : Nat] /\ z.policy = p /\ z.key = keyFile[h].seed /\ keyFile[h].seed # 0
    BY <2>2, <2>3, <2>4 DEF PublicKey
  <2>6. PICK S : S = [policy : Policies, key : Nat]
    OBVIOUS
  <2>7. PICK s \in Seq(S) : s = signatures[h]
    BY <2>4, <2>6
  <2>8. PICK n \in Nat : n = Len(s) + 1
    OBVIOUS
  <2>9. /\ Append(s, z) \in Seq(S) /\ DOMAIN Append(s, z) = DOMAIN s \cup {n} /\ n \notin DOMAIN s /\ Append(s, z)[n] = z
        /\ \A i \in DOMAIN s : Append(s, z)[i] = s[i] /\ i \in Nat /\ i < n
    BY <2>5, <2>6, <2>7, <2>8
  <2>10. /\ signatures' \in [Homes -> Seq([policy : Policies, key : Nat])] /\ signatures'[h] = Append(s, z)
         /\ \A g \in Homes : g # h => signatures'[g] = signatures[g]
    BY <2>3, <2>4, <2>6, <2>7, <2>9
  <2>11. PICK w : OneMoves(k, w) /\ w.pc = "retain" /\ w.home = h /\ w.policy = p
    BY <2>1, <2>3, ToMoves DEF KeeperSteps
  <2>12. Adds
    BY <2>3, <2>10 DEF Adds, FeedInv, FeedVarsOK
  <2>13. Signed(h, p)' /\ \A g \in Homes : \A q \in Policies : Signed(g, q) => Signed(g, q)'
    <3>1. n \in DOMAIN signatures'[h] /\ signatures'[h][n].policy = p
      BY <2>5, <2>9, <2>10
    <3>2. \A i \in DOMAIN signatures[h] : i \in DOMAIN signatures'[h] /\ signatures'[h][i] = signatures[h][i]
      BY <2>7, <2>9, <2>10
    <3>3. \A g \in Homes : \A q \in Policies : Signed(g, q) => Signed(g, q)'
      BY <2>10, <3>2 DEF Signed
    <3> QED BY <3>1, <3>3 DEF Signed
  <2>14. Monotone(k)
    BY <2>1, <2>3, <2>10, <2>13 DEF Monotone, Locked
  <2>15. keeper'[k] = w
    BY <2>11, OneMovesIs
  <2>16. KeeperTrue(k)'
    BY <2>11, <2>13, <2>15 DEF KeeperTrue, Retained, Publishing
  <2>17. LocksTrue'
    BY <2>1, <2>3, <2>11, LocksMove DEF Locked, Publishing
  <2>18. ASSUME NEW g \in Homes PROVE HomeTrue(g)'
    <3>1. HomeTrue(g)
      BY DEF FeedInv
    <3>2. CASE g # h
      BY <2>3, <2>10, <3>1, <3>2 DEF HomeTrue, Signed
    <3>3. CASE g = h
      <4>1. /\ p.seq \in intended[h] /\ \A i \in DOMAIN s : s[i].policy.seq < p.seq
        BY <2>1, <2>3, <2>7, KeeperIs DEF KeeperTrue
      <4>2. \A i \in DOMAIN signatures'[h] : /\ signatures'[h][i].policy.seq \in intended'[h]
                                             /\ signatures'[h][i].key = keyFile'[h].seed /\ keyFile'[h].seed # 0
        BY <2>3, <2>5, <2>7, <2>9, <2>10, <3>1, <3>3, <4>1 DEF HomeTrue
      <4>3. \A i, j \in DOMAIN signatures'[h] : i < j => signatures'[h][i].policy.seq < signatures'[h][j].policy.seq
        BY <2>3, <2>5, <2>7, <2>9, <2>10, <3>1, <3>3, <4>1 DEF HomeTrue
      <4>4. \A r \in attestations'[h] : Signed(h, r)'
        BY <2>3, <2>13, <3>1, <3>3 DEF HomeTrue, FeedInv, FeedVarsOK
      <4> QED BY <2>3, <3>1, <3>3, <4>2, <4>3, <4>4 DEF HomeTrue
    <3> QED BY <3>2, <3>3
  <2>19. TrustTrue'
    BY <2>3 DEF FeedInv, TrustTrue
  <2> QED BY <2>11, <2>12, <2>14, <2>16, <2>17, <2>18, <2>19, MoveKeeps
<1> QED BY <1>1, <1>2

LEMMA RetainKeeps ==
    ASSUME FeedInv, NEW k \in Keepers, Retain(k)
    PROVE  FeedInv'
<1>1. CASE KeeperEnds(k) /\ UNCHANGED attestations
  BY <1>1, EndsKeep DEF Retain, custody
<1>2. CASE ~(KeeperEnds(k) /\ UNCHANGED attestations)
  <2>1. PICK h \in Homes, p \in Policies : h = keeper[k].home /\ p = keeper[k].policy
    BY KeeperIs DEF Retain, KeeperAt, Locked
  <2>2. /\ keeper[k].pc = "retain" /\ attestations' = [attestations EXCEPT ![h] = @ \cup {p}] /\ KeeperTo(k, "publish")
        /\ UNCHANGED <<keyFile, issuing, intended, publication, pending, feed, trust, signatures, keeperRuns>>
    BY <1>2, <2>1 DEF Retain, KeeperAt, lanes
  <2>3. /\ attestations' \in [Homes -> SUBSET Policies] /\ p \in attestations'[h]
        /\ \A g \in Homes : /\ attestations[g] \subseteq attestations'[g]
                            /\ \A r \in attestations'[g] : r \in attestations[g] \/ (g = h /\ r = p)
    BY <2>2 DEF FeedInv, FeedVarsOK
  <2>4. PICK w : OneMoves(k, w) /\ w.pc = "publish" /\ w.home = h /\ w.policy = p
    BY <2>1, <2>2, ToMoves DEF KeeperSteps
  <2>5. Adds
    BY <2>2, <2>3 DEF Adds, FeedInv, FeedVarsOK
  <2>6. Monotone(k)
    BY <2>2, <2>3 DEF Monotone, Signed
  <2>7. keeper'[k] = w
    BY <2>4, OneMovesIs
  <2>8. KeeperTrue(k)'
    BY <2>3, <2>4, <2>7 DEF KeeperTrue
  <2>9. LocksTrue'
    BY <2>1, <2>2, <2>4, LocksMove DEF Locked, Publishing
  <2>10. Signed(h, p)
    BY <2>1, <2>2, KeeperIs DEF KeeperTrue
  <2>11. ASSUME NEW g \in Homes PROVE HomeTrue(g)'
    BY <2>2, <2>3, <2>10 DEF FeedInv, HomeTrue, Signed
  <2>12. TrustTrue'
    BY <2>2 DEF FeedInv, TrustTrue
  <2> QED BY <2>4, <2>5, <2>6, <2>8, <2>9, <2>11, <2>12, MoveKeeps
<1> QED BY <1>1, <1>2

\* The publisher, alone, changes the pending entries of its home.
LEMMA PublisherMoves ==
    ASSUME FeedInv, NEW k \in Keepers, NEW s \in Locked, KeeperTo(k, s), keeper[k].pc \in Publishing, s \in Retained,
           UNCHANGED <<keyFile, custody, trust, keeperRuns>>,
           IF s \in Publishing THEN publication' = publication ELSE publication' \in BOOLEAN,
           pending' \in [Homes -> SUBSET Entries], feed' \in [Homes -> SUBSET Entries],
           \A h \in Homes : \A e \in feed'[h] : e \in feed[h] \/ (e.whole /\ e.policy \in attestations[h]),
           s = "rename" => \A e \in pending'[keeper[k].home] : e.policy = keeper[k].policy => e.whole
    PROVE  FeedInv'
<1>1. UNCHANGED <<keyFile, intended, attestations, signatures, trust, issuing, keeperRuns>>
  BY DEF custody
<1>2. PICK w : OneMoves(k, w) /\ w.pc = s /\ w.home = keeper[k].home /\ w.policy = keeper[k].policy
  <2>1. s \in KeeperSteps
    BY DEF Locked, KeeperSteps
  <2> QED BY <2>1, ToMoves
<1>3. publication' \in BOOLEAN
  BY DEF FeedInv, FeedVarsOK
<1>4. Adds
  BY <1>1, <1>3 DEF Adds, FeedInv, FeedVarsOK
<1>5. Monotone(k)
  BY <1>1 DEF Monotone, Signed
<1>6. keeper'[k] = w
  BY <1>2, OneMovesIs
<1>7. keeper[k].pc \in Locked /\ keeper[k].pc \in Retained /\ s \notin {"sign", "retain"}
  BY DEF Locked, Retained, Publishing
<1>8. keeper[k].policy \in Policies /\ keeper[k].policy \in attestations[keeper[k].home]
  BY <1>7, KeeperIs DEF KeeperTrue
<1>9. KeeperTrue(k)'
  BY <1>1, <1>2, <1>6, <1>7, <1>8 DEF KeeperTrue
<1>10. LocksTrue'
  BY <1>1, <1>2, <1>7, LocksMove
<1>11. ASSUME NEW g \in Homes PROVE HomeTrue(g)'
  BY <1>1 DEF FeedInv, HomeTrue, Signed
<1>12. TrustTrue'
  BY <1>1 DEF FeedInv, TrustTrue
<1> QED BY <1>2, <1>4, <1>5, <1>9, <1>10, <1>11, <1>12, MoveKeeps

LEMMA StageKeeps ==
    ASSUME FeedInv, NEW k \in Keepers, MakeStage(k) \/ WriteFiles(k)
    PROVE  FeedInv'
<1>1. PICK h \in Homes, p \in Policies : h = keeper[k].home /\ p = keeper[k].policy /\ keeper[k].pc \in Publishing
  BY KeeperIs DEF MakeStage, WriteFiles, KeeperAt, Locked, Publishing
<1>2. UNCHANGED <<keyFile, custody, publication, feed, trust, keeperRuns>>
  BY DEF MakeStage, WriteFiles
<1>3. CASE KeeperEnds(k) /\ UNCHANGED pending
  BY <1>2, <1>3, EndsKeep DEF lanes
<1>4. CASE ~(KeeperEnds(k) /\ UNCHANGED pending)
  <2>1. PICK b \in BOOLEAN, s \in {"write", "rename"} :
           /\ KeeperTo(k, s) /\ (s = "rename" => b = TRUE)
           /\ \/ pending' = [pending EXCEPT ![h] = @ \cup {[policy |-> p, whole |-> b]}] /\ s = "write"
              \/ pending' = [pending EXCEPT ![h] = (@ \ Named(@, p)) \cup {[policy |-> p, whole |-> b]}]
    BY <1>1, <1>4 DEF MakeStage, WriteFiles
  <2>2. PICK x : x = [policy |-> p, whole |-> b]
    OBVIOUS
  <2>3. x \in Entries /\ x.policy = p /\ x.whole = b
    BY <2>2 DEF Entries
  <2>4. PICK P \in SUBSET Entries : P = pending[h]
    BY DEF FeedInv, FeedVarsOK
  <2>5. PICK Q \in SUBSET Entries : /\ pending' = [pending EXCEPT ![h] = Q]
                                    /\ s = "rename" => Q = (P \ Named(P, p)) \cup {x}
    <3>1. P \cup {x} \in SUBSET Entries /\ (P \ Named(P, p)) \cup {x} \in SUBSET Entries
      BY <2>3, <2>4
    <3>2. \/ pending' = [pending EXCEPT ![h] = P \cup {x}] /\ s = "write"
          \/ pending' = [pending EXCEPT ![h] = (P \ Named(P, p)) \cup {x}]
      BY <2>1, <2>2, <2>4
    <3> QED BY <3>1, <3>2
  <2>6. pending' \in [Homes -> SUBSET Entries] /\ pending'[h] = Q
    BY <2>5 DEF FeedInv, FeedVarsOK
  <2>7. s = "rename" => \A e \in pending'[h] : e.policy = p => e.whole
    BY <2>1, <2>3, <2>5, <2>6 DEF Named
  <2>8. s \in Locked /\ s \in Retained /\ s \in Publishing
    BY DEF Locked, Retained, Publishing
  <2>9. feed' \in [Homes -> SUBSET Entries] /\ \A g \in Homes : feed'[g] = feed[g]
    BY <1>2 DEF FeedInv, FeedVarsOK
  <2> QED BY <1>1, <1>2, <2>1, <2>6, <2>7, <2>8, <2>9, PublisherMoves
<1> QED BY <1>3, <1>4

LEMMA RenameKeeps ==
    ASSUME FeedInv, NEW k \in Keepers, Rename(k)
    PROVE  FeedInv'
<1>1. PICK h \in Homes, p \in Policies : h = keeper[k].home /\ p = keeper[k].policy /\ keeper[k].pc = "rename"
  BY KeeperIs DEF Rename, KeeperAt, Locked, Publishing
<1>2. UNCHANGED <<keyFile, custody, publication, trust, keeperRuns>>
  BY DEF Rename
<1>3. CASE KeeperEnds(k) /\ UNCHANGED <<pending, feed>>
  BY <1>2, <1>3, EndsKeep DEF lanes
<1>4. CASE ~(KeeperEnds(k) /\ UNCHANGED <<pending, feed>>)
  <2>1. PICK P \in SUBSET Entries, F \in SUBSET Entries : P = pending[h] /\ F = feed[h]
    BY DEF FeedInv, FeedVarsOK
  <2>2. PICK N : N = Named(P, p)
    OBVIOUS
  <2>3. /\ feed' = [feed EXCEPT ![h] = F \cup N] /\ pending' = [pending EXCEPT ![h] = P \ N] /\ KeeperTo(k, "readback")
    BY <1>1, <1>4, <2>1, <2>2 DEF Rename
  <2>4. N \in SUBSET Entries /\ \A e \in N : e \in P /\ e.policy = p
    BY <2>1, <2>2 DEF Named
  <2>5. p \in attestations[h] /\ \A e \in P : e.policy = p => e.whole
    BY <1>1, <2>1, KeeperIs DEF KeeperTrue, Retained, Publishing
  <2>6. /\ feed' \in [Homes -> SUBSET Entries] /\ feed'[h] = F \cup N /\ \A g \in Homes : g # h => feed'[g] = feed[g]
        /\ pending' \in [Homes -> SUBSET Entries]
    BY <2>1, <2>3, <2>4 DEF FeedInv, FeedVarsOK
  <2>7. \A g \in Homes : \A e \in feed'[g] : e \in feed[g] \/ (e.whole /\ e.policy \in attestations[g])
    BY <2>1, <2>4, <2>5, <2>6
  <2>8. "readback" \in Locked /\ "readback" \in Retained /\ "readback" \in Publishing /\ keeper[k].pc \in Publishing
    BY <1>1 DEF Locked, Retained, Publishing
  <2> QED BY <1>2, <2>3, <2>6, <2>7, <2>8, PublisherMoves
<1> QED BY <1>3, <1>4

LEMMA UnlockKeeps ==
    ASSUME FeedInv, NEW k \in Keepers, ReadbackEntry(k) \/ PublicationUnlock(k)
    PROVE  FeedInv'
<1>1. UNCHANGED <<keyFile, custody, pending, feed, trust, keeperRuns>> /\ keeper[k].pc \in Publishing
  BY DEF ReadbackEntry, PublicationUnlock, lanes, KeeperAt, Publishing
<1>2. CASE KeeperEnds(k) /\ UNCHANGED publication
  BY <1>1, <1>2, EndsKeep DEF lanes
<1>3. CASE ~(KeeperEnds(k) /\ UNCHANGED publication)
  <2>1. \/ KeeperTo(k, "unlock") /\ publication' = publication
        \/ KeeperTo(k, "release") /\ publication' = FALSE
    BY <1>3 DEF ReadbackEntry, PublicationUnlock, lanes
  <2>2. "unlock" \in Locked /\ "unlock" \in Retained /\ "unlock" \in Publishing /\ "release" \in Locked /\ "release" \in Retained
        /\ "release" \notin Publishing
    BY DEF Locked, Retained, Publishing
  <2>3. /\ pending' \in [Homes -> SUBSET Entries] /\ feed' \in [Homes -> SUBSET Entries]
        /\ \A g \in Homes : feed'[g] = feed[g]
    BY <1>1 DEF FeedInv, FeedVarsOK
  <2> QED BY <1>1, <2>1, <2>2, <2>3, PublisherMoves
<1> QED BY <1>2, <1>3

LEMMA CompleteKeeps ==
    ASSUME FeedInv, NEW k \in Keepers, IssueComplete(k)
    PROVE  FeedInv'
<1>1. /\ keeper[k].pc = "release" /\ issuing' = issuing \ {keeper[k].home} /\ KeeperEnds(k)
      /\ UNCHANGED <<keyFile, intended, attestations, signatures, feed, trust, publication, pending, keeperRuns>>
  BY DEF IssueComplete, KeeperAt, lanes
<1>2. OneMoves(k, Away)
  BY <1>1, EndsMove
<1>3. keeper'[k] = Away /\ Away.pc \notin Locked \cup {"lock"} /\ Away.pc \notin Publishing
  BY <1>2, OneMovesIs, AwayIs DEF Locked, Publishing
<1>4. issuing' \subseteq Homes /\ publication' \in BOOLEAN /\ keeperRuns' \in Nat
  BY <1>1 DEF FeedInv, FeedVarsOK
<1>5. Adds /\ Monotone(k) /\ (\A h \in Homes : HomeTrue(h)') /\ TrustTrue'
  BY <1>1, <1>4, FilesAlone
<1>6. LocksTrue'
  BY <1>1, <1>2, <1>3, LocksMove DEF Locked
<1> QED BY <1>2, <1>3, <1>5, <1>6, AwayTrue, MoveKeeps

\* With no command at work there is no one to lose a lock.
LEMMA ReconciledKeeps ==
    ASSUME FeedInv, Reconciled
    PROVE  FeedInv'
<1>1. /\ \A k \in Keepers : keeper[k].pc = "idle"
      /\ issuing' = {} /\ publication' = FALSE /\ pending' = [h \in Homes |-> {}]
      /\ UNCHANGED <<keyFile, intended, attestations, feed, trust, keeper, signatures, keeperRuns>>
  BY DEF Reconciled, KeeperAt
<1>2. \A k \in Keepers : keeper'[k].pc = "idle"
  BY <1>1
<1>3. FeedVarsOK'
  BY <1>1 DEF FeedInv, FeedVarsOK
<1>4. LocksTrue'
  BY <1>2 DEF LocksTrue, OnePublisher, Locked, Publishing
<1>5. \A k \in Keepers : KeeperTrue(k)'
  BY <1>2, AwayTrue DEF Locked, Publishing
<1>6. TrustTrue'
  BY <1>1 DEF FeedInv, TrustTrue
<1> QED BY <1>1, <1>3, <1>4, <1>5, <1>6, HomesKept DEF FeedInv

LEMMA FeedStepKeeps ==
    ASSUME FeedInv, FeedNext \/ UNCHANGED feedVars
    PROVE  FeedInv'
<1>1. CASE UNCHANGED feedVars
  <2>1. UNCHANGED <<keyFile, issuing, intended, attestations, publication, pending, feed, trust, keeper, signatures, keeperRuns>>
    BY <1>1 DEF feedVars
  <2>2. FeedVarsOK' /\ LocksTrue' /\ TrustTrue'
    BY <2>1 DEF FeedInv, FeedVarsOK, LocksTrue, OnePublisher, TrustTrue
  <2>3. \A k \in Keepers : KeeperTrue(k)'
    BY <2>1 DEF FeedInv, KeeperTrue, Signed
  <2> QED BY <2>1, <2>2, <2>3, HomesKept DEF FeedInv
<1>2. CASE Reconciled
  BY <1>2, ReconciledKeeps
<1>3. ASSUME NEW k \in Keepers, NEW h \in Homes, Begins(k, "intend", h, NoPolicy) PROVE FeedInv'
  BY <1>3, BeginKeeps
<1>4. ASSUME NEW k \in Keepers, NEW h \in Homes, NEW p \in Policies, Begins(k, "lock", h, p) PROVE FeedInv'
  BY <1>4, BeginKeeps
<1>5. ASSUME NEW k \in Keepers, Begins(k, "pend", "production", NoPolicy) PROVE FeedInv'
  BY <1>5, BeginKeeps DEF Homes
<1>6. ASSUME NEW k \in Keepers, KeeperFails(k) PROVE FeedInv'
  BY <1>6, EndsKeep DEF KeeperFails
<1> QED BY <1>1, <1>2, <1>3, <1>4, <1>5, <1>6, GenerateKeeps, TrustKeeps, LockKeeps, IntentKeepsFeed, BuildKeeps, RetainKeeps,
           StageKeeps, RenameKeeps, UnlockKeeps, CompleteKeeps DEF FeedNext

LEMMA FeedInitTrue == ASSUME FeedInit PROVE FeedInv
<1>1. \A k \in Keepers : keeper[k] = Away
  BY DEF FeedInit
<1>2. \A h \in Homes : DOMAIN signatures[h] = {} /\ signatures[h] = <<>> /\ attestations[h] = {} /\ feed[h] = {}
  BY DEF FeedInit
<1>3. FeedVarsOK
  <2>1. keeper \in [Keepers -> KeeperRecs]
    BY AwayIs DEF FeedInit
  <2>2. signatures \in [Homes -> Seq([policy : Policies, key : Nat])]
    BY DEF FeedInit
  <2> QED BY <2>1, <2>2 DEF FeedInit, FeedVarsOK, KeeperRecs
<1>4. LocksTrue /\ TrustTrue
  BY <1>1, AwayIs DEF LocksTrue, OnePublisher, Locked, Publishing, FeedInit, TrustTrue
<1>5. \A k \in Keepers : KeeperTrue(k)
  BY <1>1, AwayIs DEF KeeperTrue, Locked, Retained, Publishing
<1>6. \A h \in Homes : HomeTrue(h)
  BY <1>2 DEF HomeTrue
<1> QED BY <1>3, <1>4, <1>5, <1>6 DEF FeedInv

LEMMA FeedHolds == ASSUME FeedInv PROVE FeedTrue
<1>1. SignedInOrder /\ OnePublisher
  BY DEF FeedInv, HomeTrue, SignedInOrder, LocksTrue
<1>2. ASSUME NEW h \in Homes, NEW d \in feed[h], NEW e \in feed[h], d.policy.seq = e.policy.seq PROVE d = e
  <2>1. d \in Entries /\ e \in Entries /\ d.whole /\ e.whole /\ d.policy \in attestations[h] /\ e.policy \in attestations[h]
    BY DEF FeedInv, FeedVarsOK, HomeTrue
  <2>2. PICK i \in DOMAIN signatures[h], j \in DOMAIN signatures[h] :
           signatures[h][i].policy = d.policy /\ signatures[h][j].policy = e.policy
    BY <2>1 DEF FeedInv, HomeTrue, Signed
  <2>3. i \in Nat /\ j \in Nat /\ d.policy.seq \in Nat
    BY <2>1, FeedAssumption DEF FeedInv, FeedVarsOK, Entries, Policies
  <2>4. ~(i < j) /\ ~(j < i)
    BY <1>2, <2>2, <2>3 DEF FeedInv, HomeTrue
  <2>5. d.policy = e.policy
    BY <2>2, <2>3, <2>4
  <2> QED BY <2>1, <2>5 DEF Entries
<1>3. ASSUME NEW h \in Homes, NEW e \in feed[h]
      PROVE  /\ e.whole /\ e.policy \in attestations[h]
             /\ \E i \in DOMAIN signatures[h] :
                  /\ signatures[h][i].policy = e.policy
                  /\ h = "production" /\ trust.exported # 0 => signatures[h][i].key = trust.exported
  <2>1. e.whole /\ e.policy \in attestations[h] /\ Signed(h, e.policy)
    BY DEF FeedInv, HomeTrue
  <2>2. PICK i \in DOMAIN signatures[h] : signatures[h][i].policy = e.policy
    BY <2>1 DEF Signed
  <2>3. h = "production" /\ trust.exported # 0 => signatures[h][i].key = trust.exported
    BY DEF FeedInv, HomeTrue, TrustTrue
  <2> QED BY <2>1, <2>2, <2>3
<1> QED BY <1>1, <1>2, <1>3 DEF FeedTrue, PublishedSigned

(******************************** a seat's records ***********************************)
Files == [ask : Asked, st : {"part", "written", "synced"}]
Acks == [rev : Nat, ask : Asked]
RecordVarsOK ==
    /\ record \in [Kinds -> Seq(Files)] /\ entries \in [Kinds -> Nat] /\ acknowledged \subseteq Acks
    /\ change \in [Askers -> [pc : Serving \cup {"idle"}, ask : Asked \cup {NoChange.ask}, rev : Nat]]
    /\ \A c \in Askers : change[c].pc # "idle" => change[c].ask \in Asked
    /\ \A t \in Kinds : entries[t] <= Len(record[t])

\* The file a request has made, and how far it is.
Making == {"write", "sync", "answer"}
FileAt == [write |-> "part", sync |-> "written", answer |-> "synced"]

\* What a file on top of number n must say.
Extends(ask, n) ==
    IF ask.kind = "declaration" THEN ask.on = (IF n = 0 THEN NoBody ELSE record["declaration"][n].ask.body)
    ELSE ask.on = n /\ (n > 0 /\ record["location"][n].ask.where # ask.where => ask.evidence)

ChangeTrue(c) ==
    LET t == change[c].ask.kind
        n == change[c].rev
    IN  /\ change[c].pc \in {"read", "create"} => n <= Len(record[t])
        /\ change[c].pc = "create" => Extends(change[c].ask, n)
        /\ change[c].pc \in Making => /\ n \in DOMAIN record[t]
                                      /\ record[t][n] = [ask |-> change[c].ask, st |-> FileAt[change[c].pc]]

RecordInv ==
    /\ RecordVarsOK
    /\ \A c \in Askers : ChangeTrue(c)
    /\ \A c, d \in Askers : change[c].pc \in Making /\ change[d].pc \in Making
                            /\ change[c].ask.kind = change[d].ask.kind /\ change[c].rev = change[d].rev => c = d
    /\ \A a \in acknowledged : /\ a.rev \in 1 .. entries[a.ask.kind]
                               /\ record[a.ask.kind][a.rev] = [ask |-> a.ask, st |-> "synced"]
    /\ \A t \in Kinds : \A n \in DOMAIN record[t] : record[t][n].ask.kind = t /\ Extends(record[t][n].ask, n - 1)
ChangeRecs == [pc : Serving \cup {"idle"}, ask : Asked \cup {NoChange.ask}, rev : Nat]

LEMMA AskedIs == \A a \in Asked \cup {NoChange.ask} : a.kind \in Kinds
  BY DEF Asked, NoChange, Kinds

LEMMA NoChangeIs == NoChange \in ChangeRecs /\ NoChange.pc = "idle"
<1>1. NoChange.ask \in Asked \cup {NoChange.ask}
  OBVIOUS
<1> QED BY <1>1 DEF NoChange, ChangeRecs

LEMMA ChangeIs ==
    ASSUME RecordInv, NEW c \in Askers
    PROVE  /\ change[c] \in ChangeRecs /\ change[c].ask.kind \in Kinds /\ change[c].rev \in Nat
           /\ (change[c].pc # "idle" => change[c].ask \in Asked) /\ ChangeTrue(c)
<1>1. /\ change[c] \in ChangeRecs /\ (change[c].pc # "idle" => change[c].ask \in Asked) /\ ChangeTrue(c)
  BY DEF RecordInv, RecordVarsOK, ChangeRecs
<1> QED BY <1>1, AskedIs DEF ChangeRecs

LEMMA FilesAre ==
    ASSUME RecordInv, NEW t \in Kinds
    PROVE  /\ record[t] \in Seq(Files) /\ Len(record[t]) \in Nat /\ DOMAIN record[t] = 1 .. Len(record[t])
           /\ \A n \in DOMAIN record[t] : record[t][n] \in Files
           /\ entries[t] \in Nat /\ entries[t] <= Len(record[t])
  BY DEF RecordInv, RecordVarsOK

LEMMA AcksAre ==
    ASSUME RecordInv, NEW a \in acknowledged
    PROVE  /\ a.ask.kind \in Kinds /\ a.rev \in 1 .. entries[a.ask.kind] /\ a.rev \in DOMAIN record[a.ask.kind]
           /\ record[a.ask.kind][a.rev] = [ask |-> a.ask, st |-> "synced"]
<1>1. a.ask.kind \in Kinds
  BY AskedIs DEF RecordInv, RecordVarsOK, Acks
<1>2. a.rev \in 1 .. entries[a.ask.kind] /\ record[a.ask.kind][a.rev] = [ask |-> a.ask, st |-> "synced"]
  BY DEF RecordInv
<1>3. a.rev \in DOMAIN record[a.ask.kind]
  BY <1>1, <1>2, FilesAre
<1> QED BY <1>1, <1>2, <1>3

\* No file is taken away or replaced by another request's.
AsksKept ==
    \A t \in Kinds : \A n \in DOMAIN record[t] : n \in DOMAIN record'[t] /\ record'[t][n].ask = record[t][n].ask

LEMMA ExtendsSame ==
    ASSUME NEW ask, ask.kind \in Kinds, NEW n \in Nat, n = 0 \/ record'[ask.kind][n].ask = record[ask.kind][n].ask, Extends(ask, n)
    PROVE  Extends(ask, n)'
<1>1. CASE n = 0
  BY <1>1 DEF Extends
<1>2. CASE n # 0
  BY <1>2 DEF Extends, Kinds
<1> QED BY <1>1, <1>2

LEMMA ExtendsKept ==
    ASSUME AsksKept, NEW ask, ask.kind \in Kinds, NEW n \in Nat, n = 0 \/ n \in DOMAIN record[ask.kind], Extends(ask, n)
    PROVE  Extends(ask, n)'
  BY ExtendsSame DEF AsksKept

\* One request moves, and the files are as they were.
Moves(c, w) == change' = [change EXCEPT ![c] = w] /\ w \in ChangeRecs /\ (w.pc # "idle" => w.ask \in Asked)

LEMMA MovesIs ==
    ASSUME RecordInv, NEW c \in Askers, NEW w, Moves(c, w)
    PROVE  /\ change' \in [Askers -> ChangeRecs] /\ change'[c] = w
           /\ \A d \in Askers : d # c => change'[d] = change[d]
           /\ \A d \in Askers : change'[d].pc # "idle" => change'[d].ask \in Asked
  BY DEF Moves, RecordInv, RecordVarsOK, ChangeRecs

LEMMA EndMoves ==
    ASSUME RecordInv, NEW c \in Askers, ChangeEnds(c)
    PROVE  Moves(c, NoChange)
  BY NoChangeIs DEF ChangeEnds, Moves

ChangeGoes(c, s, n) == change' = [change EXCEPT ![c].pc = s, ![c].rev = n]

LEMMA ToMovesRecord ==
    ASSUME RecordInv, NEW c \in Askers, change[c].pc # "idle", NEW s \in Serving, NEW n \in Nat, ChangeGoes(c, s, n)
    PROVE  \E w : Moves(c, w) /\ w.pc = s /\ w.ask = change[c].ask /\ w.rev = n
<1>1. change[c] \in ChangeRecs /\ change[c].ask \in Asked
  BY ChangeIs
<1>2. PICK w : w = [change[c] EXCEPT !.pc = s, !.rev = n]
  OBVIOUS
<1>3. w \in ChangeRecs /\ w.pc = s /\ w.ask = change[c].ask /\ w.rev = n
  BY <1>1, <1>2 DEF ChangeRecs
<1>4. change' = [change EXCEPT ![c] = w]
  BY <1>2 DEF ChangeGoes
<1> QED BY <1>1, <1>3, <1>4 DEF Moves

LEMMA OnwardRecord ==
    ASSUME RecordInv, NEW c \in Askers, change[c].pc # "idle", NEW s \in Serving, ChangeTo(c, s)
    PROVE  \E w : Moves(c, w) /\ w.pc = s /\ w.ask = change[c].ask /\ w.rev = change[c].rev
<1>1. change[c] \in ChangeRecs /\ change[c].ask \in Asked
  BY ChangeIs
<1>2. PICK w : w = [change[c] EXCEPT !.pc = s]
  OBVIOUS
<1>3. w \in ChangeRecs /\ w.pc = s /\ w.ask = change[c].ask /\ w.rev = change[c].rev
  BY <1>1, <1>2 DEF ChangeRecs
<1>4. change' = [change EXCEPT ![c] = w]
  BY <1>2 DEF ChangeTo
<1> QED BY <1>1, <1>3, <1>4 DEF Moves

\* The rest of the invariant, of the files alone.
Owners == \A c, d \in Askers : change[c].pc \in Making /\ change[d].pc \in Making
                               /\ change[c].ask.kind = change[d].ask.kind /\ change[c].rev = change[d].rev => c = d
FilesOnFiles == \A t \in Kinds : \A n \in DOMAIN record[t] : record[t][n].ask.kind = t /\ Extends(record[t][n].ask, n - 1)
AcksTrue == \A a \in acknowledged : /\ a.rev \in 1 .. entries[a.ask.kind]
                                    /\ record[a.ask.kind][a.rev] = [ask |-> a.ask, st |-> "synced"]

\* Requests move while no file changes.
LEMMA QuietKeeps ==
    ASSUME RecordInv, NEW c \in Askers, NEW w, Moves(c, w), UNCHANGED <<record, entries, acknowledged>>,
           ChangeTrue(c)', w.pc \notin Making
    PROVE  RecordInv'
<1>1. /\ change' \in [Askers -> ChangeRecs] /\ change'[c] = w
      /\ \A d \in Askers : d # c => change'[d] = change[d]
      /\ \A d \in Askers : change'[d].pc # "idle" => change'[d].ask \in Asked
  BY MovesIs
<1>2. RecordVarsOK'
  BY <1>1 DEF RecordInv, RecordVarsOK, ChangeRecs
<1>3. \A d \in Askers : d # c => ChangeTrue(d)'
  BY <1>1 DEF RecordInv, ChangeTrue, Extends
<1>4. Owners'
  BY <1>1 DEF RecordInv, Owners
<1>5. AcksTrue' /\ FilesOnFiles'
  BY DEF RecordInv, AcksTrue, FilesOnFiles, Extends
<1>6. \A d \in Askers : ChangeTrue(d)'
  BY <1>3
<1> QED BY <1>2, <1>4, <1>5, <1>6 DEF RecordInv, Owners, AcksTrue, FilesOnFiles

LEMMA EndTrue ==
    ASSUME NEW c \in Askers, change'[c].pc \in {"idle", "current", "list"} PROVE ChangeTrue(c)'
  BY DEF ChangeTrue, Making

LEMMA GiveUpKeeps ==
    ASSUME RecordInv, NEW c \in Askers, ChangeEnds(c), UNCHANGED <<record, entries, acknowledged>>
    PROVE  RecordInv'
<1>1. Moves(c, NoChange) /\ NoChange.pc \notin Making
  BY EndMoves, NoChangeIs DEF Making
<1>2. change'[c].pc = "idle"
  BY <1>1, MovesIs, NoChangeIs
<1> QED BY <1>1, <1>2, EndTrue, QuietKeeps

LEMMA ReceiveKeeps ==
    ASSUME RecordInv, NEW c \in Askers, NEW ask \in Asked, ReceiveChange(c, ask)
    PROVE  RecordInv'
<1>1. PICK s \in {"current", "list"} : s = IF ask.kind = "location" THEN "current" ELSE "list"
  OBVIOUS
<1>2. PICK w : w = [pc |-> s, ask |-> ask, rev |-> 0]
  OBVIOUS
<1>3. w \in ChangeRecs /\ w.pc = s /\ w.ask = ask /\ s \notin Making
  BY <1>2 DEF ChangeRecs, Serving, Making
<1>4. Moves(c, w) /\ UNCHANGED <<record, entries, acknowledged>>
  BY <1>1, <1>2, <1>3 DEF ReceiveChange, Moves
<1>5. change'[c].pc \in {"current", "list"}
  BY <1>3, <1>4, MovesIs
<1> QED BY <1>3, <1>4, <1>5, EndTrue, QuietKeeps

LEMMA ReadsKeep ==
    ASSUME RecordInv, NEW c \in Askers, CheckDeclared(c) \/ ListFiles(c) \/ ReadCurrent(c)
    PROVE  RecordInv'
<1>1. UNCHANGED <<record, entries, acknowledged>> /\ change[c].pc \in {"current", "list", "read"}
  BY DEF CheckDeclared, ListFiles, ReadCurrent, ChangeAt
<1>2. CASE ChangeEnds(c)
  BY <1>1, <1>2, GiveUpKeeps
<1>3. CASE ~ChangeEnds(c) /\ CheckDeclared(c)
  <2>1. ChangeTo(c, "list")
    BY <1>3 DEF CheckDeclared
  <2>2. PICK w : Moves(c, w) /\ w.pc = "list"
    BY <1>1, <2>1, OnwardRecord DEF Serving
  <2>3. change'[c].pc = "list" /\ "list" \notin Making
    BY <2>2, MovesIs DEF Making
  <2> QED BY <1>1, <2>2, <2>3, EndTrue, QuietKeeps
<1>4. CASE ListFiles(c)
  <2>1. PICK n \in Nat : n = Len(record[change[c].ask.kind])
    BY ChangeIs, FilesAre
  <2>2. change' = [change EXCEPT ![c].pc = "read", ![c].rev = n]
    BY <1>4, <2>1 DEF ListFiles, Top, Kind
  <2>3. PICK w : Moves(c, w) /\ w.pc = "read" /\ w.ask = change[c].ask /\ w.rev = n
    <3>1. "read" \in Serving /\ change[c].pc # "idle"
      BY <1>1 DEF Serving
    <3>2. ChangeGoes(c, "read", n)
      BY <2>2 DEF ChangeGoes
    <3> QED BY <3>1, <3>2, ToMovesRecord
  <2>4. change'[c] = w /\ "read" \notin Making
    BY <2>3, MovesIs DEF Making
  <2>5. ChangeTrue(c)'
    BY <1>1, <2>1, <2>3, <2>4 DEF ChangeTrue
  <2> QED BY <1>1, <2>3, <2>4, <2>5, QuietKeeps
<1>5. CASE ~ChangeEnds(c) /\ ReadCurrent(c)
  <2>1. ChangeTo(c, "create") /\ Matches(change[c].ask, change[c].rev) /\ change[c].pc = "read"
    BY <1>5 DEF ReadCurrent, ChangeAt
  <2>2. PICK w : Moves(c, w) /\ w.pc = "create" /\ w.ask = change[c].ask /\ w.rev = change[c].rev
    BY <1>1, <2>1, OnwardRecord DEF Serving
  <2>3. change'[c] = w /\ "create" \notin Making
    BY <2>2, MovesIs DEF Making
  <2>4. Extends(change[c].ask, change[c].rev) /\ change[c].rev <= Len(record[change[c].ask.kind])
    BY <2>1, ChangeIs DEF Matches, Extends, ChangeTrue, Kinds
  <2>5. ChangeTrue(c)'
    BY <1>1, <2>2, <2>3, <2>4 DEF ChangeTrue, Extends
  <2> QED BY <1>1, <2>2, <2>3, <2>5, QuietKeeps
<1> QED BY <1>2, <1>3, <1>4, <1>5

\* The exclusive create: the new file is the request's own, and extends the one it read.
LEMMA CreateKeeps ==
    ASSUME RecordInv, NEW c \in Askers, Create(c)
    PROVE  RecordInv'
<1>1. CASE ChangeEnds(c) /\ UNCHANGED record
  BY <1>1, GiveUpKeeps DEF Create
<1>2. CASE ~(ChangeEnds(c) /\ UNCHANGED record)
  <2>1. PICK ask \in Asked, t \in Kinds, n \in Nat : ask = change[c].ask /\ t = ask.kind /\ n = change[c].rev + 1
    BY ChangeIs DEF Create, ChangeAt
  <2>2. PICK f : f = [ask |-> ask, st |-> "part"]
    OBVIOUS
  <2>3. f \in Files /\ f.ask = ask
    BY <2>2 DEF Files
  <2>4. /\ change[c].pc = "create" /\ n = Len(record[t]) + 1 /\ record' = [record EXCEPT ![t] = Append(record[t], f)]
        /\ change' = [change EXCEPT ![c].pc = "write", ![c].rev = n] /\ UNCHANGED <<entries, acknowledged>>
    BY <1>2, <2>1, <2>2 DEF Create, ChangeAt, Top
  <2>5. PICK w : Moves(c, w) /\ w.pc = "write" /\ w.ask = ask /\ w.rev = n
    <3>1. "write" \in Serving /\ change[c].pc # "idle"
      BY <2>4 DEF Serving
    <3>2. ChangeGoes(c, "write", n)
      BY <2>4 DEF ChangeGoes
    <3> QED BY <2>1, <3>1, <3>2, ToMovesRecord
  <2>6. /\ change' \in [Askers -> ChangeRecs] /\ change'[c] = w
        /\ \A d \in Askers : d # c => change'[d] = change[d]
        /\ \A d \in Askers : change'[d].pc # "idle" => change'[d].ask \in Asked
    BY <2>5, MovesIs
  <2>7. PICK s \in Seq(Files) : s = record[t]
    BY FilesAre
  <2>8. /\ Append(s, f) \in Seq(Files) /\ Len(Append(s, f)) = n /\ DOMAIN Append(s, f) = DOMAIN s \cup {n} /\ n \notin DOMAIN s
        /\ Append(s, f)[n] = f /\ \A i \in DOMAIN s : Append(s, f)[i] = s[i]
    BY <2>3, <2>4, <2>7
  <2>9. /\ record' \in [Kinds -> Seq(Files)] /\ record'[t] = Append(s, f) /\ \A u \in Kinds : u # t => record'[u] = record[u]
    BY <2>4, <2>7, <2>8 DEF RecordInv, RecordVarsOK
  <2>10. \A u \in Kinds : \A i \in DOMAIN record[u] : i \in DOMAIN record'[u] /\ record'[u][i] = record[u][i]
    BY <2>7, <2>8, <2>9
  <2>11. AsksKept
    BY <2>10 DEF AsksKept
  <2>12. \A u \in Kinds : Len(record[u]) <= Len(record'[u]) /\ Len(record'[u]) \in Nat
    BY <2>4, <2>7, <2>8, <2>9, FilesAre
  <2>13. RecordVarsOK'
    <3>1. \A u \in Kinds : entries'[u] <= Len(record'[u])
      BY <2>4, <2>12, FilesAre
    <3> QED BY <2>4, <2>6, <2>9, <3>1 DEF RecordInv, RecordVarsOK, ChangeRecs
  <2>14. ChangeTrue(c)'
    <3>1. n \in DOMAIN record'[t] /\ record'[t][n] = [ask |-> ask, st |-> "part"] /\ FileAt["write"] = "part"
      BY <2>2, <2>8, <2>9 DEF FileAt
    <3> QED BY <2>1, <2>5, <2>6, <3>1 DEF ChangeTrue
  <2>15. ASSUME NEW d \in Askers, d # c PROVE ChangeTrue(d)'
    <3>1. ChangeTrue(d) /\ change'[d] = change[d] /\ change[d].ask.kind \in Kinds /\ change[d].rev \in Nat
      BY <2>6, <2>15, ChangeIs
    <3>2. change[d].pc \in {"read", "create"} => change[d].rev <= Len(record'[change[d].ask.kind])
      BY <2>12, <3>1, FilesAre DEF ChangeTrue
    <3>3. change[d].pc = "create" => Extends(change[d].ask, change[d].rev)'
      <4>1. change[d].pc = "create" => change[d].rev = 0 \/ change[d].rev \in DOMAIN record[change[d].ask.kind]
        BY <3>1, FilesAre DEF ChangeTrue
      <4>2. PICK a, m : a = change[d].ask /\ m = change[d].rev
        OBVIOUS
      <4>3. change[d].pc = "create" => Extends(a, m)'
        BY <2>11, <3>1, <4>1, <4>2, ExtendsKept DEF ChangeTrue
      <4> QED BY <3>1, <4>2, <4>3 DEF Extends
    <3> QED BY <2>10, <3>1, <3>2, <3>3 DEF ChangeTrue
  <2>16. Owners'
    <3>1. \A d \in Askers : change[d].pc \in Making => change[d].rev \in DOMAIN record[change[d].ask.kind]
      BY ChangeIs DEF ChangeTrue
    <3>2. \A d \in Askers : d # c /\ change[d].pc \in Making => ~(change[d].ask.kind = t /\ change[d].rev = n)
      BY <2>7, <2>8, <3>1
    <3> QED BY <2>1, <2>5, <2>6, <3>2 DEF RecordInv, Owners
  <2>17. AcksTrue'
    BY <2>4, <2>10, AcksAre DEF AcksTrue
  <2>18. FilesOnFiles'
    <3>1. ASSUME NEW u \in Kinds, NEW i \in DOMAIN record'[u]
          PROVE  (record[u][i].ask.kind = u /\ Extends(record[u][i].ask, i - 1))'
      <4>1. CASE u = t /\ i = n
        <5>1. PICK m \in Nat : m = change[c].rev
          BY ChangeIs
        <5>2. Extends(ask, m) /\ m = n - 1
          <6>1. ChangeTrue(c)
            BY ChangeIs
          <6>2. Extends(change[c].ask, change[c].rev)
            BY <2>4, <6>1 DEF ChangeTrue
          <6> QED BY <2>1, <5>1, <6>2
        <5>3. m = 0 \/ m \in DOMAIN record[t]
          BY <2>4, <5>2, FilesAre
        <5>4. Extends(ask, m)'
          BY <2>1, <2>11, <5>2, <5>3, ExtendsKept
        <5>5. record'[u][i].ask = ask
          BY <2>3, <2>8, <2>9, <4>1
        <5> QED BY <2>1, <4>1, <5>2, <5>4, <5>5 DEF Extends
      <4>2. CASE ~(u = t /\ i = n)
        <5>1. i \in DOMAIN record[u] /\ record'[u][i] = record[u][i]
          BY <2>7, <2>8, <2>9, <2>10, <3>1, <4>2
        <5>2. record[u][i].ask.kind = u /\ Extends(record[u][i].ask, i - 1)
          BY <5>1 DEF RecordInv
        <5>3. PICK b, m : b = record[u][i].ask /\ m = i - 1
          OBVIOUS
        <5>4. m \in Nat /\ (m = 0 \/ m \in DOMAIN record[u])
          BY <5>1, <5>3, FilesAre
        <5>5. Extends(b, m)'
          BY <2>11, <5>2, <5>3, <5>4, ExtendsKept
        <5> QED BY <5>1, <5>2, <5>3, <5>5 DEF Extends
      <4> QED BY <4>1, <4>2
    <3> QED BY <3>1 DEF FilesOnFiles
  <2> QED BY <2>13, <2>14, <2>15, <2>16, <2>17, <2>18 DEF RecordInv, Owners, AcksTrue, FilesOnFiles
<1> QED BY <1>1, <1>2

\* The files of all directories after one file's state changed.
LEMMA StateIs ==
    ASSUME RecordInv, NEW t \in Kinds, NEW n \in DOMAIN record[t], NEW v \in {"part", "written", "synced"},
           record' = [record EXCEPT ![t][n].st = v]
    PROVE  /\ record' \in [Kinds -> Seq(Files)] /\ AsksKept
           /\ record'[t][n] = [ask |-> record[t][n].ask, st |-> v]
           /\ \A u \in Kinds : /\ Len(record'[u]) = Len(record[u]) /\ DOMAIN record'[u] = DOMAIN record[u]
                               /\ \A i \in DOMAIN record[u] : ~(u = t /\ i = n) => record'[u][i] = record[u][i]
<1>1. PICK s \in Seq(Files) : s = record[t]
  BY FilesAre
<1>2. PICK f : f = [s[n] EXCEPT !.st = v]
  OBVIOUS
<1>3. s[n] \in Files
  BY <1>1
<1>4. f \in Files /\ f.ask = s[n].ask /\ f = [ask |-> s[n].ask, st |-> v]
  BY <1>2, <1>3 DEF Files
<1>5. PICK r : r = [s EXCEPT ![n] = f]
  OBVIOUS
<1>6. /\ r \in Seq(Files) /\ Len(r) = Len(s) /\ DOMAIN r = DOMAIN s /\ r[n] = f /\ \A i \in DOMAIN s : i # n => r[i] = s[i]
  BY <1>1, <1>4, <1>5
<1>7. record' = [record EXCEPT ![t] = r]
  BY <1>1, <1>2, <1>5
<1>8. /\ record' \in [Kinds -> Seq(Files)] /\ record'[t] = r /\ \A u \in Kinds : u # t => record'[u] = record[u]
  BY <1>6, <1>7 DEF RecordInv, RecordVarsOK
<1>9. \A u \in Kinds : /\ Len(record'[u]) = Len(record[u]) /\ DOMAIN record'[u] = DOMAIN record[u]
                       /\ \A i \in DOMAIN record[u] : ~(u = t /\ i = n) => record'[u][i] = record[u][i]
  BY <1>1, <1>6, <1>8
<1>10. record'[t][n] = [ask |-> record[t][n].ask, st |-> v] /\ record'[t][n].ask = record[t][n].ask
  BY <1>1, <1>4, <1>6, <1>8
<1> QED BY <1>8, <1>9, <1>10 DEF AsksKept

LEMMA FilesOnFilesKept ==
    ASSUME RecordInv, AsksKept, \A u \in Kinds : DOMAIN record'[u] \subseteq DOMAIN record[u]
    PROVE  FilesOnFiles'
<1>1. ASSUME NEW u \in Kinds, NEW i \in DOMAIN record'[u]
      PROVE  (record[u][i].ask.kind = u /\ Extends(record[u][i].ask, i - 1))'
  <2>1. i \in DOMAIN record[u] /\ record'[u][i].ask = record[u][i].ask
    BY <1>1 DEF AsksKept
  <2>2. record[u][i].ask.kind = u /\ Extends(record[u][i].ask, i - 1)
    BY <2>1 DEF RecordInv
  <2>3. PICK b, m : b = record[u][i].ask /\ m = i - 1
    OBVIOUS
  <2>4. m \in Nat /\ (m = 0 \/ m \in DOMAIN record[u])
    BY <2>1, <2>3, FilesAre
  <2>5. Extends(b, m)'
    BY <2>2, <2>3, <2>4, ExtendsKept
  <2> QED BY <2>1, <2>2, <2>3, <2>5 DEF Extends
<1> QED BY <1>1 DEF FilesOnFiles

LEMMA WritesKeep ==
    ASSUME RecordInv, NEW c \in Askers, WriteRecord(c) \/ SyncRecord(c)
    PROVE  RecordInv'
<1>1. CASE ChangeEnds(c) /\ UNCHANGED record
  BY <1>1, GiveUpKeeps DEF WriteRecord, SyncRecord
<1>2. CASE ~(ChangeEnds(c) /\ UNCHANGED record)
  <2>1. PICK ask \in Asked, t \in Kinds, n \in Nat : ask = change[c].ask /\ t = ask.kind /\ n = change[c].rev
    BY ChangeIs DEF WriteRecord, SyncRecord, ChangeAt
  <2>2. PICK v \in {"written", "synced"}, s \in {"sync", "answer"} :
           /\ record' = [record EXCEPT ![t][n].st = v] /\ ChangeTo(c, s) /\ FileAt[s] = v
           /\ change[c].pc \in {"write", "sync"} /\ UNCHANGED <<entries, acknowledged>>
    BY <1>2, <2>1 DEF WriteRecord, SyncRecord, ChangeAt, Kind, FileAt
  <2>3. /\ n \in DOMAIN record[t] /\ record[t][n] = [ask |-> ask, st |-> FileAt[change[c].pc]]
        /\ change[c].pc \in Making
    BY <2>1, <2>2, ChangeIs DEF ChangeTrue, Making
  <2>4. record[t][n].ask = ask /\ record[t][n].st # "synced"
    BY <2>2, <2>3 DEF FileAt
  <2>5. /\ record' \in [Kinds -> Seq(Files)] /\ AsksKept
        /\ record'[t][n] = [ask |-> ask, st |-> v]
        /\ \A u \in Kinds : /\ Len(record'[u]) = Len(record[u]) /\ DOMAIN record'[u] = DOMAIN record[u]
                            /\ \A i \in DOMAIN record[u] : ~(u = t /\ i = n) => record'[u][i] = record[u][i]
    BY <2>2, <2>3, <2>4, StateIs
  <2>6. PICK w : Moves(c, w) /\ w.pc = s /\ w.ask = ask /\ w.rev = n
    <3>1. s \in Serving /\ change[c].pc # "idle"
      BY <2>2 DEF Serving
    <3> QED BY <2>1, <2>2, <3>1, OnwardRecord
  <2>7. /\ change' \in [Askers -> ChangeRecs] /\ change'[c] = w
        /\ \A d \in Askers : d # c => change'[d] = change[d]
        /\ \A d \in Askers : change'[d].pc # "idle" => change'[d].ask \in Asked
    BY <2>6, MovesIs
  <2>8. RecordVarsOK'
    BY <2>2, <2>5, <2>7 DEF RecordInv, RecordVarsOK, ChangeRecs
  <2>9. ChangeTrue(c)'
    BY <2>1, <2>2, <2>3, <2>5, <2>6, <2>7 DEF ChangeTrue
  <2>10. ASSUME NEW d \in Askers, d # c PROVE ChangeTrue(d)'
    <3>1. ChangeTrue(d) /\ change'[d] = change[d] /\ change[d].ask.kind \in Kinds /\ change[d].rev \in Nat
      BY <2>7, <2>10, ChangeIs
    <3>2. change[d].pc \in Making => ~(change[d].ask.kind = t /\ change[d].rev = n)
      BY <2>1, <2>3, <2>10 DEF RecordInv
    <3>3. change[d].pc = "create" => Extends(change[d].ask, change[d].rev)'
      <4>1. change[d].pc = "create" => change[d].rev = 0 \/ change[d].rev \in DOMAIN record[change[d].ask.kind]
        BY <3>1, FilesAre DEF ChangeTrue
      <4>2. PICK a, m : a = change[d].ask /\ m = change[d].rev
        OBVIOUS
      <4>3. change[d].pc = "create" => Extends(a, m)'
        BY <2>5, <3>1, <4>1, <4>2, ExtendsKept DEF ChangeTrue
      <4> QED BY <3>1, <4>2, <4>3 DEF Extends
    <3> QED BY <2>5, <3>1, <3>2, <3>3 DEF ChangeTrue
  <2>11. Owners'
    BY <2>1, <2>3, <2>6, <2>7 DEF RecordInv, Owners
  <2>12. AcksTrue'
    <3>1. ASSUME NEW a \in acknowledged PROVE ~(a.ask.kind = t /\ a.rev = n)
      <4>1. record[a.ask.kind][a.rev] = [ask |-> a.ask, st |-> "synced"]
        BY AcksAre
      <4>2. record[a.ask.kind][a.rev].st = "synced"
        BY <4>1
      <4> QED BY <2>4, <4>2
    <3> QED BY <2>2, <2>5, <3>1, AcksAre DEF AcksTrue
  <2>13. FilesOnFiles'
    BY <2>5, FilesOnFilesKept
  <2> QED BY <2>8, <2>9, <2>10, <2>11, <2>12, <2>13 DEF RecordInv, Owners, AcksTrue, FilesOnFiles
<1> QED BY <1>1, <1>2

LEMMA AnswerKeeps ==
    ASSUME RecordInv, NEW c \in Askers, AnswerChange(c)
    PROVE  RecordInv'
<1>1. CASE UNCHANGED <<entries, acknowledged>>
  BY <1>1, GiveUpKeeps DEF AnswerChange
<1>2. CASE ~UNCHANGED <<entries, acknowledged>>
  <2>1. PICK ask \in Asked, t \in Kinds, n \in Nat : ask = change[c].ask /\ t = ask.kind /\ n = change[c].rev
    BY ChangeIs DEF AnswerChange, ChangeAt
  <2>2. PICK b : b = [rev |-> n, ask |-> ask]
    OBVIOUS
  <2>3. b \in Acks /\ b.rev = n /\ b.ask = ask
    BY <2>2 DEF Acks
  <2>4. /\ change[c].pc = "answer" /\ entries' = [entries EXCEPT ![t] = Len(record[t])] /\ acknowledged' = acknowledged \cup {b}
        /\ ChangeEnds(c) /\ record' = record
    BY <1>2, <2>1, <2>2 DEF AnswerChange, ChangeAt, Kind, Top
  <2>5. n \in DOMAIN record[t] /\ record[t][n] = [ask |-> ask, st |-> "synced"]
    BY <2>1, <2>4, ChangeIs DEF ChangeTrue, Making, FileAt
  <2>6. /\ entries' \in [Kinds -> Nat] /\ entries'[t] = Len(record[t])
        /\ \A u \in Kinds : entries[u] <= entries'[u] /\ entries'[u] <= Len(record[u]) /\ entries[u] \in Nat /\ entries'[u] \in Nat
    <3>1. entries \in [Kinds -> Nat] /\ Len(record[t]) \in Nat
      BY FilesAre DEF RecordInv, RecordVarsOK
    <3> QED BY <2>4, <3>1, FilesAre
  <2>7. /\ change' \in [Askers -> ChangeRecs] /\ change'[c] = NoChange
        /\ \A d \in Askers : d # c => change'[d] = change[d]
        /\ \A d \in Askers : change'[d].pc # "idle" => change'[d].ask \in Asked
    BY <2>4, EndMoves, MovesIs
  <2>8. RecordVarsOK'
    BY <2>3, <2>4, <2>6, <2>7 DEF RecordInv, RecordVarsOK, ChangeRecs
  <2>9. \A d \in Askers : ChangeTrue(d)'
    <3>1. ChangeTrue(c)'
      BY <2>7, NoChangeIs, EndTrue
    <3>2. \A d \in Askers : d # c => ChangeTrue(d)'
      BY <2>4, <2>7 DEF RecordInv, ChangeTrue, Extends
    <3> QED BY <3>1, <3>2
  <2>10. Owners'
    BY <2>7, NoChangeIs DEF RecordInv, Owners, Making
  <2>11. AcksTrue'
    <3>1. ASSUME NEW a \in acknowledged'
          PROVE  /\ a.rev \in 1 .. entries'[a.ask.kind]
                 /\ record'[a.ask.kind][a.rev] = [ask |-> a.ask, st |-> "synced"]
      <4>1. CASE a \in acknowledged
        BY <2>4, <2>6, <4>1, AcksAre
      <4>2. CASE a = b
        BY <2>1, <2>3, <2>4, <2>5, <2>6, <4>2, FilesAre
      <4> QED BY <2>4, <4>1, <4>2
    <3> QED BY <3>1 DEF AcksTrue
  <2>12. FilesOnFiles'
    BY <2>4 DEF RecordInv, FilesOnFiles, Extends
  <2> QED BY <2>8, <2>9, <2>10, <2>11, <2>12 DEF RecordInv, Owners, AcksTrue, FilesOnFiles
<1> QED BY <1>1, <1>2

\* The service or the machine ends: no request remains.
LEMMA NoneLeft ==
    ASSUME change' = [c \in Askers |-> NoChange]
    PROVE  /\ change' \in [Askers -> ChangeRecs] /\ (\A c \in Askers : ChangeTrue(c)') /\ Owners'
           /\ \A c \in Askers : change'[c].pc = "idle"
<1>1. \A c \in Askers : change'[c] = NoChange
  OBVIOUS
<1>2. change' \in [Askers -> ChangeRecs]
  BY NoChangeIs
<1>3. \A c \in Askers : ChangeTrue(c)'
  BY <1>1, NoChangeIs, EndTrue
<1> QED BY <1>1, <1>2, <1>3, NoChangeIs DEF Owners, Making

LEMMA ServiceEndsKeeps ==
    ASSUME RecordInv, ServiceEnds
    PROVE  RecordInv'
<1>1. UNCHANGED <<record, entries, acknowledged>> /\ change' = [c \in Askers |-> NoChange]
  BY DEF ServiceEnds
<1>2. AcksTrue' /\ FilesOnFiles'
  BY <1>1 DEF RecordInv, AcksTrue, FilesOnFiles, Extends
<1>3. RecordVarsOK'
  BY <1>1, NoneLeft DEF RecordInv, RecordVarsOK, ChangeRecs
<1> QED BY <1>1, <1>2, <1>3, NoneLeft DEF RecordInv, Owners, AcksTrue, FilesOnFiles

LEMMA PowerLossKeeps ==
    ASSUME RecordInv, PowerLoss
    PROVE  RecordInv'
<1>1. PICK keep \in [Kinds -> 0 .. MaxRevision], whole \in BOOLEAN :
        /\ \A t \in Kinds : keep[t] \in entries[t] .. Len(record[t])
        /\ record' = [t \in Kinds |-> [n \in 1 .. keep[t] |->
                         IF record[t][n].st = "written"
                           THEN [record[t][n] EXCEPT !.st = IF whole THEN "synced" ELSE "part"]
                           ELSE record[t][n]]]
        /\ entries' = keep
  BY DEF PowerLoss, Top
<1>2. change' = [c \in Askers |-> NoChange] /\ acknowledged' = acknowledged
  BY DEF PowerLoss
<1>3. PICK v \in {"synced", "part"} : v = IF whole THEN "synced" ELSE "part"
  OBVIOUS
<1>4. ASSUME NEW t \in Kinds
      PROVE  /\ keep[t] \in Nat /\ keep[t] <= Len(record[t]) /\ entries[t] <= keep[t] /\ entries[t] \in Nat
             /\ record'[t] \in Seq(Files) /\ Len(record'[t]) = keep[t] /\ DOMAIN record'[t] = 1 .. keep[t]
             /\ \A n \in 1 .. keep[t] : /\ n \in DOMAIN record[t] /\ record'[t][n].ask = record[t][n].ask
                                        /\ record[t][n].st = "synced" => record'[t][n] = record[t][n]
  <2>1. keep[t] \in Nat /\ keep[t] <= Len(record[t]) /\ entries[t] <= keep[t] /\ entries[t] \in Nat
    BY <1>1, FilesAre, RecordAssumption
  <2>2. ASSUME NEW n \in 1 .. keep[t] PROVE n \in DOMAIN record[t] /\ record[t][n] \in Files
    BY <2>1, FilesAre
  <2>3. PICK r : r = record'[t]
    OBVIOUS
  <2>4. r = [n \in 1 .. keep[t] |-> IF record[t][n].st = "written" THEN [record[t][n] EXCEPT !.st = v] ELSE record[t][n]]
    BY <1>1, <1>3, <2>3
  <2>5. \A f \in Files : [f EXCEPT !.st = v] \in Files /\ [f EXCEPT !.st = v].ask = f.ask
    BY DEF Files
  <2>6. \A n \in 1 .. keep[t] : /\ r[n] \in Files /\ r[n].ask = record[t][n].ask
                                /\ record[t][n].st = "synced" => r[n] = record[t][n]
    BY <2>2, <2>4, <2>5
  <2>7. r \in Seq(Files) /\ Len(r) = keep[t] /\ DOMAIN r = 1 .. keep[t]
    <3>1. r \in [1 .. keep[t] -> Files] /\ DOMAIN r = 1 .. keep[t]
      BY <2>4, <2>6
    <3>2. r \in Seq(Files)
      BY <2>1, <3>1, SeqDef
    <3>3. Len(r) \in Nat /\ 1 .. Len(r) = 1 .. keep[t]
      BY <3>1, <3>2, LenProperties
    <3> QED BY <2>1, <3>1, <3>2, <3>3
  <2> QED BY <2>1, <2>2, <2>3, <2>6, <2>7
<1>5. record' \in [Kinds -> Seq(Files)] /\ entries' \in [Kinds -> Nat]
  BY <1>1, <1>4
<1>6. RecordVarsOK'
  <2>1. \A t \in Kinds : entries'[t] <= Len(record'[t])
    BY <1>1, <1>4
  <2> QED BY <1>2, <1>5, <2>1, NoneLeft DEF RecordInv, RecordVarsOK, ChangeRecs
<1>7. AcksTrue'
  <2>1. ASSUME NEW a \in acknowledged
        PROVE  /\ a.rev \in 1 .. entries'[a.ask.kind]
               /\ record'[a.ask.kind][a.rev] = [ask |-> a.ask, st |-> "synced"]
    <3>1. /\ a.ask.kind \in Kinds /\ a.rev \in 1 .. entries[a.ask.kind]
          /\ record[a.ask.kind][a.rev] = [ask |-> a.ask, st |-> "synced"]
      BY AcksAre
    <3>2. a.rev \in 1 .. keep[a.ask.kind] /\ record[a.ask.kind][a.rev].st = "synced"
      BY <1>4, <3>1
    <3> QED BY <1>1, <1>4, <3>1, <3>2
  <2> QED BY <1>2, <2>1 DEF AcksTrue
<1>8. FilesOnFiles'
  <2>1. ASSUME NEW u \in Kinds, NEW i \in DOMAIN record'[u]
        PROVE  (record[u][i].ask.kind = u /\ Extends(record[u][i].ask, i - 1))'
    <3>1. i \in 1 .. keep[u] /\ i \in DOMAIN record[u] /\ record'[u][i].ask = record[u][i].ask
      BY <1>4, <2>1
    <3>2. record[u][i].ask.kind = u /\ Extends(record[u][i].ask, i - 1)
      BY <3>1 DEF RecordInv
    <3>3. PICK b, m : b = record[u][i].ask /\ m = i - 1
      OBVIOUS
    <3>4. m \in Nat /\ (m = 0 \/ record'[u][m].ask = record[u][m].ask)
      BY <1>4, <3>1, <3>3
    <3>5. Extends(b, m)'
      BY <3>2, <3>3, <3>4, ExtendsSame
    <3> QED BY <3>1, <3>2, <3>3, <3>5 DEF Extends
  <2> QED BY <2>1 DEF FilesOnFiles
<1> QED BY <1>2, <1>6, <1>7, <1>8, NoneLeft DEF RecordInv, Owners, AcksTrue, FilesOnFiles

LEMMA RecordStepKeeps ==
    ASSUME RecordInv, RecordNext \/ UNCHANGED recordVars
    PROVE  RecordInv'
<1>1. CASE UNCHANGED recordVars
  <2>1. UNCHANGED <<record, entries, change, acknowledged>>
    BY <1>1 DEF recordVars
  <2>2. RecordVarsOK' /\ Owners' /\ AcksTrue'
    BY <2>1 DEF RecordInv, RecordVarsOK, Owners, AcksTrue
  <2>3. (\A c \in Askers : ChangeTrue(c)') /\ FilesOnFiles'
    BY <2>1 DEF RecordInv, ChangeTrue, FilesOnFiles, Extends
  <2> QED BY <2>2, <2>3 DEF RecordInv, Owners, AcksTrue, FilesOnFiles
<1>2. CASE RecordNext
  BY <1>2, ServiceEndsKeeps, PowerLossKeeps, ReceiveKeeps, ReadsKeep, CreateKeeps, WritesKeep, AnswerKeeps DEF RecordNext
<1> QED BY <1>1, <1>2

LEMMA RecordInitTrue == ASSUME RecordInit PROVE RecordInv
<1>1. \A c \in Askers : change[c] = NoChange
  BY DEF RecordInit
<1>2. \A t \in Kinds : record[t] = <<>> /\ DOMAIN record[t] = {} /\ entries[t] = 0 /\ Len(record[t]) = 0
  BY DEF RecordInit
<1>3. RecordVarsOK
  <2>1. change \in [Askers -> ChangeRecs]
    BY NoChangeIs DEF RecordInit
  <2>2. record \in [Kinds -> Seq(Files)] /\ entries \in [Kinds -> Nat]
    BY DEF RecordInit
  <2> QED BY <1>1, <1>2, <2>1, <2>2, NoChangeIs DEF RecordInit, RecordVarsOK, ChangeRecs
<1>4. \A c \in Askers : ChangeTrue(c)
  BY <1>1, NoChangeIs DEF ChangeTrue, Making
<1>5. Owners /\ AcksTrue /\ FilesOnFiles
  BY <1>1, <1>2, NoChangeIs DEF Owners, AcksTrue, FilesOnFiles, Making, RecordInit
<1> QED BY <1>3, <1>4, <1>5 DEF RecordInv, Owners, AcksTrue, FilesOnFiles

LEMMA RecordsHold == ASSUME RecordInv PROVE RecordsTrue
<1>1. AcknowledgedKept
  <2>1. ASSUME NEW a \in acknowledged
        PROVE  a.rev <= Top(a.ask.kind) /\ record[a.ask.kind][a.rev] = [ask |-> a.ask, st |-> "synced"]
    BY AcksAre, FilesAre DEF Top
  <2> QED BY <2>1 DEF AcknowledgedKept
<1>2. OnPredecessor
  <2>1. ASSUME NEW t \in Kinds, NEW n \in 1 .. Top(t)
        PROVE  LET ask == record[t][n].ask
               IN  IF t = "declaration" THEN ask.on = (IF n = 1 THEN NoBody ELSE record[t][n - 1].ask.body)
                   ELSE /\ ask.on = n - 1
                        /\ n > 1 /\ record[t][n - 1].ask.where # ask.where => ask.evidence
    <3>1. n \in DOMAIN record[t] /\ n \in Nat
      BY FilesAre DEF Top
    <3>2. record[t][n].ask.kind = t /\ Extends(record[t][n].ask, n - 1)
      BY <3>1 DEF RecordInv
    <3> QED BY <3>1, <3>2 DEF Extends, Kinds
  <2> QED BY <2>1 DEF OnPredecessor
<1> QED BY <1>1, <1>2 DEF RecordsTrue

(********************************* what is added *************************************)
AddInv == SeedInv /\ FeedInv /\ RecordInv

\* In every state the one preparation of a cache, the files of a home and the records of a
\* seat agree with those who are making them: each maker is alone at what it makes, and what
\* was signed, published or acknowledged rests on what was retained or synced before it
\* (pomar-native-cache-seed/main.go, releasefeedissuer, seatapi.go, location.go).
THEOREM AddInvariant == OwnerSpec => []AddInv
<1>1. OwnerInit => AddInv
  BY SeedInitTrue, FeedInitTrue, RecordInitTrue DEF OwnerInit, AddInv
<1>2. AddInv /\ [OwnerNext]_ownerVars => AddInv'
  BY SeedStepKeeps, FeedStepKeeps, RecordStepKeeps, OwnerStepIs DEF AddInv
<1> QED BY <1>1, <1>2, PTL DEF OwnerSpec

\* A receipt stands beside complete caches, a home signs its sequences once and in order and
\* publishes what it retained and signed by the trusted key, and an acknowledged record of a
\* seat stays and extends what its author had read, whatever fails, is killed or loses power.
THEOREM AddedIsTrue == OwnerSpec => []AddOnlyTrue
<1>1. AddInv => AddOnlyTrue
  BY FeedHolds, RecordsHold DEF AddInv, AddOnlyTrue, SeedInv
<1> QED BY <1>1, AddInvariant, PTL
=============================================================================

------------------------------ MODULE Upgrade ------------------------------
(***************************************************************************)
(* The replacement of a running service's two binaries                     *)
(* (internal/serviceupgrade): apply, check and rollback, against launchd,  *)
(* the manager it supervises and the callers that manager admits.          *)
(*                                                                         *)
(* An operation is a sequence of reads and writes on the host, between any *)
(* two of which a caller may start an attempt, the manager may die and be  *)
(* launched again, the host may reboot or the operation itself may end.    *)
(* The manager keeps its drain in memory only; what outlives it is the mode*)
(* of its control directory.  An operation that ends early leaves its      *)
(* archive and journal, and is finished by a rollback from that archive.   *)
(*                                                                         *)
(* "old" and "new" are the manifest's baseline and target build.  Writes   *)
(* are durableWrite: each happens whole or not at all, and the operation   *)
(* may end right before or right after it.                                 *)
(***************************************************************************)
EXTENDS Integers, Sequences

CONSTANTS
    MaxApplies,   \* bound: archives made, one by each apply
    MaxAttempts,  \* bound: attempts callers start
    MaxMishaps    \* bound: ended operations, reboots, dead managers, edited files

ASSUME UpgradeAssumption ==
    /\ MaxApplies \in Nat \ {0} /\ MaxAttempts \in Nat /\ MaxMishaps \in Nat

VARIABLES
    bin,       \* the installed binaries, pomar and pomar-host
    rec,       \* install-record: whose qualification the service carries
    open,      \* the control directory has mode 0750, not 0700
    loaded,    \* launchd has the job
    manager,   \* the build of pomar the manager runs, "none" where it is not running
    draining,  \* the running manager's drain
    history,   \* the attempts admitted, each as the build that admitted it
    live,      \* the last of them has not ended; its helper is a writer
    stage,     \* the root-private copy of the payload
    retained,  \* the retained files (policies, keys, plist) are as the manifest pins them
    journal,   \* per archive, its journal.json
    op,        \* the operation holding product-upgrade.lock, and its next step
    mishaps

vars == <<bin, rec, open, loaded, manager, draining, history, live, stage, retained,
          journal, op, mishaps>>
files   == <<bin, rec>>
service == <<open, loaded, manager, draining>>
work    == <<history, live>>

Archives == 1 .. MaxApplies
Builds   == {"old", "new"}
\* The install record: the one pinned by the manifest, the invalidated one, or the
\* target record, which names its archive (prev_archive).
beforeRecord == 0
invalidatedRecord == -1
Records  == {beforeRecord, invalidatedRecord} \cup Archives
Phases   == {"none", "fencing", "stopping", "installing", "starting", "verifying",
             "opening", "complete", "rolling-back", "rolled-back"}
Steps    == {"idle", "inspect", "inspected", "archive", "save", "fence", "reobserve",
             "reobserved", "restore", "stop", "drained", "close", "recheck", "bootout",
             "absent", "pending", "pomar", "host", "record", "start", "redrain", "verify",
             "readback", "confirm", "open", "lift"}
Idle     == [kind |-> "none", archive |-> 0, step |-> "idle", to |-> "none",
             fenced |-> FALSE, same |-> FALSE, seen |-> <<>>]
NoJournal == [phase |-> "none", history |-> <<>>]
Histories == UNION {[1 .. n -> Builds] : n \in 0 .. MaxAttempts}

TypeOK ==
    /\ bin \in [{"pomar", "host"} -> Builds] /\ rec \in Records
    /\ open \in BOOLEAN /\ loaded \in BOOLEAN /\ draining \in BOOLEAN
    /\ manager \in Builds \cup {"none"}
    /\ history \in Histories /\ live \in BOOLEAN
    /\ stage \in {"none", "partial", "whole"} /\ retained \in BOOLEAN
    /\ journal \in [Archives -> [phase : Phases, history : Histories]]
    /\ op \in [kind : {"none", "apply", "rollback"}, archive : 0 .. MaxApplies,
               step : Steps, to : Phases, fenced : BOOLEAN, same : BOOLEAN,
               seen : Histories]
    /\ mishaps \in 0 .. MaxMishaps

Init ==
    /\ bin = [pomar |-> "old", host |-> "old"] /\ rec = beforeRecord
    /\ open = TRUE /\ loaded = TRUE /\ manager = "old" /\ draining = FALSE
    /\ history = <<>> /\ live = FALSE
    /\ stage = "none" /\ retained = TRUE
    /\ journal = [a \in Archives |-> NoJournal]
    /\ op = Idle /\ mishaps = 0
-----------------------------------------------------------------------------
(* What an operation reads and decides.                                    *)

Running == manager # "none"

\* absent: the job is not loaded and no process of the owner's account remains.
absent == ~loaded /\ ~live

\* writerInventory: the manager is the only process of the owner's account.
noWriters == ~live

\* The capacity answer drained and idle, which Stop, Start, Verify and Open ask for.
idleDrain == Running /\ draining /\ ~live

\* process: a running job; the operation keeps its pid and birth in op.same, which a
\* new process of the same job resets.
process == loaded /\ Running

retainedCheck == retained

\* identity, Decode, pinnedFile and targetSignature over the staged payload.
Staged == stage = "whole"

At(s) == op.step = s

Goto(s) == op' = [op EXCEPT !.step = s]

\* The phase is saved before its effect.
Then(phase) == op' = [op EXCEPT !.step = "save", !.to = phase]

\* The operation returns an error: nothing is undone, the lock goes with the process.
Stopped == op' = Idle /\ UNCHANGED <<files, service, work, stage, retained, journal, mishaps>>

Check(ok, s) ==
    \/ ok /\ Goto(s) /\ UNCHANGED <<files, service, work, stage, retained, journal, mishaps>>
    \/ ~ok /\ Stopped

After == [fencing |-> "fence", stopping |-> "reobserve", installing |-> "absent",
          starting |-> "start", verifying |-> "verify", opening |-> "open",
          complete |-> "idle"]
AfterRollback == [x \in {"rolling-back", "rolled-back"} |->
                    IF x = "rolling-back" THEN "fence" ELSE "idle"]
-----------------------------------------------------------------------------
(* Staging and the start of an operation.                                  *)

\* Stage may end after any of its files.
Stage ==
    /\ stage # "whole"
    /\ stage' \in {"partial", "whole"}
    /\ UNCHANGED <<files, service, work, retained, journal, op, mishaps>>

\* Execute "apply": Lock, then Check over the frozen baseline.
BaselineInstalled == rec = beforeRecord /\ \A b \in DOMAIN bin : bin[b] = "old"
Apply ==
    /\ op.kind = "none" /\ Staged /\ retainedCheck /\ BaselineInstalled
    /\ \E a \in Archives :
        /\ journal[a].phase = "none"
        /\ \A b \in Archives : b < a => journal[b].phase # "none"
        /\ op' = [Idle EXCEPT !.kind = "apply", !.archive = a, !.step = "inspect"]
    /\ UNCHANGED <<files, service, work, stage, retained, journal, mishaps>>

\* Execute "rollback": Lock, LoadRollback, Check.
LoadRollbackKnown(a) ==
    /\ journal[a].phase # "none"
    /\ rec \in {beforeRecord, a}
LoadRollback(a) ==
    /\ journal[a].phase # "none"
    /\ rec \in {beforeRecord, invalidatedRecord, a}
recoveryObservation(a) ==
    IF process THEN noWriters /\ history = journal[a].history ELSE absent
Rollback(a) ==
    /\ op.kind = "none" /\ Staged /\ retainedCheck
    /\ LoadRollback(a) /\ recoveryObservation(a)
    /\ op' = [Idle EXCEPT !.kind = "rollback", !.archive = a, !.step = "save",
                          !.to = "rolling-back", !.seen = journal[a].history]
    /\ UNCHANGED <<files, service, work, stage, retained, journal, mishaps>>
-----------------------------------------------------------------------------
(* The steps of an operation.                                              *)

\* Observe, first half: the process, then the history, every entry of it terminal; an
\* owner drain that is not this operation's own is refused.
ObserveBegin(s, t) ==
    /\ At(s)
    /\ \/ /\ process /\ ~live
          /\ draining => (op.fenced \/ op.kind = "rollback")
          /\ op' = [op EXCEPT !.step = t, !.same = TRUE, !.seen = history]
          /\ UNCHANGED <<files, service, work, stage, retained, journal, mishaps>>
       \/ /\ ~(process /\ ~live /\ (draining => (op.fenced \/ op.kind = "rollback")))
          /\ Stopped
\* Observe, second half: the same process still, and no writer but it.
Observed == process /\ op.same /\ noWriters

Inspect == ObserveBegin("inspect", "inspected")
Inspected == At("inspected") /\ Check(Observed, "archive")

\* Archive: the pinned binaries, record and manifest; a failure leaves an archive that
\* has no journal, from which nothing can be rolled back.
Archive ==
    /\ At("archive")
    /\ \/ /\ BaselineInstalled /\ Staged
          /\ Then("fencing")
          /\ UNCHANGED <<files, service, work, stage, retained, journal, mishaps>>
       \/ ~(BaselineInstalled /\ Staged) /\ Stopped

\* Save.  The first save creates the journal with the observation before.
Save ==
    /\ At("save")
    /\ journal' = [journal EXCEPT ![op.archive] =
                     [phase |-> op.to,
                      history |-> IF @.phase = "none" THEN op.seen ELSE @.history]]
    /\ LET s == IF op.kind = "apply" THEN After[op.to] ELSE AfterRollback[op.to]
       IN op' = IF s = "idle" THEN Idle ELSE [op EXCEPT !.step = s]
    /\ UNCHANGED <<files, service, work, stage, retained, mishaps>>

\* Fence: the owner's drain.  A rollback may find no manager to drain: it then needs
\* the service absent, and closes the directory.
Fence ==
    /\ At("fence")
    /\ \/ /\ Running
          /\ draining' = TRUE
          /\ IF live THEN op' = Idle
             ELSE IF op.kind = "apply"
                  THEN op' = [op EXCEPT !.fenced = TRUE, !.step = "save", !.to = "stopping"]
                  ELSE op' = [op EXCEPT !.fenced = TRUE, !.step = "restore"]
          /\ UNCHANGED <<files, open, loaded, manager, work, stage, retained, journal, mishaps>>
       \/ /\ ~Running /\ op.kind = "rollback" /\ absent
          /\ open' = FALSE /\ Goto("restore")
          /\ UNCHANGED <<files, loaded, manager, draining, work, stage, retained, journal, mishaps>>
       \/ ~Running /\ ~(op.kind = "rollback" /\ absent) /\ Stopped

\* Apply observes again before it stops anything: the observation must equal Before.
Reobserve ==
    /\ At("reobserve")
    /\ Check(process /\ op.same /\ ~live /\ history = journal[op.archive].history
               /\ (draining => op.fenced), "reobserved")
Reobserved == At("reobserved") /\ Check(Observed, "stop")

\* Restore, up to the stop of a running manager.
RestoreTrusting ==
    /\ At("restore")
    /\ \/ /\ process /\ ~live
          /\ op' = [op EXCEPT !.step = "stop", !.same = TRUE]
          /\ UNCHANGED <<files, service, work, stage, retained, journal, mishaps>>
       \/ process /\ live /\ Stopped
       \/ ~process /\ Check(absent, "absent")
Restore ==
    /\ At("restore")
    /\ \/ /\ process /\ ~live /\ history = journal[op.archive].history
          /\ op' = [op EXCEPT !.step = "stop", !.same = TRUE]
          /\ UNCHANGED <<files, service, work, stage, retained, journal, mishaps>>
       \/ /\ process /\ ~(~live /\ history = journal[op.archive].history)
          /\ Stopped
       \/ ~process /\ Check(absent, "absent")

\* Stop: the process by identity, no writer, drained and idle; then the directory is
\* closed, and the identity is read once more before launchd is told.
StopProcess == At("stop") /\ Check(Observed, "drained")
StopDrained == At("drained") /\ Check(idleDrain, "close")
closeControl ==
    /\ At("close")
    /\ open' = FALSE /\ Goto("recheck")
    /\ UNCHANGED <<files, loaded, manager, draining, work, stage, retained, journal, mishaps>>
RecheckDropped == At("recheck") /\ Check(process, "bootout")
Recheck == At("recheck") /\ Check(process /\ op.same, "bootout")
Bootout ==
    /\ At("bootout")
    /\ loaded' = FALSE /\ manager' = "none" /\ draining' = FALSE
    /\ IF op.kind = "apply" THEN Then("installing") ELSE Goto("absent")
    /\ UNCHANGED <<files, open, work, stage, retained, journal, mishaps>>

\* Replace and Restore begin with the service absent and the record known.
Absent ==
    /\ At("absent")
    /\ Check(absent /\ retainedCheck /\ (op.kind = "apply" => rec = beforeRecord),
             IF op.kind = "apply" THEN "pending" ELSE "pomar")

\* Replace first takes the qualification out of the record.
Pending ==
    /\ At("pending")
    /\ rec' = invalidatedRecord /\ Goto("pomar")
    /\ UNCHANGED <<bin, service, work, stage, retained, journal, mishaps>>

\* Replace writes over the baseline only, Restore over either build.
Wanted == IF op.kind = "apply" THEN "new" ELSE "old"
Replace(b, s) ==
    /\ At(b)
    /\ \/ /\ op.kind = "apply" => (bin[b] = "old" /\ Staged)
          /\ bin' = [bin EXCEPT ![b] = Wanted] /\ Goto(s)
          /\ UNCHANGED <<rec, service, work, stage, retained, journal, mishaps>>
       \/ op.kind = "apply" /\ ~(bin[b] = "old" /\ Staged) /\ Stopped
ReplacePomar == Replace("pomar", "host")
ReplaceHost  == Replace("host", "record")

\* targetRecord after Replace, the archived record after Restore.
ExpectedRecord == IF op.kind = "apply" THEN op.archive ELSE beforeRecord
Record ==
    /\ At("record")
    /\ rec' = ExpectedRecord
    /\ IF op.kind = "apply" THEN Then("starting") ELSE Goto("start")
    /\ UNCHANGED <<bin, service, work, stage, retained, journal, mishaps>>

\* Start: bootstrap behind the closed directory, wait until the new manager answers,
\* drain it.
Start ==
    /\ At("start")
    /\ \/ /\ absent /\ ~open /\ retainedCheck
          /\ loaded' = TRUE /\ manager' = bin.pomar /\ draining' = FALSE
          /\ Goto("redrain")
          /\ UNCHANGED <<files, open, work, stage, retained, journal, mishaps>>
       \/ ~(absent /\ ~open /\ retainedCheck) /\ Stopped
Redrain ==
    /\ At("redrain")
    /\ \/ /\ Running
          /\ draining' = TRUE
          /\ IF live THEN op' = Idle
             ELSE IF op.kind = "apply" THEN Then("verifying") ELSE Goto("verify")
          /\ UNCHANGED <<files, open, loaded, manager, work, stage, retained, journal, mishaps>>
       \/ ~Running /\ Stopped

\* Verify: the installed set, the drain, and only then the directory for the readbacks.
Verified == /\ retainedCheck /\ rec = ExpectedRecord
            /\ \A b \in DOMAIN bin : bin[b] = Wanted
Verify ==
    /\ At("verify")
    /\ \/ /\ Verified /\ idleDrain
          /\ open' = TRUE /\ Goto("readback")
          /\ UNCHANGED <<files, loaded, manager, draining, work, stage, retained, journal, mishaps>>
       \/ ~(Verified /\ idleDrain) /\ Stopped

\* The readbacks of Verify; a failed one closes the directory again.
Reclosed == /\ op' = Idle /\ open' = FALSE
            /\ UNCHANGED <<files, loaded, manager, draining, work, stage, retained, journal, mishaps>>
Readback ==
    /\ At("readback")
    /\ \/ /\ process /\ ~live /\ history = journal[op.archive].history
          /\ op' = [op EXCEPT !.step = "confirm", !.same = TRUE]
          /\ UNCHANGED <<files, service, work, stage, retained, journal, mishaps>>
       \/ ~(process /\ ~live /\ history = journal[op.archive].history) /\ Reclosed
Confirm ==
    /\ At("confirm")
    /\ \/ /\ Observed
          /\ IF op.kind = "apply" THEN Then("opening") ELSE Goto("open")
          /\ UNCHANGED <<files, service, work, stage, retained, journal, mishaps>>
       \/ ~Observed /\ Reclosed

\* Open: the verified drain must still be there; then it is lifted.
Open == At("open") /\ Check(retainedCheck /\ open /\ idleDrain, "lift")
Lift ==
    /\ At("lift")
    /\ \/ /\ Running
          /\ draining' = FALSE
          /\ Then(IF op.kind = "apply" THEN "complete" ELSE "rolled-back")
          /\ UNCHANGED <<files, open, loaded, manager, work, stage, retained, journal, mishaps>>
       \/ ~Running /\ Stopped

Step ==
    \/ Inspect \/ Inspected \/ Archive \/ Save \/ Fence \/ Reobserve \/ Reobserved \/ Restore
    \/ StopProcess \/ StopDrained \/ closeControl \/ Recheck \/ Bootout \/ Absent \/ Pending
    \/ ReplacePomar \/ ReplaceHost \/ Record \/ Start \/ Redrain \/ Verify \/ Readback
    \/ Confirm \/ Open \/ Lift
-----------------------------------------------------------------------------
(* The rest of the host.                                                   *)

\* A caller starts an attempt: through the directory, past the drain.
Admitting == open /\ Running /\ ~draining
Admit ==
    /\ Admitting /\ ~live /\ Len(history) < MaxAttempts
    /\ history' = Append(history, manager) /\ live' = TRUE
    /\ UNCHANGED <<files, service, stage, retained, journal, op, mishaps>>
End ==
    /\ live /\ live' = FALSE
    /\ UNCHANGED <<files, service, history, stage, retained, journal, op, mishaps>>

Mishap == mishaps < MaxMishaps /\ mishaps' = mishaps + 1

\* An owner drains for reasons of their own, or lifts such a drain.
OwnerDrain ==
    /\ op.kind = "none" /\ Running /\ Mishap
    /\ draining' = ~draining
    /\ UNCHANGED <<files, open, loaded, manager, work, stage, retained, journal, op>>

Die ==
    /\ Running /\ Mishap
    /\ manager' = "none" /\ draining' = FALSE /\ op' = [op EXCEPT !.same = FALSE]
    /\ UNCHANGED <<files, open, loaded, work, stage, retained, journal>>

\* launchd starts the loaded job again; a new manager starts undrained.
Relaunch ==
    /\ loaded /\ ~Running
    /\ manager' = bin.pomar /\ draining' = FALSE
    /\ UNCHANGED <<files, open, loaded, work, stage, retained, journal, op, mishaps>>

\* The operation's process is killed, or a command of it fails: as in Stopped, except
\* that Verify closes the directory it opened, if it still can.
Abort ==
    /\ op.kind # "none" /\ Mishap
    /\ op' = Idle
    /\ open' \in (IF op.step \in {"readback", "confirm"} THEN {open, FALSE} ELSE {open})
    /\ UNCHANGED <<files, loaded, manager, draining, work, stage, retained, journal>>

\* At boot launchd loads the job from its plist whatever was told to it before.
Reboot ==
    /\ Mishap
    /\ op' = Idle /\ loaded' = TRUE /\ manager' = "none" /\ draining' = FALSE
    /\ live' = FALSE
    /\ UNCHANGED <<files, open, history, stage, retained, journal>>

\* A retained file is edited, and put back as pinned.
Edit    == /\ retained /\ Mishap /\ retained' = FALSE
           /\ UNCHANGED <<files, service, work, stage, journal, op>>
PutBack == /\ ~retained /\ retained' = TRUE
           /\ UNCHANGED <<files, service, work, stage, journal, op, mishaps>>

Next ==
    \/ Stage \/ Apply \/ (\E a \in Archives : Rollback(a)) \/ Step
    \/ Admit \/ End \/ OwnerDrain \/ Die \/ Relaunch \/ Abort \/ Reboot \/ Edit \/ PutBack

\* The tool runs on once it is started, launchd keeps the job alive, attempts end, and
\* the operator puts files back and asks for a rollback until one is taken.
Fairness ==
    /\ WF_vars(Step) /\ WF_vars(Relaunch) /\ WF_vars(End) /\ WF_vars(PutBack)
    /\ WF_vars(Stage)
    /\ \A a \in Archives : SF_vars(Rollback(a))

Spec == Init /\ [][Next]_vars /\ Fairness
-----------------------------------------------------------------------------
(* Properties.                                                             *)

\* Callers are only ever admitted to a service whose two binaries, running manager and
\* install record are of one build, whatever died in between: the directory is closed
\* before the first file changes and opened after the whole set was verified.
ServesOneBuild ==
    Admitting => /\ \A b \in DOMAIN bin : bin[b] = manager
                 /\ (rec = beforeRecord <=> manager = "old") /\ rec # invalidatedRecord

\* A record that still carries the baseline's qualification is about the files beside
\* it, and a host whose files are not the baseline's has a journal that says so: a
\* crash cannot look like no change.
RecordTrue ==
    /\ rec = beforeRecord => \A b \in DOMAIN bin : bin[b] = "old"
    /\ ~BaselineInstalled => \E a \in Archives :
         journal[a].phase \notin {"none", "fencing", "stopping", "rolled-back"}

\* Rollback is refused once the target build has done work: no attempt of the target's
\* is ever left to a baseline binary.
NoWorkUndone ==
    (\E i \in DOMAIN history : history[i] = "new") => \A b \in DOMAIN bin : bin[b] = "new"

\* The host is of one build in all that can be seen of it: what serves, what the record
\* and the journal say, and what has done work (Native.Replace, Restore, Open).
OneBuild == ServesOneBuild /\ RecordTrue /\ NoWorkUndone

\* No operation unloads the service while an attempt is live, and none replaces a file
\* while a manager runs or an attempt is live.
NothingLiveTouched ==
    [][/\ (loaded /\ ~loaded') => ~live
       /\ (files' # files) => (~Running /\ ~live)]_vars

\* An operation that was cut short can be finished by a rollback from its archive,
\* wherever it was cut, unless a caller was served since or a later operation's record
\* has taken the place of its own.
Cut(a) == journal[a].phase \notin {"none", "complete", "rolled-back"}
RollbackFinishes ==
    \A a \in Archives :
        Cut(a) ~> (~Cut(a) \/ history # journal[a].history \/ rec \in Archives \ {a})
=============================================================================

----------------------------- MODULE AgentHost -----------------------------
(***************************************************************************)
(* The owner of agent environments (internal/agentenv/host.go,             *)
(* reconcile.go, predecessor.go, retirement.go, harness_switch.go) and the *)
(* helper that owns an environment's VM (AgentEnvironment.swift).          *)
(*                                                                         *)
(* One environment is followed.  Each launch is a new incarnation, numbered*)
(* 1, 2, ...; 0 is the incarnation a creation gives.  The host keeps the   *)
(* environment in memory and saves it whole, in environment.json; a failed *)
(* save stops every later mutation of this host process.  A new incarnation*)
(* may only be launched once the execution of the last one is known to be  *)
(* over, and that knowledge has to survive the host's death at any point.  *)
(*                                                                         *)
(* Operations on an environment exclude one another (operationMu) and hold *)
(* the host's lock, except while a stop waits for the VM's receipt.        *)
(***************************************************************************)
EXTENDS Integers, FiniteSets

CONSTANTS
    MaxLaunches,  \* bound: incarnations launched
    MaxOps,       \* bound: operations recorded for one incarnation
    MaxMishaps    \* bound: failed writes, deaths of the host, losses of the disk

ASSUME AgentHostAssumption ==
    /\ MaxLaunches \in Nat /\ MaxOps \in Nat /\ MaxMishaps \in Nat

VARIABLES
    up,        \* a host process holds host.lock
    mem,       \* h.envs[id]
    disk,      \* environment.json; phase "absent" where there is none
    dir,       \* the environment's directory exists
    fatal,     \* h.fatal
    gate,      \* the incarnation whose egress gate is open, 0 for none
    child,     \* incarnations this host process waits for (cmd.Wait)
    config,    \* per incarnation, what its vm-config says of the disk
    helper,    \* per incarnation, its helper process
    code,      \* per incarnation, how the helper ended
    receipt,   \* per incarnation, vm-status: "none", "up" or "stopped"
    exec,      \* incarnations whose VM executes
    root,      \* workspace.ext4
    op,        \* the operation in progress
    mishaps

vars == <<up, mem, disk, dir, fatal, gate, child, config, helper, code, receipt, exec,
          root, op, mishaps>>
vmVars == <<config, helper, code, receipt, exec, root>>

Launched == 1 .. MaxLaunches
Inc      == 0 .. MaxLaunches
Ops      == 1 .. MaxOps
Defunct  == -1      \* a process found already dead: its arguments bind nothing
Phases   == {"absent", "created", "launching", "running", "revoking", "reconciling",
             "execution_unknown", "stopped", "fenced", "retired"}
Kinds    == {"none", "start", "stop", "replace", "reconcile", "retire"}
\* Of the journal's Actions, those that name the current incarnation as expected or
\* resulting are kept: no other is read again, except to answer its own id.
\* The network and adapter revocations of a Fence are always set, its other two with
\* either confirmation: by the VM's receipt, or by the native probe.
Fence    == [inc : Inc, state : {"unknown", "confirmed", "confirmed_current"}]
NoFence  == [inc |-> 0, state |-> "unknown"]
Confirmed(f) == f.state # "unknown"
ConfirmedFence(f, i) == f.inc = i /\ Confirmed(f)
Action   == [kind : Kinds, expected : Inc,
             state : {"none", "dispatching", "completed", "unknown", "cleanup_pending"},
             fence : Fence, result : Inc,
             eligible : BOOLEAN, preboot : BOOLEAN,        \* Reconciliation
             switch : {"none", "prepared", "selected"}]    \* HarnessSwitch
NoAction == [kind |-> "none", expected |-> 0, state |-> "none", fence |-> NoFence,
             result |-> 0, eligible |-> FALSE, preboot |-> FALSE, switch |-> "none"]
Environment == [phase : Phases, inc : Inc, process : Inc \cup {Defunct}, fence : Fence,
                current : 0 .. MaxOps, exit : {"none", "refused", "other"},
                retain : BOOLEAN, harness : {"codex", "claude"},
                n : 0 .. MaxOps, actions : [Ops -> Action]]
NoEnvironment == [phase |-> "absent", inc |-> 0, process |-> 0, fence |-> NoFence,
                  current |-> 0, exit |-> "none", retain |-> FALSE, harness |-> "codex",
                  n |-> 0, actions |-> [i \in Ops |-> NoAction]]
Created  == [NoEnvironment EXCEPT !.phase = "created"]
Steps    == {"idle", "revoke", "wait", "bind", "select", "selected", "start", "launch",
             "spawn", "record", "probe", "finish", "unlink", "unlinked"}
Idle     == [kind |-> "none", id |-> 0, step |-> "idle", to |-> "idle", err |-> FALSE]

TypeOK ==
    /\ {up, dir, fatal} \subseteq BOOLEAN
    /\ {mem, disk} \subseteq Environment
    /\ gate \in Inc
    /\ child \subseteq Launched /\ exec \subseteq Launched
    /\ config \in [Launched -> {"none", "fresh", "retain"}]
    /\ helper \in [Launched -> {"none", "spawned", "booting", "running", "stopped", "gone"}]
    /\ code \in [Launched -> {"none", "refused", "other"}]
    /\ receipt \in [Launched -> {"none", "up", "stopped"}]
    /\ root \in {"none", "made", "lost", "deleted"}
    /\ op \in [kind : Kinds, id : 0 .. MaxOps, step : Steps, to : Steps, err : BOOLEAN]
    /\ mishaps \in 0 .. MaxMishaps

Init ==
    /\ up = TRUE /\ dir = FALSE /\ fatal = FALSE
    /\ mem = NoEnvironment /\ disk = NoEnvironment
    /\ gate = 0 /\ child = {} /\ exec = {}
    /\ config = [i \in Launched |-> "none"]
    /\ helper = [i \in Launched |-> "none"]
    /\ code = [i \in Launched |-> "none"]
    /\ receipt = [i \in Launched |-> "none"]
    /\ root = "none" /\ op = Idle /\ mishaps = 0

----------------------------------------------------------------------------
\* What the host asks of the machine.

HelperLive(i) == helper[i] \in {"spawned", "booting", "running", "stopped"}
Live     == {i \in Launched : HelperLive(i)}

\* alive: the recorded process runs, with this incarnation's config among its arguments.
Alive(e) == e.process = e.inc /\ e.process \in Live

\* departed: no process has the recorded pid and birth; none was recorded, or it ended.
Departed(e) == e.process \notin Live

\* The native probe: two passes over every process find no helper of this host, no
\* Virtualization executor and no holder of the disk.
Quiet    == Live = {} /\ exec = {}

----------------------------------------------------------------------------
\* The journal.

\* save: the environment is written whole.  An error sets fatal; the new file may be
\* in place all the same, when only the directory sync failed.
Save(e, ok) ==
    IF ok
      THEN disk' = e /\ UNCHANGED <<fatal, mishaps>>
      ELSE /\ mishaps < MaxMishaps
           /\ mishaps' = mishaps + 1
           /\ disk' \in {disk, e}
           /\ fatal' = TRUE

\* The environment e with one more operation recorded.
Recorded(e, a) == [e EXCEPT !.n = @ + 1, !.actions[e.n + 1] = a]

Of(e, kinds) == {i \in 1 .. e.n : e.actions[i].kind \in kinds}

\* predecessorOperation: the current reconciliation, where it is complete and eligible.
Predecessor(e) ==
    LET a == e.actions[e.current] IN
    IF /\ e.current # 0
       /\ a.state = "completed" /\ a.expected = e.inc /\ a.eligible
       /\ ConfirmedFence(a.fence, e.inc)
      THEN e.current ELSE 0

\* The lock is free for a new request or for the goroutine that waits for a helper.
Free     == up /\ op.step \in {"idle", "wait"}
Ready    == up /\ op = Idle /\ ~fatal /\ mem.phase # "absent"
Go(s)    == op' = [op EXCEPT !.step = s]
Fail     == op' = [op EXCEPT !.step = "finish", !.err = TRUE]
GoIf(ok, s) == IF ok THEN Go(s) ELSE Fail

\* POST /v1/environments: the directory first, then the journal; the environment is
\* known to this process only once the save succeeded.
Create(ok) ==
    /\ up /\ op = Idle /\ ~fatal /\ mem.phase = "absent" /\ ~dir
    /\ dir' = TRUE
    /\ Save(Created, ok)
    /\ mem' = IF ok THEN Created ELSE mem
    /\ UNCHANGED <<up, gate, child, vmVars, op>>

\* prepareHarnessSwitch changes nothing; it asks for an established seat.
Switchable(e) == e.phase \in {"running", "stopped", "fenced"}

\* POST /v1/environments/{id}/{start,stop,replace} with a new operation id and the
\* current incarnation.  A known id answers with the journal and changes nothing.
Begin(kind, switch, ok) ==
    /\ Ready
    /\ mem.n + (IF kind = "stop" \/ Predecessor(mem) # 0 THEN 1 ELSE 2) <= MaxOps
    /\ kind # "stop" => mem.inc < MaxLaunches
    /\ switch => kind = "replace" /\ Switchable(mem)
    /\ LET e == Recorded(mem, [NoAction EXCEPT
                    !.kind = kind, !.expected = mem.inc, !.state = "dispatching",
                    !.switch = IF switch THEN "prepared" ELSE "none"])
       IN Save(e, ok) /\ mem' = e
    /\ op' = IF ok THEN [kind |-> kind, id |-> mem.n + 1, to |-> "idle", err |-> FALSE,
                         step |-> IF kind = "start" THEN "start" ELSE "revoke"]
                   ELSE Idle
    /\ UNCHANGED <<up, dir, gate, child, vmVars>>

----------------------------------------------------------------------------
\* stop

Stopped(e) == e.phase \in {"stopped", "fenced", "retired"}
AfterStop == IF op.kind = "stop" THEN "finish" ELSE "bind"

\* The network goes first, then the phase; nothing is believed of the VM yet.
Revoke(ok) ==
    /\ op.step = "revoke"
    /\ IF Stopped(mem)
         THEN /\ ok /\ Go(AfterStop)
              /\ UNCHANGED <<mem, disk, fatal, mishaps, gate>>
         ELSE LET e == [mem EXCEPT !.phase = "revoking",
                                   !.fence = [inc |-> mem.inc, state |-> "unknown"]]
              IN gate' = 0 /\ mem' = e /\ Save(e, ok) /\ (GoIf(ok, "wait") \/ Fail)
    /\ UNCHANGED <<up, dir, child, vmVars>>

\* A faulty variant: the departure of the process alone.
StopByDeparture == mem.inc \in Launched /\ Departed(mem)

\* The incarnation's own receipt says stopped, and the recorded process is gone.
StopConfirmed ==
    mem.inc \in Launched /\ receipt[mem.inc] = "stopped" /\ Departed(mem)

StopConfirm(ok) ==
    /\ op.step = "wait" /\ StopConfirmed
    /\ LET e == [mem EXCEPT !.phase = "stopped", !.fence.state = "confirmed"]
       IN mem' = e /\ Save(e, ok) /\ GoIf(ok, AfterStop)
    /\ UNCHANGED <<up, dir, gate, child, vmVars>>

StopTimeout(ok) ==
    /\ op.step = "wait"
    /\ LET e == [mem EXCEPT !.phase = "execution_unknown"] IN mem' = e /\ Save(e, ok)
    /\ Fail
    /\ UNCHANGED <<up, dir, gate, child, vmVars>>

\* replace binds the fence to its action before it starts anything.
Bind(ok) ==
    /\ op.step = "bind"
    /\ LET e == [mem EXCEPT !.actions[op.id].fence = mem.fence]
       IN /\ mem' = e /\ Save(e, ok)
          /\ GoIf(ok, IF mem.actions[op.id].switch = "prepared" THEN "select" ELSE "start")
    /\ UNCHANGED <<up, dir, gate, child, vmVars>>

----------------------------------------------------------------------------
\* Evidence on the predecessor.

Observed(e)  == {i \in Of(e, {"reconcile"}) : e.actions[i].expected = e.inc}
Launches(e)  == {i \in Of(e, {"start", "replace"}) :
                    e.actions[i].state = "completed" /\ e.actions[i].result = e.inc}
Fences(e)    == {i \in Of(e, Kinds) : /\ e.actions[i].expected = e.inc
                                      /\ e.actions[i].fence.inc = e.inc}

\* A helper that refused before its first receipt, and left no disk.
Preboot(e) == receipt[e.inc] = "none" /\ e.exit = "refused"

\* What reconcileLocked asks before it touches anything.
Reconcilable(e) ==
    /\ e.phase \in {"execution_unknown", "revoking", "reconciling", "stopped", "fenced"}
    /\ e.inc \in Launched
    /\ Launches(e) # {} /\ Fences(e) # {}
    /\ config[e.inc] # "none"
    /\ e.process = e.inc
    /\ receipt[e.inc] # "none" \/ (Preboot(e) /\ root # "made")

\* The phase and the observation are durable before the probe looks.
Reconcile(ok) ==
    /\ LET e == [Recorded(mem, [NoAction EXCEPT
                    !.kind = "reconcile", !.expected = mem.inc, !.state = "dispatching",
                    !.preboot = Preboot(mem)])
                 EXCEPT !.phase = "reconciling", !.current = mem.n + 1]
       IN mem' = e /\ Save(e, ok)
    /\ gate' = 0
    /\ UNCHANGED <<up, dir, child, vmVars>>

\* POST /v1/environments/{id}/reconcile
ReconcileRequest(ok) ==
    /\ Ready /\ mem.n < MaxOps /\ Reconcilable(mem)
    /\ Reconcile(ok)
    /\ op' = IF ok THEN [Idle EXCEPT !.kind = "reconcile", !.step = "probe"] ELSE Idle

\* ensurePredecessor, on behalf of the operation in progress: evidence at hand, a
\* first observation, or a refusal.
EnsurePredecessor(s, ok) ==
    \/ /\ fatal /\ ok /\ Fail
       /\ UNCHANGED <<up, mem, disk, dir, fatal, gate, child, vmVars, mishaps>>
    \/ /\ ~fatal /\ Predecessor(mem) # 0 /\ ok /\ Go(s)
       /\ UNCHANGED <<up, mem, disk, dir, fatal, gate, child, vmVars, mishaps>>
    \/ /\ ~fatal /\ Predecessor(mem) = 0
       /\ Observed(mem) # {} \/ ~Reconcilable(mem)
       /\ ok /\ Fail
       /\ UNCHANGED <<up, mem, disk, dir, fatal, gate, child, vmVars, mishaps>>
    \/ /\ ~fatal /\ Predecessor(mem) = 0 /\ Observed(mem) = {} /\ Reconcilable(mem)
       /\ Reconcile(ok)
       /\ op' = IF ok THEN [op EXCEPT !.step = "probe", !.to = s]
                      ELSE [op EXCEPT !.step = "finish", !.err = TRUE]

\* A faulty variant: the disk is looked at, the executors are not.
ConfirmableByDisk ==
    IF mem.actions[mem.current].preboot THEN root # "made" ELSE root = "made"

\* The probe may miss nothing, but it may fail or stay unsure.
Confirmable ==
    /\ Quiet
    /\ IF mem.actions[mem.current].preboot
         THEN root # "made" /\ receipt[mem.inc] = "none"
         ELSE root = "made"

\* The observation and its second durable commit.
Probe(conf, ok) ==
    /\ op.step = "probe"
    /\ conf => Confirmable
    /\ LET f == [inc |-> mem.inc, state |-> IF conf THEN "confirmed_current" ELSE "unknown"]
           e == [mem EXCEPT !.phase = IF conf THEN "fenced" ELSE "execution_unknown",
                            !.fence = f,
                            !.actions[mem.current] =
                              [@ EXCEPT !.state = IF conf THEN "completed" ELSE "unknown",
                                        !.fence = f, !.eligible = conf]]
       IN /\ Save(e, ok)
          /\ mem' = IF ok THEN e
                    ELSE [e EXCEPT !.phase = "execution_unknown",
                                   !.actions[mem.current].eligible = FALSE]
    /\ op' = IF op.kind = "reconcile" THEN Idle
             ELSE IF ok /\ conf THEN [op EXCEPT !.step = op.to]
             ELSE [op EXCEPT !.step = "finish", !.err = TRUE]
    /\ UNCHANGED <<up, dir, gate, child, vmVars>>

\* writeEvidence fails: the observation stays without an outcome.
ProbeUnwritten ==
    /\ op.step = "probe" /\ mishaps < MaxMishaps
    /\ mishaps' = mishaps + 1 /\ fatal' = TRUE
    /\ op' = IF op.kind = "reconcile" THEN Idle
             ELSE [op EXCEPT !.step = "finish", !.err = TRUE]
    /\ UNCHANGED <<up, mem, disk, dir, gate, child, vmVars>>

\* selectHarness, which asks for the fence and for the predecessor's evidence.
Selectable(e) == e.phase \in {"stopped", "fenced"} /\ ConfirmedFence(e.fence, e.inc)

Select(ok) ==
    /\ op.step = "select"
    /\ IF Selectable(mem)
         THEN EnsurePredecessor("selected", ok)
         ELSE /\ ok /\ Fail
              /\ UNCHANGED <<up, mem, disk, dir, fatal, gate, child, vmVars, mishaps>>

\* The selection and its receipt share one save.
Selected(ok) ==
    /\ op.step = "selected"
    /\ LET e == [mem EXCEPT !.harness = IF @ = "codex" THEN "claude" ELSE "codex",
                            !.retain = TRUE, !.actions[op.id].switch = "selected"]
       IN mem' = e /\ Save(e, ok) /\ GoIf(ok, "start")
    /\ UNCHANGED <<up, dir, gate, child, vmVars>>

----------------------------------------------------------------------------
\* start

\* The owner's configuration, the limit of live environments and the retained inputs
\* may refuse; a first launch needs no predecessor.
Start(ok) ==
    /\ op.step = "start"
    /\ \/ /\ ok /\ Fail
          /\ UNCHANGED <<up, mem, disk, dir, fatal, gate, child, vmVars, mishaps>>
       \/ /\ ~fatal /\ mem.phase = "created" /\ ok /\ Go("launch")
          /\ UNCHANGED <<up, mem, disk, dir, fatal, gate, child, vmVars, mishaps>>
       \/ /\ mem.phase \in {"stopped", "fenced"}
          /\ EnsurePredecessor("launch", ok)

\* A faulty variant: each launch decides afresh.
RetainAfresh(e) == e.phase # "created" /\ ~e.actions[Predecessor(e)].preboot

\* Whether the next incarnation must find the disk: always after one that may have
\* used it, and for good once required.
Retain(e) == e.retain \/ (e.phase # "created" /\ ~e.actions[Predecessor(e)].preboot)

\* The launching operation is the only one the new incarnation takes along.
Only(e, id) == [e EXCEPT !.n = 1, !.current = 0,
                         !.actions = [i \in Ops |-> IF i = 1 THEN e.actions[id] ELSE NoAction]]

\* The identity advances and is durable before anything of it runs.
Launch(ok) ==
    /\ op.step = "launch"
    /\ LET e == [Only(mem, op.id) EXCEPT !.retain = Retain(mem), !.inc = @ + 1,
                                         !.exit = "none", !.phase = "launching"]
       IN mem' = e /\ Save(e, ok)
    /\ op' = [op EXCEPT !.id = 1, !.step = IF ok THEN "spawn" ELSE "finish", !.err = ~ok]
    /\ UNCHANGED <<up, dir, gate, child, vmVars>>

\* gate, vm-config and the helper process; each may fail, and a failure after the
\* gate leaves it open.
Spawn ==
    /\ op.step = "spawn"
    /\ \/ /\ gate' \in {0, mem.inc} /\ Fail
          /\ UNCHANGED <<child, config, helper>>
       \/ /\ gate' = mem.inc
          /\ config' = [config EXCEPT ![mem.inc] = IF mem.retain THEN "retain" ELSE "fresh"]
          /\ helper' = [helper EXCEPT ![mem.inc] = "spawned"]
          /\ child' = child \cup {mem.inc}
          /\ Go("record")
    /\ UNCHANGED <<up, mem, disk, dir, fatal, code, receipt, exec, root, mishaps>>

\* The process listing names the helper, or finds it dead already, or not at all.
Record(ok) ==
    /\ op.step = "record"
    /\ \/ /\ ok /\ Fail
          /\ UNCHANGED <<mem, disk, fatal, mishaps>>
       \/ LET e == [mem EXCEPT !.process = IF HelperLive(mem.inc) THEN mem.inc ELSE Defunct,
                               !.phase = "running"]
          IN mem' = e /\ Save(e, ok) /\ GoIf(ok, "finish")
    /\ UNCHANGED <<up, dir, gate, child, vmVars>>

\* The end of start, stop and replace: the outcome is recorded, also after a failure.
Finish(ok) ==
    /\ op.step = "finish"
    /\ LET a == [mem.actions[op.id] EXCEPT
                    !.state = IF op.err THEN "unknown" ELSE "completed",
                    !.fence = IF op.kind = "start" THEN @ ELSE mem.fence,
                    !.result = IF op.err \/ op.kind = "stop" THEN @ ELSE mem.inc]
           e == [mem EXCEPT !.actions[op.id] = a]
       IN mem' = e /\ Save(e, ok)
    /\ op' = Idle
    /\ UNCHANGED <<up, dir, gate, child, vmVars>>

\* The goroutine that waits for the helper this process started.
Waiter(i, ok) ==
    /\ Free /\ i \in child /\ helper[i] = "gone"
    /\ child' = child \ {i}
    /\ IF mem.inc = i
         THEN LET e == [mem EXCEPT !.exit = code[i],
                          !.phase = IF @ = "running" THEN "execution_unknown" ELSE @]
              IN /\ mem' = e /\ Save(e, ok)
                 /\ gate' = IF mem.phase = "running" THEN 0 ELSE gate
         ELSE ok /\ UNCHANGED <<mem, disk, fatal, gate, mishaps>>
    /\ UNCHANGED <<up, dir, vmVars, op>>

----------------------------------------------------------------------------
\* Retirement

\* retiredFence: a completed stop or reconciliation holds the environment's last fence,
\* and it is confirmed for this incarnation.
RetiredFence(e) ==
    /\ ConfirmedFence(e.fence, e.inc)
    /\ \E i \in Of(e, {"stop", "reconcile"}) :
          /\ e.actions[i].state = "completed" /\ e.actions[i].expected = e.inc
          /\ e.actions[i].fence = e.fence

\* retirementProbe, over a process that was recorded once.
RetirementProbe(e) == root = "made" /\ e.process # 0 /\ Quiet

\* The tombstone is durable before anything is unlinked.
Retire(delete, ok) ==
    /\ Ready /\ mem.n < MaxOps
    /\ mem.phase \in {"stopped", "fenced"} /\ RetiredFence(mem)
    /\ delete => RetirementProbe(mem)
    /\ LET e == [Recorded(mem, [NoAction EXCEPT
                    !.kind = "retire", !.expected = mem.inc, !.fence = mem.fence,
                    !.state = IF delete THEN "cleanup_pending" ELSE "completed"])
                 EXCEPT !.phase = "retired"]
       IN mem' = e /\ Save(e, ok)
    /\ op' = IF ok /\ delete
               THEN [Idle EXCEPT !.kind = "retire", !.id = mem.n + 1, !.step = "unlink"]
               ELSE Idle
    /\ UNCHANGED <<up, dir, gate, child, vmVars>>

\* The evidence of a retirement's probe cannot be written.
RetirementUnwritten ==
    /\ Ready /\ mem.phase \in {"stopped", "fenced", "retired"}
    /\ RetiredFence(mem) /\ RetirementProbe(mem) /\ mishaps < MaxMishaps
    /\ mishaps' = mishaps + 1 /\ fatal' = TRUE
    /\ UNCHANGED <<up, mem, disk, dir, gate, child, vmVars, op>>

Unlink ==
    /\ op.step = "unlink"
    /\ IF root = "made" THEN root' = "deleted" /\ Go("unlinked")
                        ELSE op' = Idle /\ UNCHANGED root
    /\ UNCHANGED <<up, mem, disk, dir, fatal, gate, child, config, helper, code, receipt,
                   exec, mishaps>>

\* finishRetirement; a failed save takes the claim back in memory.
FinishRetirement(ok) ==
    /\ op.step = "unlinked"
    /\ LET e == [mem EXCEPT !.actions[op.id].state = "completed"]
       IN Save(e, ok) /\ mem' = IF ok THEN e ELSE mem
    /\ op' = Idle
    /\ UNCHANGED <<up, dir, gate, child, vmVars>>

\* The same request with resume_cleanup, after a failure or a restart.
ResumeCleanup(i) ==
    /\ Ready /\ i \in Of(mem, {"retire"})
    /\ mem.actions[i].state = "cleanup_pending" /\ mem.phase = "retired"
    /\ RetiredFence(mem)
    /\ root = "made" => RetirementProbe(mem)
    /\ op' = [Idle EXCEPT !.kind = "retire", !.id = i,
                          !.step = IF root = "made" THEN "unlink" ELSE "unlinked"]
    /\ UNCHANGED <<up, mem, disk, dir, fatal, gate, child, vmVars, mishaps>>

----------------------------------------------------------------------------
\* The host process

\* The host dies: its gates, its goroutines and its memory with it.
Crash ==
    /\ up /\ mishaps < MaxMishaps
    /\ up' = FALSE /\ mishaps' = mishaps + 1
    /\ mem' = disk /\ fatal' = FALSE /\ gate' = 0 /\ child' = {} /\ op' = Idle
    /\ UNCHANGED <<disk, dir, vmVars>>

\* OpenHost: a running environment is adopted if its helper is seen alive, and is in
\* doubt otherwise; every other phase is kept as it was found.
OpenHost(seen, ok) ==
    /\ ~up /\ up' = TRUE
    /\ seen => Alive(mem)
    /\ IF mem.phase = "running" /\ ~seen
         THEN LET e == [mem EXCEPT !.phase = "execution_unknown"]
              IN mem' = e /\ Save(e, ok) /\ UNCHANGED gate
         ELSE /\ ok /\ gate' = IF mem.phase = "running" THEN mem.inc ELSE gate
              /\ UNCHANGED <<mem, disk, fatal, mishaps>>
    /\ UNCHANGED <<dir, child, vmVars, op>>

----------------------------------------------------------------------------
\* The helper and the machine

hostVars == <<up, mem, disk, dir, fatal, gate, child, op>>

Exit(i, c) == helper' = [helper EXCEPT ![i] = "gone"] /\ code' = [code EXCEPT ![i] = c]

\* Invalid options or a missing entitlement: exit 2, before any effect.
HelperRefuse(i) ==
    /\ helper[i] = "spawned" /\ Exit(i, "refused")
    /\ UNCHANGED <<hostVars, config, receipt, exec, root, mishaps>>

HelperBoot(i) ==
    /\ helper[i] = "spawned"
    /\ helper' = [helper EXCEPT ![i] = "booting"]
    /\ receipt' = [receipt EXCEPT ![i] = "up"]
    /\ UNCHANGED <<hostVars, config, code, exec, root, mishaps>>

\* ensureRootfs: a missing disk is cloned only where none had to be retained.
RootReady(i) == root = "made" \/ config[i] = "fresh"

\* The VM is created and started on the disk.
HelperRun(i) ==
    /\ helper[i] = "booting" /\ RootReady(i)
    /\ root' = "made"
    /\ helper' = [helper EXCEPT ![i] = "running"]
    /\ exec' = exec \cup {i}
    /\ UNCHANGED <<hostVars, config, code, receipt, mishaps>>

\* Boot ends before a VM exists, with or without the disk: a receipt of non-execution.
HelperNotCreated(i) ==
    /\ helper[i] = "booting"
    /\ helper' = [helper EXCEPT ![i] = "stopped"]
    /\ receipt' = [receipt EXCEPT ![i] = "stopped"]
    /\ root' \in {root} \cup (IF RootReady(i) THEN {"made"} ELSE {})
    /\ UNCHANGED <<hostVars, config, code, exec, mishaps>>

\* container.stop succeeds, on the stop file, SIGTERM or an error: the VM is over, and
\* then the receipt says so.
HelperStop(i) ==
    /\ helper[i] = "running"
    /\ exec' = exec \ {i}
    /\ helper' = [helper EXCEPT ![i] = "stopped"]
    /\ receipt' = [receipt EXCEPT ![i] = "stopped"]
    /\ UNCHANGED <<hostVars, config, code, root, mishaps>>

\* The helper is over: it returned after its receipt or with the stop of its VM
\* uncertain, or it was killed; the VM's executor may outlive it for a while.
HelperExits(i) ==
    /\ HelperLive(i) /\ Exit(i, "other")
    /\ UNCHANGED <<hostVars, config, receipt, exec, root, mishaps>>

ExecutorGone(i) ==
    /\ i \in exec /\ helper[i] = "gone"
    /\ exec' = exec \ {i}
    /\ UNCHANGED <<hostVars, config, helper, code, receipt, root, mishaps>>

\* The workspace file disappears, by other hands.
LoseDisk ==
    /\ root = "made" /\ mishaps < MaxMishaps
    /\ root' = "lost" /\ mishaps' = mishaps + 1
    /\ UNCHANGED <<hostVars, config, helper, code, receipt, exec>>

Helper(i) ==
    \/ HelperRefuse(i) \/ HelperBoot(i) \/ HelperRun(i) \/ HelperNotCreated(i)
    \/ HelperStop(i) \/ HelperExits(i) \/ ExecutorGone(i)

Operation(ok) ==
    \/ \E kind \in {"start", "stop", "replace"}, switch \in BOOLEAN : Begin(kind, switch, ok)
    \/ Revoke(ok) \/ StopConfirm(ok) \/ StopTimeout(ok) \/ Bind(ok)
    \/ ReconcileRequest(ok) \/ (\E conf \in BOOLEAN : Probe(conf, ok))
    \/ Select(ok) \/ Selected(ok) \/ Start(ok) \/ Launch(ok) \/ Record(ok) \/ Finish(ok)
    \/ (\E delete \in BOOLEAN : Retire(delete, ok)) \/ FinishRetirement(ok)

Next ==
    \/ \E ok \in BOOLEAN : \/ Create(ok) \/ Operation(ok)
                           \/ \E seen \in BOOLEAN : OpenHost(seen, ok)
                           \/ \E i \in Launched : Waiter(i, ok)
    \/ ProbeUnwritten \/ RetirementUnwritten \/ Spawn \/ Unlink \/ (\E i \in Ops : ResumeCleanup(i))
    \/ Crash \/ LoseDisk
    \/ \E i \in Launched : Helper(i)

Spec == Init /\ [][Next]_vars

----------------------------------------------------------------------------
\* Properties

\* At most one incarnation of an environment runs anything, helper or VM, and it is the
\* one the journal on disk names: neither a crash nor a failed save at any point of a
\* replacement leaves two executions on one workspace (host.go, start and stop).  The
\* egress gate is open for the current incarnation only, while it is launched or runs.
OneScope ==
    /\ \A i \in Launched : HelperLive(i) \/ i \in exec => disk.inc = i
    /\ gate # 0 => gate = mem.inc /\ mem.phase \in {"launching", "running"}

\* A fence the journal calls confirmed, and a phase that says the environment is at
\* rest, are true of the machine: the VM of that incarnation does not execute.
FencedIsGone ==
    \A e \in {mem, disk} :
        /\ Confirmed(e.fence) => e.fence.inc \notin exec
        /\ e.phase \in {"stopped", "fenced", "retired"} => e.inc \notin exec
        /\ \A i \in 1 .. e.n :
              Confirmed(e.actions[i].fence) => e.actions[i].fence.inc \notin exec

\* The workspace is unlinked only behind a durable tombstone and with nothing running
\* on it (retirement.go, "BEFORE any unlink").
WorkspaceKept ==
    [][root' = "deleted" /\ root # "deleted" => disk.phase = "retired" /\ Quiet]_vars

\* A workspace that was used and then lost, or deleted, is never replaced by a fresh
\* clone under the same environment (RequireRetainedDisk, ensureRootfs).
NoFreshDisk == [][(root \in {"lost", "deleted"}) => (root' # "made")]_vars

\* The harness of an environment changes only when the fence of its last incarnation is
\* confirmed on disk, and nothing of the environment runs.
SwitchFenced ==
    [][disk'.harness # disk.harness =>
          ConfirmedFence(disk.fence, disk.inc) /\ Quiet]_vars

\* What an environment was built on changes only at rest: its workspace is unlinked and
\* its harness switched with nothing of it running, and a workspace that was lost is not
\* replaced by an empty one (retirement.go, harness_switch.go, ensureRootfs).
ChangedAtRest == WorkspaceKept /\ NoFreshDisk /\ SwitchFenced
=============================================================================

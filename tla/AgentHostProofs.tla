-------------------------- MODULE AgentHostProofs --------------------------
(* The owner of agent environments: what its journal says is true of the machine, and what  *)
(* an environment was built on changes only at rest; for every number of launches,          *)
(* operations and mishaps.                                                                  *)
EXTENDS AgentHost, TLAPS

FenceT == [inc : Nat, state : {"unknown", "confirmed", "confirmed_current"}]
ActT == [kind : Kinds, expected : Nat, state : {"none", "dispatching", "completed", "unknown", "cleanup_pending"},
         fence : FenceT, result : Nat, eligible : BOOLEAN, preboot : BOOLEAN, switch : {"none", "prepared", "selected"}]
EnvT == [phase : Phases, inc : Nat, process : Int, fence : FenceT, current : 0 .. MaxOps, exit : {"none", "refused", "other"},
         retain : BOOLEAN, harness : {"codex", "claude"}, n : 0 .. MaxOps, actions : [Ops -> ActT]]
OpT == [kind : Kinds, id : 0 .. MaxOps, step : Steps, to : Steps, err : BOOLEAN]
HostTypes ==
    /\ up \in BOOLEAN /\ fatal \in BOOLEAN /\ mem \in EnvT /\ disk \in EnvT /\ op \in OpT
    /\ exec \subseteq Launched /\ root \in {"none", "made", "lost", "deleted"}
    /\ config \in [Launched -> {"none", "fresh", "retain"}]
    /\ helper \in [Launched -> {"none", "spawned", "booting", "running", "stopped", "gone"}]
    /\ code \in [Launched -> {"none", "refused", "other"}]
    /\ receipt \in [Launched -> {"none", "up", "stopped"}]

\* An incarnation acts, or is over for good.
Acts(i) == HelperLive(i) \/ i \in exec
Over(i) == i \in Launched => (helper[i] \in {"stopped", "gone"} /\ i \notin exec)

\* The machine: what a helper's state says of its receipt, its VM and the disk it may make.
MachineTrue(i) ==
    /\ helper[i] \in {"none", "spawned"} => (receipt[i] = "none" /\ i \notin exec)
    /\ helper[i] = "booting" => (receipt[i] = "up" /\ i \notin exec)
    /\ receipt[i] = "stopped" => (helper[i] \in {"stopped", "gone"} /\ i \notin exec)
    /\ helper[i] = "stopped" => i \notin exec
    /\ (helper[i] \in {"spawned", "booting"} /\ config[i] = "fresh") => root = "none"
    /\ config[i] # "none" => helper[i] # "none"

\* A confirmed fence is of an incarnation that is over, and eligible evidence means that
\* nothing runs; evidence of a helper that never booted, that it has left no receipt.
FenceTrue(f) == Confirmed(f) => Over(f.inc)
ActionTrue(i, a) ==
    /\ FenceTrue(a.fence)
    /\ a.eligible => (a.kind = "reconcile" /\ Quiet)
    /\ (a.eligible /\ a.preboot /\ a.expected = i) => (i \in Launched /\ receipt[i] = "none")

\* What an environment record says, in memory or on disk, is true of the machine.
Named(i) == \A k \in Launched : (helper[k] # "none" => k <= i) /\ (Acts(k) => k = i)
DiskKept(e) == root # "none" => (e.retain \/ (e.inc \in Launched /\ receipt[e.inc] # "none"))
EnvTrue(e) ==
    /\ e.phase \in {"absent", "created"} => (Quiet /\ root = "none" /\ e.inc = 0)
    /\ e.phase = "absent" => e.harness = "codex"
    /\ Named(e.inc) /\ DiskKept(e)
    /\ FenceTrue(e.fence)
    /\ Stopped(e) => Over(e.inc)
    /\ \A i \in Ops : ActionTrue(e.inc, e.actions[i])
    /\ e.current <= e.n

\* What has been found out by each step of the operation in progress.
Early == {"revoke", "wait", "bind", "select", "selected", "start"}
Probing(o, e) ==
    /\ e.phase = "reconciling" /\ e.current \in 1 .. e.n /\ e.inc \in Launched /\ helper[e.inc] # "none"
    /\ e.actions[e.current].kind = "reconcile" /\ e.actions[e.current].expected = e.inc
    /\ o.kind # "reconcile" => (o.kind \in {"start", "replace"} /\ o.to \in {"selected", "launch"})
Spawning(e) ==
    /\ e.phase = "launching" /\ Quiet /\ (e.inc \in Launched => helper[e.inc] = "none")
    /\ \A i \in Ops : ~e.actions[i].eligible
    /\ ~e.retain => root = "none"
OpTrue(o, e) ==
    /\ (o.step # "idle" /\ o.kind # "reconcile") => (o.id \in 1 .. e.n /\ e.actions[o.id].kind = o.kind)
    /\ o.kind = "reconcile" => o.step = "probe"
    /\ o.step \in {"revoke", "wait"} => o.kind \in {"stop", "replace"}
    /\ o.step \in {"bind", "select", "selected", "start"} => o.kind \in {"start", "replace"}
    /\ o.step = "wait" => (e.phase = "revoking" /\ e.fence.inc = e.inc)
    /\ o.step = "probe" => Probing(o, e)
    /\ o.step = "launch" => (e.phase = "created" \/ (Predecessor(e) # 0 /\ Stopped(e)))
    /\ o.step = "selected" => (ConfirmedFence(e.fence, e.inc) /\ Predecessor(e) # 0 /\ Stopped(e))
    /\ o.step = "spawn" => Spawning(e)
    /\ o.step = "unlink" => (e.phase = "retired" /\ Quiet)
    /\ (o.kind \in {"start", "replace"} /\ o.step \in Early) => (e.n < MaxOps \/ Predecessor(e) # 0)

\* Memory and disk part only by a failed save, after which no operation goes far.
Clear == {"selected", "launch", "spawn", "record", "probe", "unlink", "unlinked"}
GateTrue(g, e) == g # 0 => (g = e.inc /\ e.phase \in {"launching", "running"})
Switched(e) == e.harness # disk.harness => (ConfirmedFence(disk.fence, disk.inc) /\ Quiet)
HostTrue ==
    /\ ~up => (op = Idle /\ gate = 0 /\ ~fatal)
    /\ ~fatal => mem = disk
    /\ op.step \in Clear => ~fatal
    /\ GateTrue(gate, mem) /\ Switched(mem)
HInv == HostTypes /\ HostTrue /\ OpTrue(op, mem) /\ EnvTrue(mem) /\ EnvTrue(disk) /\ \A i \in Launched : MachineTrue(i)

\* The steps that ChangedAtRest speaks of.
RestStep ==
    /\ root' = "deleted" /\ root # "deleted" => disk.phase = "retired" /\ Quiet
    /\ (root \in {"lost", "deleted"}) => (root' # "made")
    /\ disk'.harness # disk.harness => ConfirmedFence(disk.fence, disk.inc) /\ Quiet
Keeps == HInv' /\ RestStep

(****************************** what a host step needs ******************************)
LEMMA EnvRests ==
    ASSUME NEW e, EnvTrue(e), UNCHANGED <<helper, exec, receipt, root>> PROVE EnvTrue(e)'
  BY DEF EnvTrue, Quiet, Live, HelperLive, Named, Acts, DiskKept, FenceTrue, Over, ActionTrue

LEMMA OpRests ==
    ASSUME NEW o, NEW e, OpTrue(o, e), UNCHANGED <<helper, exec, root>> PROVE OpTrue(o, e)'
  BY DEF OpTrue, Probing, Spawning, Quiet, Live, HelperLive

LEMMA HostStep ==
    ASSUME HInv, NEW e \in EnvT, NEW m \in EnvT, NEW o \in OpT, EnvTrue(e), EnvTrue(m), OpTrue(o, m),
           mem' = m, disk' \in {disk, e}, op' = o, fatal' \in BOOLEAN, ~fatal' => disk' = m, o.step \in Clear => ~fatal',
           m.harness = e.harness, Switched(m), GateTrue(gate', m), UNCHANGED vmVars,
           up' \in BOOLEAN, ~up' => (o = Idle /\ gate' = 0 /\ ~fatal')
    PROVE  Keeps
<1>0. UNCHANGED <<config, helper, code, receipt, exec, root>>
  BY DEF vmVars
<1>1. HostTypes'
  BY <1>0 DEF HInv, HostTypes
<1>2. Quiet' <=> Quiet
  BY <1>0 DEF Quiet, Live, HelperLive
<1>3. Switched(mem)' /\ (disk'.harness # disk.harness => (ConfirmedFence(disk.fence, disk.inc) /\ Quiet))
  BY <1>2 DEF Switched
<1>4. HostTrue'
  <2>1. GateTrue(gate, mem)'
    BY DEF GateTrue
  <2> QED BY <1>3, <2>1 DEF HostTrue
<1>5. OpTrue(op, mem)'
  BY <1>0, OpRests
<1>6. EnvTrue(m)' /\ EnvTrue(e)'
  BY <1>0, EnvRests
<1>7. PICK d : d = disk
  OBVIOUS
<1>8. EnvTrue(d)'
  BY <1>0, <1>7, EnvRests DEF HInv
<1>9. EnvTrue(mem)' /\ EnvTrue(disk)'
  BY <1>6, <1>7, <1>8
<1>10. \A i \in Launched : MachineTrue(i)'
  BY <1>0 DEF HInv, MachineTrue
<1> QED BY <1>0, <1>1, <1>3, <1>4, <1>5, <1>9, <1>10 DEF Keeps, HInv, RestStep

LEMMA HostMoves ==
    ASSUME HInv, NEW e \in EnvT, NEW m \in EnvT, NEW o \in OpT, EnvTrue(e), EnvTrue(m), OpTrue(o, m),
           mem' = m, disk' \in {disk, e}, op' = o, fatal' \in BOOLEAN, ~fatal' => disk' = m, o.step \in Clear => ~fatal',
           m.harness = e.harness, Switched(m), GateTrue(gate', m), up' = TRUE, UNCHANGED vmVars
    PROVE  Keeps
<1>1. up' \in BOOLEAN /\ (~up' => (o = Idle /\ gate' = 0 /\ ~fatal'))
  OBVIOUS
<1> QED BY <1>1, HostStep

\* A step that saves what it has in memory.
LEMMA SaveIs ==
    ASSUME HInv, NEW e, NEW ok \in BOOLEAN, Save(e, ok)
    PROVE  disk' \in {disk, e} /\ fatal' \in BOOLEAN /\ (ok => (disk' = e /\ fatal' = fatal)) /\ (~ok => fatal' = TRUE)
  BY DEF Save, HInv, HostTypes

LEMMA Saves ==
    ASSUME HInv, NEW e \in EnvT, NEW o \in OpT, NEW ok \in BOOLEAN, EnvTrue(e), OpTrue(o, e), Save(e, ok), mem' = e, op' = o,
           o.step \in Clear => (ok /\ ~fatal), Switched(e), GateTrue(gate', e), up' = TRUE, UNCHANGED vmVars
    PROVE  Keeps
<1>1. disk' \in {disk, e} /\ fatal' \in BOOLEAN /\ (ok => (disk' = e /\ fatal' = fatal)) /\ (~ok => fatal' = TRUE)
  BY SaveIs
<1>2. (~fatal' => disk' = e) /\ (o.step \in Clear => ~fatal')
  BY <1>1
<1> QED BY <1>1, <1>2, HostMoves

\* A step of the operation that changes nothing it has recorded.
LEMMA Goes ==
    ASSUME HInv, NEW o \in OpT, OpTrue(o, mem), op' = o, o.step \in Clear => ~fatal, up,
           UNCHANGED <<up, mem, disk, fatal, gate, vmVars>>
    PROVE  Keeps
<1>1. PICK d \in EnvT : d = disk
  BY DEF HInv, HostTypes
<1>2. PICK m \in EnvT : m = mem
  BY DEF HInv, HostTypes
<1>3. mem' = m /\ disk' \in {disk, m} /\ fatal' \in BOOLEAN /\ (~fatal' => disk' = m) /\ (o.step \in Clear => ~fatal') /\ up' = TRUE
  BY <1>2 DEF HInv, HostTypes, HostTrue
<1>4. EnvTrue(m) /\ OpTrue(o, m) /\ Switched(m) /\ GateTrue(gate', m) /\ UNCHANGED vmVars
  BY <1>2 DEF HInv, HostTrue
<1> QED BY <1>3, <1>4, HostMoves

\* An environment that says no more than one that was true.
Says(e, m) ==
    /\ e.inc = m.inc /\ (m.retain => e.retain) /\ e.current <= e.n /\ (e.harness = m.harness \/ e.phase # "absent")
    /\ e.phase = m.phase \/ (e.phase \notin {"absent", "created"} /\ (Stopped(e) => Over(m.inc)))
    /\ e.fence = m.fence \/ FenceTrue(e.fence)
    /\ \A i \in Ops : e.actions[i] = m.actions[i] \/ ActionTrue(m.inc, e.actions[i])
LEMMA EnvFrom == ASSUME NEW m \in EnvT, EnvTrue(m), NEW e \in EnvT, Says(e, m) PROVE EnvTrue(e)
<1>1. e.phase \in {"absent", "created"} => (Quiet /\ root = "none" /\ e.inc = 0 /\ (e.phase = "absent" => e.harness = "codex"))
  BY DEF EnvTrue, Says
<1>2. Named(e.inc) /\ DiskKept(e)
  BY DEF EnvTrue, Says, DiskKept
<1>3. FenceTrue(e.fence)
  BY DEF EnvTrue, Says
<1>4. Stopped(e) => Over(e.inc)
  BY DEF EnvTrue, Says, Stopped
<1>5. \A i \in Ops : ActionTrue(e.inc, e.actions[i])
  BY DEF EnvTrue, Says
<1> QED BY <1>1, <1>2, <1>3, <1>4, <1>5 DEF EnvTrue, Says

\* Evidence on the predecessor.
LEMMA PredIs ==
    ASSUME NEW m \in EnvT, Predecessor(m) # 0
    PROVE  /\ Predecessor(m) = m.current /\ m.current \in Ops /\ m.actions[m.current].eligible /\ m.actions[m.current].expected = m.inc
           /\ m.actions[m.current].state = "completed" /\ ConfirmedFence(m.actions[m.current].fence, m.inc)
  BY AgentHostAssumption DEF Predecessor, EnvT, Ops

LEMMA PredKept ==
    ASSUME NEW m \in EnvT, NEW e \in EnvT, Predecessor(m) # 0, e.current = m.current, e.inc = m.inc,
           e.actions[m.current] = m.actions[m.current]
    PROVE  Predecessor(e) # 0
  BY PredIs DEF Predecessor

LEMMA PredQuiet ==
    ASSUME NEW m \in EnvT, EnvTrue(m), Predecessor(m) # 0
    PROVE  m.current \in Ops /\ m.actions[m.current].kind = "reconcile" /\ Quiet
  BY PredIs DEF EnvTrue, ActionTrue

\* What the operation in progress works on.
LEMMA OpOf ==
    ASSUME HInv, op.step # "idle"
    PROVE  /\ up /\ op \in OpT
           /\ op.kind # "reconcile" => (op.id \in 1 .. mem.n /\ op.id \in Ops /\ mem.actions[op.id].kind = op.kind)
           /\ (op.kind # "reconcile" /\ Predecessor(mem) # 0) => op.id # mem.current
<1>1. up
  BY DEF HInv, HostTrue, Idle
<1>2. op.kind # "reconcile" => (op.id \in 1 .. mem.n /\ op.id \in Ops /\ mem.actions[op.id].kind = op.kind)
  BY AgentHostAssumption DEF HInv, HostTypes, OpTrue, EnvT, Ops
<1>3. mem \in EnvT /\ EnvTrue(mem) /\ op \in OpT
  BY DEF HInv, HostTypes
<1> QED BY <1>1, <1>2, <1>3, PredQuiet

LEMMA IdleOp == Idle \in OpT /\ Idle.step = "idle" /\ Idle.kind = "none" /\ \A e : OpTrue(Idle, e)
<1>1. Idle \in OpT /\ Idle.step = "idle" /\ Idle.kind = "none"
  BY AgentHostAssumption DEF Idle, OpT, Kinds, Steps
<1> QED BY <1>1 DEF OpTrue, Early

LEMMA StepOp ==
    ASSUME NEW o \in OpT, NEW s \in Steps, NEW x \in BOOLEAN
    PROVE  /\ [o EXCEPT !.step = s] \in OpT /\ [o EXCEPT !.step = s].step = s /\ [o EXCEPT !.step = s].kind = o.kind
           /\ [o EXCEPT !.step = s].id = o.id /\ [o EXCEPT !.step = s].to = o.to
           /\ [o EXCEPT !.step = s, !.err = x] \in OpT /\ [o EXCEPT !.step = s, !.err = x].step = s /\ [o EXCEPT !.step = s, !.err = x].kind = o.kind
           /\ [o EXCEPT !.step = s, !.err = x].id = o.id
  BY DEF OpT

\* An operation that failed has its outcome to record.
LEMMA FailOp ==
    ASSUME HInv, op.step # "idle", op.kind # "reconcile", Fail, NEW m, m.n = mem.n, m.actions[op.id].kind = mem.actions[op.id].kind
    PROVE  \E o \in OpT : op' = o /\ o.step = "finish" /\ OpTrue(o, m)
<1>0. PICK d \in OpT : d = op
  BY DEF HInv, HostTypes
<1>1. PICK o : o = [d EXCEPT !.step = "finish", !.err = TRUE]
  OBVIOUS
<1>2. o \in OpT /\ o.step = "finish" /\ o.kind = d.kind /\ o.id = d.id
  BY <1>1 DEF OpT, Steps
<1>3. OpTrue(o, m)
  BY <1>0, <1>2, OpOf DEF OpTrue, Early
<1> QED BY <1>0, <1>1, <1>2, <1>3 DEF Fail

LEMMA GoOp ==
    ASSUME HInv, NEW s \in Steps, Go(s)
    PROVE  \E o \in OpT : op' = o /\ o.step = s /\ o.kind = op.kind /\ o.id = op.id /\ o.to = op.to
<1>0. PICK d \in OpT : d = op
  BY DEF HInv, HostTypes
<1>1. PICK o : o = [d EXCEPT !.step = s]
  OBVIOUS
<1>2. o \in OpT /\ o.step = s /\ o.kind = d.kind /\ o.id = d.id /\ o.to = d.to
  BY <1>1 DEF OpT
<1> QED BY <1>0, <1>1, <1>2 DEF Go

(*********************************** the operations *********************************)
LEMMA CreatedTrue == ASSUME HInv, mem.phase = "absent" PROVE Created \in EnvT /\ EnvTrue(Created) /\ Created.harness = "codex" /\ Created.phase = "created"
<1>1. PICK a : a = NoAction
  OBVIOUS
<1>2. a \in ActT /\ a.eligible = FALSE /\ ~Confirmed(a.fence)
  BY <1>1 DEF NoAction, ActT, Kinds, FenceT, NoFence, Confirmed
<1>3. PICK e : e = Created
  OBVIOUS
<1>4. /\ e \in EnvT /\ e.phase = "created" /\ e.inc = 0 /\ e.fence = NoFence /\ e.current = 0 /\ e.harness = "codex" /\ e.n = 0
      /\ e.actions = [i \in Ops |-> a] /\ e.retain = FALSE
  <2>1. PICK x : x = [i \in Ops |-> a]
    OBVIOUS
  <2>2. x \in [Ops -> ActT]
    BY <1>2, <2>1
  <2>3. PICK f \in FenceT : f = NoFence
    BY DEF NoFence, FenceT
  <2>4. e = [phase |-> "created", inc |-> 0, process |-> 0, fence |-> f,
             current |-> 0, exit |-> "none", retain |-> FALSE, harness |-> "codex", n |-> 0, actions |-> x]
    BY <1>1, <1>3, <2>1, <2>3 DEF Created, NoEnvironment
  <2>5. e \in EnvT
    BY <2>2, <2>4, AgentHostAssumption DEF EnvT, Phases
  <2> QED BY <2>1, <2>3, <2>4, <2>5
<1>5. Quiet /\ root = "none" /\ Named(mem.inc) /\ mem.inc = 0
  BY DEF HInv, EnvTrue
<1>6. Named(0)
  BY <1>5
<1>7. EnvTrue(e)
  BY <1>2, <1>4, <1>5, <1>6 DEF EnvTrue, DiskKept, FenceTrue, Stopped, ActionTrue, NoFence, Confirmed
<1> QED BY <1>3, <1>4, <1>7

LEMMA CreateKeeps == ASSUME HInv, NEW ok \in BOOLEAN, Create(ok) PROVE Keeps
<1>1. /\ up /\ op = Idle /\ ~fatal /\ mem.phase = "absent" /\ Save(Created, ok) /\ mem' = (IF ok THEN Created ELSE mem)
      /\ UNCHANGED <<up, gate, vmVars, op>>
  BY DEF Create
<1>2. PICK e \in EnvT : e = Created /\ EnvTrue(e) /\ e.harness = "codex" /\ e.phase = "created"
  BY <1>1, CreatedTrue
<1>3. PICK m \in EnvT : m = mem
  BY DEF HInv, HostTypes
<1>4. disk' \in {disk, e} /\ fatal' \in BOOLEAN /\ (ok => (disk' = e /\ fatal' = fatal)) /\ (~ok => fatal' = TRUE)
  BY <1>1, <1>2, SaveIs
<1>5. gate = 0
  BY <1>1 DEF HInv, HostTrue, GateTrue
<1>6. PICK o \in OpT : o = Idle /\ o.step = "idle"
  BY IdleOp
<1>7. PICK d \in EnvT : d = disk /\ d = m
  BY <1>1, <1>3 DEF HInv, HostTrue, HostTypes
<1>8. m.harness = "codex" /\ Switched(m) /\ Switched(e) /\ EnvTrue(m) /\ OpTrue(o, m) /\ OpTrue(o, e) /\ up' = TRUE /\ GateTrue(gate', m) /\ GateTrue(gate', e)
  BY <1>1, <1>2, <1>3, <1>5, <1>6, <1>7, IdleOp DEF HInv, EnvTrue, Switched, GateTrue
<1>9. CASE ok
  BY <1>1, <1>2, <1>4, <1>6, <1>8, <1>9, HostMoves DEF Clear
<1>10. CASE ~ok
  BY <1>1, <1>2, <1>3, <1>4, <1>6, <1>8, <1>10, HostMoves DEF Clear
<1> QED BY <1>9, <1>10

LEMMA RecordedIs ==
    ASSUME NEW m \in EnvT, NEW a \in ActT, m.n < MaxOps
    PROVE  \E e \in EnvT : /\ e = Recorded(m, a) /\ e.n = m.n + 1 /\ e.n \in Ops /\ e.actions[e.n] = a
                           /\ \A i \in Ops : i # m.n + 1 => e.actions[i] = m.actions[i]
                           /\ e.phase = m.phase /\ e.inc = m.inc /\ e.process = m.process /\ e.fence = m.fence /\ e.current = m.current
                           /\ e.exit = m.exit /\ e.retain = m.retain /\ e.harness = m.harness
<1>1. m.n \in 0 .. MaxOps /\ m.n + 1 \in 0 .. MaxOps /\ m.n + 1 \in Ops /\ m.actions \in [Ops -> ActT]
  BY AgentHostAssumption DEF EnvT, Ops
<1>2. PICK k : k = m.n + 1
  OBVIOUS
<1>3. PICK x : x = [m.actions EXCEPT ![k] = a]
  OBVIOUS
<1>4. x \in [Ops -> ActT] /\ x[k] = a /\ \A i \in Ops : i # k => x[i] = m.actions[i]
  BY <1>1, <1>2, <1>3
<1>5. PICK e : e = [m EXCEPT !.n = k, !.actions = x]
  OBVIOUS
<1>6. /\ e \in EnvT /\ e.n = k /\ e.actions = x
      /\ e.phase = m.phase /\ e.inc = m.inc /\ e.process = m.process /\ e.fence = m.fence /\ e.current = m.current
      /\ e.exit = m.exit /\ e.retain = m.retain /\ e.harness = m.harness
  BY <1>1, <1>2, <1>4, <1>5 DEF EnvT
<1>7. e = Recorded(m, a)
  BY <1>2, <1>3, <1>5 DEF Recorded, EnvT
<1> QED BY <1>1, <1>2, <1>4, <1>6, <1>7

LEMMA NewAction == NoAction \in ActT /\ ~NoAction.eligible /\ NoAction.fence = NoFence /\ NoFence \in FenceT /\ ~Confirmed(NoFence)
<1>1. NoFence \in FenceT /\ ~Confirmed(NoFence)
  BY DEF NoFence, FenceT, Confirmed
<1> QED BY <1>1 DEF NoAction, ActT, Kinds

LEMMA QuietAction == ASSUME NEW i, NEW a, ~a.eligible, FenceTrue(a.fence) PROVE ActionTrue(i, a)
  BY DEF ActionTrue

LEMMA MemIs ==
    ASSUME HInv
    PROVE  \E m \in EnvT : /\ m = mem /\ EnvTrue(m) /\ m.current <= m.n /\ m.n \in 0 .. MaxOps /\ Switched(m) /\ GateTrue(gate, m)
                           /\ \A e \in EnvT : e.harness = m.harness => Switched(e)
  BY DEF HInv, HostTypes, HostTrue, EnvTrue, EnvT, Switched

LEMMA BeginKeeps ==
    ASSUME HInv, NEW kind \in {"start", "stop", "replace"}, NEW switch \in BOOLEAN, NEW ok \in BOOLEAN, Begin(kind, switch, ok)
    PROVE  Keeps
<1>1. PICK m \in EnvT : /\ m = mem /\ EnvTrue(m) /\ m.current <= m.n /\ m.n \in 0 .. MaxOps /\ Switched(m) /\ GateTrue(gate, m)
                        /\ \A e \in EnvT : e.harness = m.harness => Switched(e)
  BY MemIs
<1>2. PICK s \in {"none", "prepared"} : s = IF switch THEN "prepared" ELSE "none"
  OBVIOUS
<1>3. PICK b \in ActT : b = NoAction /\ ~b.eligible /\ ~Confirmed(b.fence)
  BY NewAction
<1>4. PICK a : a = [b EXCEPT !.kind = kind, !.expected = m.inc, !.state = "dispatching", !.switch = s]
  OBVIOUS
<1>5. a \in ActT /\ ~a.eligible /\ ~Confirmed(a.fence) /\ a.kind = kind
  BY <1>3, <1>4 DEF ActT, EnvT, Kinds
<1>6. /\ up /\ op = Idle /\ ~fatal /\ Save(Recorded(m, a), ok) /\ mem' = Recorded(m, a) /\ UNCHANGED <<up, gate, vmVars>>
      /\ m.n + (IF kind = "stop" \/ Predecessor(m) # 0 THEN 1 ELSE 2) <= MaxOps
      /\ op' = IF ok THEN [kind |-> kind, id |-> m.n + 1, to |-> "idle", err |-> FALSE,
                           step |-> IF kind = "start" THEN "start" ELSE "revoke"] ELSE Idle
  BY <1>1, <1>2, <1>3, <1>4 DEF Begin, Ready
<1>7. m.n < MaxOps /\ ((kind # "stop" /\ Predecessor(m) = 0) => m.n + 1 < MaxOps)
  BY <1>1, <1>6, AgentHostAssumption
<1>8. PICK e \in EnvT : /\ e = Recorded(m, a) /\ e.n = m.n + 1 /\ e.n \in Ops /\ e.actions[e.n] = a
                        /\ \A i \in Ops : i # m.n + 1 => e.actions[i] = m.actions[i]
                        /\ e.phase = m.phase /\ e.inc = m.inc /\ e.process = m.process /\ e.fence = m.fence /\ e.current = m.current
                        /\ e.exit = m.exit /\ e.retain = m.retain /\ e.harness = m.harness
  BY <1>5, <1>7, RecordedIs
<1>9. EnvTrue(e)
  <2>1. ActionTrue(m.inc, a)
    BY <1>5, QuietAction DEF FenceTrue
  <2>2. e.current <= e.n /\ e.current \in 0 .. MaxOps
    BY <1>1, <1>8 DEF EnvT
  <2>3. Says(e, m)
    BY <1>8, <2>1, <2>2 DEF Says
  <2> QED BY <1>1, <2>3, EnvFrom
<1>10. Switched(e) /\ GateTrue(gate', e) /\ up' = TRUE /\ Save(e, ok) /\ mem' = e /\ UNCHANGED vmVars
  BY <1>1, <1>6, <1>8 DEF GateTrue
<1>11. CASE ok
  <2>1. PICK o : o = [kind |-> kind, id |-> m.n + 1, to |-> "idle", err |-> FALSE, step |-> IF kind = "start" THEN "start" ELSE "revoke"]
    OBVIOUS
  <2>2. m.n + 1 \in 0 .. MaxOps
    BY <1>1, <1>7, AgentHostAssumption
  <2>3. o \in OpT /\ o.kind = kind /\ o.id = e.n /\ o.step \in {"start", "revoke"} /\ (o.step = "start" <=> kind = "start")
    BY <1>8, <2>1, <2>2 DEF OpT, Kinds, Steps
  <2>4. kind # "stop" => (e.n < MaxOps \/ Predecessor(e) # 0)
    <3> SUFFICES ASSUME kind # "stop", Predecessor(m) # 0 PROVE Predecessor(e) # 0
      BY <1>7, <1>8
    <3>1. m.current # m.n + 1 /\ m.current \in Ops
      BY <1>1, PredIs DEF EnvT
    <3> QED BY <1>8, <3>1, PredKept
  <2>5. e.n \in 1 .. e.n
    BY <1>1, <1>8
  <2>6. OpTrue(o, e)
    BY <1>5, <1>8, <2>3, <2>4, <2>5 DEF OpTrue
  <2>7. op' = o
    BY <1>6, <1>11, <2>1
  <2>8. o.step \notin Clear
    BY <2>3 DEF Clear
  <2> QED BY <1>9, <1>10, <2>3, <2>6, <2>7, <2>8, Saves
<1>12. CASE ~ok
  <2>1. PICK o \in OpT : o = Idle /\ o.step = "idle" /\ OpTrue(o, e)
    BY IdleOp
  <2>2. op' = o /\ o.step \notin Clear
    BY <1>6, <1>12, <2>1 DEF Clear
  <2> QED BY <1>9, <1>10, <2>1, <2>2, Saves
<1> QED BY <1>11, <1>12

\* The step after a stop, which nothing is asked of but what was reserved.
LEMMA AfterStopOp ==
    ASSUME HInv, op.step # "idle", op.kind # "reconcile", Go(AfterStop), op.step \in {"revoke", "wait"},
           NEW e \in EnvT, e.n = mem.n, e.actions = mem.actions,
           (op.kind \in {"start", "replace"}) => (e.n < MaxOps \/ Predecessor(e) # 0)
    PROVE  \E o \in OpT : op' = o /\ o.step \notin Clear /\ OpTrue(o, e)
<1>1. PICK s \in {"finish", "bind"} : s = AfterStop
  BY DEF AfterStop
<1>2. PICK o \in OpT : op' = o /\ o.step = s /\ o.kind = op.kind /\ o.id = op.id
  <2>1. s \in Steps /\ Go(s)
    BY <1>1 DEF Steps
  <2>2. \E o \in OpT : op' = o /\ o.step = s /\ o.kind = op.kind /\ o.id = op.id /\ o.to = op.to
    BY <2>1, GoOp
  <2> QED BY <2>2
<1>3. op.kind \in {"stop", "replace"} /\ (s = "bind" => op.kind = "replace")
  BY <1>1 DEF AfterStop, HInv, OpTrue
<1>4. OpTrue(o, e)
  BY <1>2, <1>3, OpOf DEF OpTrue
<1> QED BY <1>2, <1>4 DEF Clear

\* A phase and a fence are set.
PhaseOf(e, m, p, f) ==
    /\ e = [m EXCEPT !.phase = p, !.fence = f] /\ e.phase = p /\ e.fence = f
    /\ e.inc = m.inc /\ e.process = m.process /\ e.current = m.current /\ e.n = m.n /\ e.actions = m.actions
    /\ e.exit = m.exit /\ e.retain = m.retain /\ e.harness = m.harness
LEMMA PhaseIs ==
    ASSUME NEW m \in EnvT, NEW p \in Phases, NEW f \in FenceT
    PROVE  \E e \in EnvT : PhaseOf(e, m, p, f)
<1>1. PICK e : e = [m EXCEPT !.phase = p, !.fence = f]
  OBVIOUS
<1>2. e \in EnvT /\ e.phase = p /\ e.fence = f
  BY <1>1 DEF EnvT
<1>3. /\ e.inc = m.inc /\ e.process = m.process /\ e.current = m.current /\ e.n = m.n /\ e.actions = m.actions
      /\ e.exit = m.exit /\ e.retain = m.retain /\ e.harness = m.harness
  BY <1>1 DEF EnvT
<1> QED BY <1>1, <1>2, <1>3 DEF PhaseOf

LEMMA PhaseTrue ==
    ASSUME NEW m \in EnvT, EnvTrue(m), NEW e \in EnvT, e.phase \notin {"absent", "created"}, Stopped(e) => Over(m.inc), FenceTrue(e.fence),
           e.inc = m.inc, e.current = m.current, e.n = m.n, e.actions = m.actions, e.retain = m.retain
    PROVE  EnvTrue(e) /\ (Predecessor(m) # 0 => Predecessor(e) # 0)
<1>1. e.current <= e.n
  BY DEF EnvTrue
<1>2. EnvTrue(e)
  BY <1>1, EnvFrom DEF Says
<1>3. Predecessor(m) # 0 => Predecessor(e) # 0
  BY PredKept
<1> QED BY <1>2, <1>3

LEMMA RevokeKeeps == ASSUME HInv, NEW ok \in BOOLEAN, Revoke(ok) PROVE Keeps
<1>1. PICK m \in EnvT : /\ m = mem /\ EnvTrue(m) /\ m.current <= m.n /\ m.n \in 0 .. MaxOps /\ Switched(m) /\ GateTrue(gate, m)
                        /\ \A e \in EnvT : e.harness = m.harness => Switched(e)
  BY MemIs
<1>2. op.step = "revoke" /\ UNCHANGED <<up, vmVars>> /\ op.kind # "reconcile" /\ up
  BY OpOf DEF Revoke, HInv, OpTrue
<1>3. op.kind \in {"stop", "replace"} /\ ((op.kind \in {"start", "replace"}) => (m.n < MaxOps \/ Predecessor(m) # 0))
  BY <1>1, <1>2 DEF HInv, OpTrue, Early
<1>4. CASE Stopped(mem)
  <2>1. Go(AfterStop) /\ UNCHANGED <<mem, disk, fatal, gate>>
    BY <1>4 DEF Revoke
  <2>2. PICK o \in OpT : op' = o /\ o.step \notin Clear /\ OpTrue(o, m)
    BY <1>1, <1>2, <1>3, <2>1, AfterStopOp
  <2> QED BY <1>1, <1>2, <2>1, <2>2, Goes
<1>5. CASE ~Stopped(mem)
  <2>0. PICK f : f = [inc |-> m.inc, state |-> "unknown"]
    OBVIOUS
  <2>1. f \in FenceT /\ f.inc = m.inc /\ ~Confirmed(f)
    BY <2>0 DEF FenceT, EnvT, Confirmed
  <2>2. PICK p \in Phases : p = "revoking"
    BY DEF Phases
  <2>3. PICK e \in EnvT : PhaseOf(e, m, p, f)
    BY <2>1, PhaseIs
  <2>4. gate' = 0 /\ mem' = e /\ Save(e, ok) /\ (GoIf(ok, "wait") \/ Fail)
    BY <1>1, <1>5, <2>0, <2>2, <2>3 DEF Revoke, PhaseOf
  <2>5. EnvTrue(e) /\ (Predecessor(m) # 0 => Predecessor(e) # 0)
    BY <1>1, <2>1, <2>2, <2>3, PhaseTrue DEF Stopped, FenceTrue, PhaseOf
  <2>6. \E o \in OpT : op' = o /\ o.step \notin Clear /\ OpTrue(o, e)
    <3>1. CASE Fail
      <4>1. \E o \in OpT : op' = o /\ o.step = "finish" /\ OpTrue(o, e)
        BY <1>1, <1>2, <2>3, <3>1, FailOp DEF PhaseOf
      <4> QED BY <4>1 DEF Clear
    <3>2. CASE Go("wait")
      <4>1. "wait" \in Steps
        BY DEF Steps
      <4>2. PICK o \in OpT : op' = o /\ o.step = "wait" /\ o.kind = op.kind /\ o.id = op.id /\ o.to = op.to
        BY <3>2, <4>1, GoOp
      <4>3. OpTrue(o, e)
        BY <1>1, <1>2, <1>3, <2>1, <2>2, <2>3, <2>5, <4>2, OpOf DEF OpTrue, PhaseOf
      <4> QED BY <4>2, <4>3 DEF Clear
    <3> QED BY <2>4, <3>1, <3>2 DEF GoIf
  <2>7. PICK o \in OpT : op' = o /\ o.step \notin Clear /\ OpTrue(o, e)
    BY <2>6
  <2>8. Switched(e) /\ GateTrue(gate', e) /\ up' = TRUE
    BY <1>1, <1>2, <2>3, <2>4 DEF GateTrue, PhaseOf
  <2> QED BY <1>2, <2>4, <2>5, <2>7, <2>8, Saves
<1> QED BY <1>4, <1>5

\* A receipt that says stopped is of an incarnation that is over.
LEMMA StopKeeps == ASSUME HInv, NEW ok \in BOOLEAN, StopConfirm(ok) \/ StopTimeout(ok) PROVE Keeps
<1>1. PICK m \in EnvT : /\ m = mem /\ EnvTrue(m) /\ m.current <= m.n /\ m.n \in 0 .. MaxOps /\ Switched(m) /\ GateTrue(gate, m)
                        /\ \A e \in EnvT : e.harness = m.harness => Switched(e)
  BY MemIs
<1>2. op.step = "wait" /\ UNCHANGED <<up, gate, vmVars>> /\ op.kind # "reconcile" /\ up /\ m.phase = "revoking" /\ m.fence.inc = m.inc
  BY <1>1, OpOf DEF StopConfirm, StopTimeout, HInv, OpTrue
<1>3. (op.kind \in {"start", "replace"}) => (m.n < MaxOps \/ Predecessor(m) # 0)
  BY <1>1, <1>2 DEF HInv, OpTrue, Early
<1>4. gate = 0
  BY <1>1, <1>2 DEF GateTrue
<1>d. PICK d \in FenceT : d = m.fence
  BY DEF EnvT
<1>5. CASE StopConfirm(ok)
  <2>0. StopConfirmed
    BY <1>5 DEF StopConfirm
  <2>1. Over(m.inc)
    BY <1>1, <2>0 DEF StopConfirmed, HInv, MachineTrue, Over
  <2>2. PICK f : f = [d EXCEPT !.state = "confirmed"]
    OBVIOUS
  <2>3. f \in FenceT /\ f.inc = m.inc
    BY <1>2, <1>d, <2>2 DEF FenceT
  <2>4. PICK p \in Phases : p = "stopped"
    BY DEF Phases
  <2>5. PICK e \in EnvT : PhaseOf(e, m, p, f)
    BY <2>3, PhaseIs
  <2>6. e = [m EXCEPT !.phase = "stopped", !.fence.state = "confirmed"]
    BY <1>d, <2>2, <2>4, <2>5 DEF PhaseOf, EnvT
  <2>7. mem' = e /\ Save(e, ok) /\ GoIf(ok, AfterStop)
    BY <1>1, <1>5, <2>6 DEF StopConfirm
  <2>8. EnvTrue(e) /\ (Predecessor(m) # 0 => Predecessor(e) # 0)
    BY <1>1, <2>1, <2>3, <2>4, <2>5, PhaseTrue DEF FenceTrue, PhaseOf
  <2>9. \E o \in OpT : op' = o /\ o.step \notin Clear /\ OpTrue(o, e)
    <3>1. CASE Fail
      <4>1. \E o \in OpT : op' = o /\ o.step = "finish" /\ OpTrue(o, e)
        BY <1>1, <1>2, <2>5, <3>1, FailOp DEF PhaseOf
      <4> QED BY <4>1 DEF Clear
    <3>2. CASE Go(AfterStop)
      BY <1>1, <1>2, <1>3, <2>5, <2>8, <3>2, AfterStopOp DEF PhaseOf
    <3> QED BY <2>7, <3>1, <3>2 DEF GoIf
  <2>10. PICK o \in OpT : op' = o /\ o.step \notin Clear /\ OpTrue(o, e)
    BY <2>9
  <2>11. Switched(e) /\ GateTrue(gate', e) /\ up' = TRUE
    BY <1>1, <1>2, <1>4, <2>5 DEF GateTrue, PhaseOf
  <2> QED BY <1>2, <2>7, <2>8, <2>10, <2>11, Saves
<1>6. CASE StopTimeout(ok)
  <2>1. PICK p \in Phases : p = "execution_unknown"
    BY DEF Phases
  <2>2. PICK e \in EnvT : PhaseOf(e, m, p, d)
    BY PhaseIs
  <2>3. e = [m EXCEPT !.phase = "execution_unknown"]
    BY <1>d, <2>1, <2>2 DEF PhaseOf, EnvT
  <2>4. mem' = e /\ Save(e, ok) /\ Fail
    BY <1>1, <1>6, <2>3 DEF StopTimeout
  <2>5. EnvTrue(e)
    BY <1>1, <1>d, <2>1, <2>2, PhaseTrue DEF Stopped, EnvTrue, PhaseOf
  <2>6. PICK o \in OpT : op' = o /\ o.step = "finish" /\ OpTrue(o, e)
    BY <1>1, <1>2, <2>2, <2>4, FailOp DEF PhaseOf
  <2>7. Switched(e) /\ GateTrue(gate', e) /\ up' = TRUE /\ o.step \notin Clear
    BY <1>1, <1>2, <1>4, <2>2, <2>6 DEF GateTrue, Clear, PhaseOf
  <2> QED BY <1>2, <2>4, <2>5, <2>6, <2>7, Saves
<1> QED BY <1>5, <1>6

\* One entry of the journal is changed.
ActOf(e, m, id, a) ==
    /\ e = [m EXCEPT !.actions[id] = a] /\ e.actions[id] = a /\ \A i \in Ops : i # id => e.actions[i] = m.actions[i]
    /\ e.phase = m.phase /\ e.inc = m.inc /\ e.process = m.process /\ e.fence = m.fence /\ e.current = m.current
    /\ e.exit = m.exit /\ e.retain = m.retain /\ e.harness = m.harness /\ e.n = m.n
LEMMA ActIs ==
    ASSUME NEW m \in EnvT, NEW id \in Ops, NEW a \in ActT
    PROVE  \E e \in EnvT : ActOf(e, m, id, a)
<1>1. PICK x : x = [m.actions EXCEPT ![id] = a]
  OBVIOUS
<1>2. x \in [Ops -> ActT] /\ x[id] = a /\ \A i \in Ops : i # id => x[i] = m.actions[i]
  BY <1>1 DEF EnvT
<1>3. PICK e : e = [m EXCEPT !.actions = x]
  OBVIOUS
<1>4. /\ e \in EnvT /\ e.actions = x
      /\ e.phase = m.phase /\ e.inc = m.inc /\ e.process = m.process /\ e.fence = m.fence /\ e.current = m.current
      /\ e.exit = m.exit /\ e.retain = m.retain /\ e.harness = m.harness /\ e.n = m.n
  BY <1>2, <1>3 DEF EnvT
<1>5. e = [m EXCEPT !.actions[id] = a]
  BY <1>1, <1>3 DEF EnvT
<1> QED BY <1>2, <1>4, <1>5 DEF ActOf

LEMMA ActOfTrue ==
    ASSUME NEW m \in EnvT, EnvTrue(m), NEW e \in EnvT, NEW id \in Ops, NEW a, ActOf(e, m, id, a), ActionTrue(m.inc, a)
    PROVE  EnvTrue(e) /\ ((Predecessor(m) # 0 /\ id # m.current) => Predecessor(e) # 0)
<1>1. e.current <= e.n
  BY DEF EnvTrue, ActOf
<1>2. EnvTrue(e)
  BY <1>1, EnvFrom DEF Says, ActOf
<1>3. (Predecessor(m) # 0 /\ id # m.current) => Predecessor(e) # 0
  BY PredIs, PredKept DEF ActOf
<1> QED BY <1>2, <1>3

\* The journal's entry of the operation in progress is no observation.
LEMMA OwnAction ==
    ASSUME HInv, op.step # "idle", op.kind # "reconcile"
    PROVE  \E b \in ActT : b = mem.actions[op.id] /\ op.id \in Ops /\ ~b.eligible /\ FenceTrue(b.fence) /\ b.kind = op.kind
<1>1. op.id \in Ops /\ mem.actions[op.id].kind = op.kind
  BY OpOf
<1>2. mem \in EnvT /\ EnvTrue(mem)
  BY DEF HInv, HostTypes
<1>3. PICK b \in ActT : b = mem.actions[op.id]
  BY <1>1, <1>2 DEF EnvT
<1>4. ActionTrue(mem.inc, b)
  BY <1>1, <1>2, <1>3 DEF EnvTrue
<1> QED BY <1>1, <1>3, <1>4 DEF ActionTrue

LEMMA BindKeeps == ASSUME HInv, NEW ok \in BOOLEAN, Bind(ok) PROVE Keeps
<1>1. PICK m \in EnvT : /\ m = mem /\ EnvTrue(m) /\ m.current <= m.n /\ m.n \in 0 .. MaxOps /\ Switched(m) /\ GateTrue(gate, m)
                        /\ \A e \in EnvT : e.harness = m.harness => Switched(e)
  BY MemIs
<1>2. op.step = "bind" /\ UNCHANGED <<up, gate, vmVars>> /\ op.kind \in {"start", "replace"} /\ up
  BY OpOf DEF Bind, HInv, OpTrue
<1>3. m.n < MaxOps \/ Predecessor(m) # 0
  BY <1>1, <1>2 DEF HInv, OpTrue, Early
<1>4. PICK b \in ActT : b = m.actions[op.id] /\ op.id \in Ops /\ ~b.eligible /\ FenceTrue(b.fence) /\ b.kind = op.kind
  BY <1>1, <1>2, OwnAction
<1>5. PICK k \in Ops : k = op.id
  BY <1>4
<1>6. PICK f \in FenceT : f = m.fence /\ FenceTrue(f)
  BY <1>1 DEF EnvT, EnvTrue
<1>7. PICK a : a = [b EXCEPT !.fence = f]
  OBVIOUS
<1>8. a \in ActT /\ a.kind = b.kind /\ a.fence = f /\ ~a.eligible
  BY <1>4, <1>7 DEF ActT
<1>9. PICK e \in EnvT : ActOf(e, m, k, a)
  BY <1>8, ActIs
<1>10. e = [m EXCEPT !.actions[k].fence = m.fence]
  BY <1>4, <1>5, <1>6, <1>7, <1>9 DEF ActOf, EnvT
<1>11. PICK s \in {"select", "start"} : mem' = e /\ Save(e, ok) /\ GoIf(ok, s)
  BY <1>1, <1>5, <1>10 DEF Bind
<1>12. EnvTrue(e) /\ ((Predecessor(m) # 0 /\ k # m.current) => Predecessor(e) # 0)
  BY <1>1, <1>6, <1>8, <1>9, ActOfTrue, QuietAction
<1>13. e.n < MaxOps \/ Predecessor(e) # 0
  BY <1>1, <1>2, <1>3, <1>5, <1>9, <1>12, OpOf DEF ActOf
<1>14. \E o \in OpT : op' = o /\ o.step \notin Clear /\ OpTrue(o, e)
  <2>1. CASE Fail
    <3>1. \E o \in OpT : op' = o /\ o.step = "finish" /\ OpTrue(o, e)
      BY <1>1, <1>2, <1>4, <1>5, <1>8, <1>9, <2>1, FailOp DEF ActOf
    <3> QED BY <3>1 DEF Clear
  <2>2. CASE Go(s)
    <3>1. s \in Steps
      BY DEF Steps
    <3>2. PICK o \in OpT : op' = o /\ o.step = s /\ o.kind = op.kind /\ o.id = op.id /\ o.to = op.to
      BY <2>2, <3>1, GoOp
    <3>3. o.id \in 1 .. e.n /\ e.actions[o.id].kind = o.kind
      BY <1>1, <1>2, <1>4, <1>5, <1>8, <1>9, <3>2, OpOf DEF ActOf
    <3>4. OpTrue(o, e)
      BY <1>2, <1>13, <3>2, <3>3 DEF OpTrue
    <3> QED BY <3>2, <3>4 DEF Clear
  <2> QED BY <1>11, <2>1, <2>2 DEF GoIf
<1>15. PICK o \in OpT : op' = o /\ o.step \notin Clear /\ OpTrue(o, e)
  BY <1>14
<1>16. Switched(e) /\ GateTrue(gate', e) /\ up' = TRUE
  BY <1>1, <1>2, <1>9 DEF GateTrue, ActOf
<1> QED BY <1>2, <1>11, <1>12, <1>15, <1>16, Saves

LEMMA FinishKeeps == ASSUME HInv, NEW ok \in BOOLEAN, Finish(ok) PROVE Keeps
<1>1. PICK m \in EnvT : /\ m = mem /\ EnvTrue(m) /\ m.current <= m.n /\ m.n \in 0 .. MaxOps /\ Switched(m) /\ GateTrue(gate, m)
                        /\ \A e \in EnvT : e.harness = m.harness => Switched(e)
  BY MemIs
<1>2. op.step = "finish" /\ UNCHANGED <<up, gate, vmVars>> /\ op.kind # "reconcile" /\ up /\ op' = Idle
  BY OpOf DEF Finish, HInv, OpTrue
<1>3. PICK b \in ActT : b = m.actions[op.id] /\ op.id \in Ops /\ ~b.eligible /\ FenceTrue(b.fence) /\ b.kind = op.kind
  BY <1>1, <1>2, OwnAction
<1>4. PICK k \in Ops : k = op.id
  BY <1>3
<1>5. PICK f \in FenceT : f = (IF op.kind = "start" THEN b.fence ELSE m.fence) /\ FenceTrue(f)
  BY <1>1, <1>3 DEF EnvT, EnvTrue, ActT
<1>6. PICK s \in {"unknown", "completed"} : s = IF op.err THEN "unknown" ELSE "completed"
  OBVIOUS
<1>7. PICK r \in Nat : r = IF op.err \/ op.kind = "stop" THEN b.result ELSE m.inc
  BY DEF EnvT, ActT
<1>8. PICK a : a = [b EXCEPT !.state = s, !.fence = f, !.result = r]
  OBVIOUS
<1>9. a \in ActT /\ a.kind = b.kind /\ a.fence = f /\ ~a.eligible
  BY <1>3, <1>8 DEF ActT
<1>10. PICK e \in EnvT : ActOf(e, m, k, a)
  BY <1>9, ActIs
<1>11. mem' = e /\ Save(e, ok)
  BY <1>1, <1>3, <1>4, <1>5, <1>6, <1>7, <1>8, <1>10 DEF Finish, ActOf
<1>12. EnvTrue(e)
  BY <1>1, <1>5, <1>9, <1>10, ActOfTrue, QuietAction
<1>13. PICK o \in OpT : o = Idle /\ o.step = "idle" /\ OpTrue(o, e)
  BY IdleOp
<1>14. Switched(e) /\ GateTrue(gate', e) /\ up' = TRUE /\ o.step \notin Clear /\ op' = o
  BY <1>1, <1>2, <1>10, <1>13 DEF GateTrue, ActOf, Clear
<1> QED BY <1>2, <1>11, <1>12, <1>13, <1>14, Saves

\* The harness is switched with nothing running and the fence on disk confirmed.
LEMMA SelectedKeeps == ASSUME HInv, NEW ok \in BOOLEAN, Selected(ok) PROVE Keeps
<1>1. PICK m \in EnvT : /\ m = mem /\ EnvTrue(m) /\ m.current <= m.n /\ m.n \in 0 .. MaxOps /\ Switched(m) /\ GateTrue(gate, m)
                        /\ \A e \in EnvT : e.harness = m.harness => Switched(e)
  BY MemIs
<1>2. op.step = "selected" /\ UNCHANGED <<up, gate, vmVars>> /\ op.kind \in {"start", "replace"} /\ up
  BY OpOf DEF Selected, HInv, OpTrue
<1>3. ConfirmedFence(m.fence, m.inc) /\ Predecessor(m) # 0 /\ Stopped(m) /\ ~fatal /\ m = disk
  BY <1>1, <1>2 DEF HInv, OpTrue, HostTrue, Clear
<1>4. PICK b \in ActT : b = m.actions[op.id] /\ op.id \in Ops /\ ~b.eligible /\ FenceTrue(b.fence) /\ b.kind = op.kind
  BY <1>1, <1>2, OwnAction
<1>5. PICK k \in Ops : k = op.id
  BY <1>4
<1>6. PICK a : a = [b EXCEPT !.switch = "selected"]
  OBVIOUS
<1>7. a \in ActT /\ a.kind = b.kind /\ a.fence = b.fence /\ ~a.eligible
  BY <1>4, <1>6 DEF ActT
<1>8. PICK d \in EnvT : ActOf(d, m, k, a)
  BY <1>7, ActIs
<1>9. EnvTrue(d) /\ ((Predecessor(m) # 0 /\ k # m.current) => Predecessor(d) # 0)
  BY <1>1, <1>4, <1>7, <1>8, ActOfTrue, QuietAction
<1>10. PICK h \in {"codex", "claude"} : h = IF m.harness = "codex" THEN "claude" ELSE "codex"
  OBVIOUS
<1>11. PICK e : e = [d EXCEPT !.harness = h, !.retain = TRUE]
  OBVIOUS
<1>12. /\ e \in EnvT /\ e.retain = TRUE /\ e.actions = d.actions /\ e.n = d.n /\ e.current = d.current
       /\ e.phase = d.phase /\ e.fence = d.fence /\ e.inc = d.inc
  BY <1>11 DEF EnvT
<1>13. e = [m EXCEPT !.harness = IF @ = "codex" THEN "claude" ELSE "codex", !.retain = TRUE, !.actions[k].switch = "selected"]
  BY <1>4, <1>5, <1>6, <1>8, <1>10, <1>11 DEF ActOf, EnvT
<1>14. mem' = e /\ Save(e, ok) /\ GoIf(ok, "start")
  BY <1>1, <1>5, <1>13 DEF Selected
<1>15. EnvTrue(e)
  <2>1. e.phase # "absent" /\ e.current <= e.n
    BY <1>3, <1>8, <1>9, <1>12 DEF ActOf, EnvTrue, Stopped
  <2>2. Says(e, d)
    BY <1>12, <2>1 DEF Says
  <2> QED BY <1>9, <1>12, <2>2, EnvFrom
<1>16. Predecessor(e) # 0
  BY <1>2, <1>3, <1>1, <1>5, <1>8, <1>9, <1>12, OpOf, PredKept DEF ActOf
<1>17. Switched(e)
  BY <1>1, <1>3, PredQuiet DEF Switched
<1>18. \E o \in OpT : op' = o /\ o.step \notin Clear /\ OpTrue(o, e)
  <2>1. CASE Fail
    <3>0. e.n = mem.n /\ e.actions[op.id].kind = mem.actions[op.id].kind
      BY <1>1, <1>4, <1>5, <1>7, <1>8, <1>12 DEF ActOf
    <3>1. \E o \in OpT : op' = o /\ o.step = "finish" /\ OpTrue(o, e)
      BY <1>2, <2>1, <3>0, FailOp
    <3> QED BY <3>1 DEF Clear
  <2>2. CASE Go("start")
    <3>1. "start" \in Steps
      BY DEF Steps
    <3>2. PICK o \in OpT : op' = o /\ o.step = "start" /\ o.kind = op.kind /\ o.id = op.id /\ o.to = op.to
      BY <2>2, <3>1, GoOp
    <3>3. o.id \in 1 .. e.n /\ e.actions[o.id].kind = o.kind
      BY <1>1, <1>2, <1>4, <1>5, <1>7, <1>8, <1>12, <3>2, OpOf DEF ActOf
    <3>4. OpTrue(o, e)
      BY <1>2, <1>16, <3>2, <3>3 DEF OpTrue
    <3> QED BY <3>2, <3>4 DEF Clear
  <2> QED BY <1>14, <2>1, <2>2 DEF GoIf
<1>19. PICK o \in OpT : op' = o /\ o.step \notin Clear /\ OpTrue(o, e)
  BY <1>18
<1>20. GateTrue(gate', e) /\ up' = TRUE
  BY <1>1, <1>2, <1>8, <1>12 DEF GateTrue, ActOf
<1> QED BY <1>2, <1>12, <1>14, <1>15, <1>17, <1>19, <1>20, Saves

LEMMA FinishRetirementKeeps == ASSUME HInv, NEW ok \in BOOLEAN, FinishRetirement(ok) PROVE Keeps
<1>1. PICK m \in EnvT : /\ m = mem /\ EnvTrue(m) /\ m.current <= m.n /\ m.n \in 0 .. MaxOps /\ Switched(m) /\ GateTrue(gate, m)
                        /\ \A e \in EnvT : e.harness = m.harness => Switched(e)
  BY MemIs
<1>2. op.step = "unlinked" /\ UNCHANGED <<up, gate, vmVars>> /\ op.kind # "reconcile" /\ up /\ op' = Idle
  BY OpOf DEF FinishRetirement, HInv, OpTrue
<1>3. PICK b \in ActT : b = m.actions[op.id] /\ op.id \in Ops /\ ~b.eligible /\ FenceTrue(b.fence) /\ b.kind = op.kind
  BY <1>1, <1>2, OwnAction
<1>4. PICK k \in Ops : k = op.id
  BY <1>3
<1>5. PICK a : a = [b EXCEPT !.state = "completed"]
  OBVIOUS
<1>6. a \in ActT /\ a.fence = b.fence /\ ~a.eligible
  BY <1>3, <1>5 DEF ActT
<1>7. PICK e \in EnvT : ActOf(e, m, k, a)
  BY <1>6, ActIs
<1>8. e = [m EXCEPT !.actions[k].state = "completed"]
  BY <1>3, <1>4, <1>5, <1>7 DEF ActOf, EnvT
<1>9. Save(e, ok) /\ mem' = IF ok THEN e ELSE m
  BY <1>1, <1>4, <1>8 DEF FinishRetirement
<1>10. EnvTrue(e)
  BY <1>1, <1>3, <1>6, <1>7, ActOfTrue, QuietAction
<1>11. PICK o \in OpT : o = Idle /\ o.step = "idle" /\ OpTrue(o, e) /\ OpTrue(o, m)
  BY IdleOp
<1>12. /\ Switched(e) /\ GateTrue(gate', e) /\ GateTrue(gate', m) /\ up' = TRUE /\ o.step \notin Clear /\ op' = o
       /\ m.harness = e.harness
  BY <1>1, <1>2, <1>7, <1>11 DEF GateTrue, ActOf, Clear
<1>13. disk' \in {disk, e} /\ fatal' \in BOOLEAN /\ (ok => (disk' = e /\ fatal' = fatal)) /\ (~ok => fatal' = TRUE)
  BY <1>9, SaveIs
<1>14. CASE ok
  BY <1>2, <1>9, <1>10, <1>11, <1>12, <1>13, <1>14, HostMoves
<1>15. CASE ~ok
  BY <1>1, <1>2, <1>9, <1>10, <1>11, <1>12, <1>13, <1>15, HostMoves
<1> QED BY <1>14, <1>15

LEMMA WaiterKeeps == ASSUME HInv, NEW i \in Launched, NEW ok \in BOOLEAN, Waiter(i, ok) PROVE Keeps
<1>1. PICK m \in EnvT : /\ m = mem /\ EnvTrue(m) /\ m.current <= m.n /\ m.n \in 0 .. MaxOps /\ Switched(m) /\ GateTrue(gate, m)
                        /\ \A e \in EnvT : e.harness = m.harness => Switched(e)
  BY MemIs
<1>2. op.step \in {"idle", "wait"} /\ up /\ UNCHANGED <<up, vmVars, op>> /\ op.step \notin Clear
  BY DEF Waiter, Free, Clear
<1>3. PICK o \in OpT : o = op /\ OpTrue(o, m)
  BY <1>1 DEF HInv, HostTypes
<1>4. CASE mem.inc # i
  <2>1. UNCHANGED <<mem, disk, fatal, gate>>
    BY <1>4 DEF Waiter
  <2> QED BY <1>1, <1>2, <1>3, <2>1, Goes
<1>5. CASE mem.inc = i
  <2>1. PICK c \in {"none", "refused", "other"} : c = code[i]
    BY DEF HInv, HostTypes
  <2>2. PICK p \in Phases : p = IF m.phase = "running" THEN "execution_unknown" ELSE m.phase
    BY DEF Phases, EnvT
  <2>3. PICK e : e = [m EXCEPT !.exit = c, !.phase = p]
    OBVIOUS
  <2>4. /\ e \in EnvT /\ e.phase = p /\ e.inc = m.inc /\ e.fence = m.fence /\ e.current = m.current /\ e.n = m.n
        /\ e.actions = m.actions /\ e.retain = m.retain /\ e.harness = m.harness
    BY <2>3 DEF EnvT
  <2>5. mem' = e /\ Save(e, ok) /\ gate' = IF m.phase = "running" THEN 0 ELSE gate
    BY <1>1, <1>5, <2>1, <2>2, <2>3 DEF Waiter
  <2>6. EnvTrue(e)
    <3>1. Says(e, m)
      BY <1>1, <2>2, <2>4 DEF Says, Stopped
    <3> QED BY <1>1, <2>4, <3>1, EnvFrom
  <2>7. Predecessor(m) # 0 => Predecessor(e) # 0
    BY <2>4, PredKept
  <2>8. OpTrue(o, e)
    BY <1>2, <1>3, <2>2, <2>4, <2>7 DEF OpTrue, Early
  <2>9. Switched(e) /\ GateTrue(gate', e) /\ up' = TRUE /\ op' = o /\ o.step \notin Clear
    BY <1>1, <1>2, <1>3, <2>2, <2>4, <2>5 DEF GateTrue
  <2> QED BY <1>2, <2>4, <2>5, <2>6, <2>8, <2>9, Saves
<1> QED BY <1>4, <1>5

LEMMA RecordKeeps == ASSUME HInv, NEW ok \in BOOLEAN, Record(ok) PROVE Keeps
<1>1. PICK m \in EnvT : /\ m = mem /\ EnvTrue(m) /\ m.current <= m.n /\ m.n \in 0 .. MaxOps /\ Switched(m) /\ GateTrue(gate, m)
                        /\ \A e \in EnvT : e.harness = m.harness => Switched(e)
  BY MemIs
<1>2. op.step = "record" /\ UNCHANGED <<up, gate, vmVars>> /\ op.kind # "reconcile" /\ up
  BY OpOf DEF Record, HInv, OpTrue
<1>3. CASE Fail /\ UNCHANGED <<mem, disk, fatal>>
  <2>1. PICK o \in OpT : op' = o /\ o.step = "finish" /\ OpTrue(o, m)
    BY <1>1, <1>2, <1>3, FailOp
  <2>2. o.step \notin Clear
    BY <2>1 DEF Clear
  <2> QED BY <1>1, <1>2, <1>3, <2>1, <2>2, Goes
<1>4. CASE ~(Fail /\ UNCHANGED <<mem, disk, fatal>>)
  <2>1. PICK q \in Int : q = IF HelperLive(mem.inc) THEN mem.inc ELSE Defunct
    BY <1>1 DEF EnvT, Defunct
  <2>2. PICK p \in Phases : p = "running"
    BY DEF Phases
  <2>3. PICK e : e = [m EXCEPT !.process = q, !.phase = p]
    OBVIOUS
  <2>4. /\ e \in EnvT /\ e.phase = p /\ e.inc = m.inc /\ e.fence = m.fence /\ e.current = m.current /\ e.n = m.n
        /\ e.actions = m.actions /\ e.retain = m.retain /\ e.harness = m.harness
    BY <2>3 DEF EnvT
  <2>5. mem' = e /\ Save(e, ok) /\ GoIf(ok, "finish")
    BY <1>1, <1>4, <2>1, <2>2, <2>3 DEF Record
  <2>6. EnvTrue(e)
    BY <1>1, <2>2, <2>4, PhaseTrue DEF Stopped, EnvTrue
  <2>7. PICK o \in OpT : op' = o /\ o.step = "finish" /\ OpTrue(o, e)
    <3>1. CASE Fail
      BY <1>1, <1>2, <2>4, <3>1, FailOp
    <3>2. CASE Go("finish")
      <4>1. "finish" \in Steps
        BY DEF Steps
      <4>2. PICK o \in OpT : op' = o /\ o.step = "finish" /\ o.kind = op.kind /\ o.id = op.id /\ o.to = op.to
        BY <3>2, <4>1, GoOp
      <4>3. OpTrue(o, e)
        BY <1>1, <1>2, <2>4, <4>2, OpOf DEF OpTrue, Early
      <4> QED BY <4>2, <4>3
    <3> QED BY <2>5, <3>1, <3>2 DEF GoIf
  <2>8. Switched(e) /\ GateTrue(gate', e) /\ up' = TRUE /\ o.step \notin Clear
    BY <1>1, <1>2, <2>2, <2>4, <2>7 DEF GateTrue, Clear
  <2> QED BY <1>2, <2>4, <2>5, <2>6, <2>7, <2>8, Saves
<1> QED BY <1>3, <1>4

\* A further operation is recorded and the phase set.
LogOf(e, m, a, p, c) ==
    /\ e = [Recorded(m, a) EXCEPT !.phase = p, !.current = c] /\ e.n = m.n + 1 /\ e.n \in Ops /\ e.actions[e.n] = a
    /\ \A i \in Ops : i # m.n + 1 => e.actions[i] = m.actions[i]
    /\ e.phase = p /\ e.inc = m.inc /\ e.process = m.process /\ e.fence = m.fence /\ e.current = c
    /\ e.exit = m.exit /\ e.retain = m.retain /\ e.harness = m.harness
LEMMA LogIs ==
    ASSUME NEW m \in EnvT, NEW a \in ActT, NEW p \in Phases, NEW c \in 0 .. MaxOps, m.n < MaxOps
    PROVE  \E e \in EnvT : LogOf(e, m, a, p, c)
<1>1. PICK d \in EnvT : /\ d = Recorded(m, a) /\ d.n = m.n + 1 /\ d.n \in Ops /\ d.actions[d.n] = a
                        /\ \A i \in Ops : i # m.n + 1 => d.actions[i] = m.actions[i]
                        /\ d.phase = m.phase /\ d.inc = m.inc /\ d.process = m.process /\ d.fence = m.fence /\ d.current = m.current
                        /\ d.exit = m.exit /\ d.retain = m.retain /\ d.harness = m.harness
  BY RecordedIs
<1>2. PICK e : e = [d EXCEPT !.phase = p, !.current = c]
  OBVIOUS
<1>3. /\ e \in EnvT /\ e.n = d.n /\ e.actions = d.actions /\ e.phase = p /\ e.inc = d.inc /\ e.process = d.process /\ e.fence = d.fence
      /\ e.current = c /\ e.exit = d.exit /\ e.retain = d.retain /\ e.harness = d.harness
  BY <1>2 DEF EnvT
<1>4. e = [Recorded(m, a) EXCEPT !.phase = p, !.current = c]
  BY <1>1, <1>2
<1>5. e.n = m.n + 1 /\ e.n \in Ops /\ e.actions[e.n] = a /\ \A i \in Ops : i # m.n + 1 => e.actions[i] = m.actions[i]
  BY <1>1, <1>3
<1>6. /\ e.phase = p /\ e.inc = m.inc /\ e.process = m.process /\ e.fence = m.fence /\ e.current = c
      /\ e.exit = m.exit /\ e.retain = m.retain /\ e.harness = m.harness /\ e \in EnvT
  BY <1>1, <1>3
<1>7. LogOf(e, m, a, p, c)
  BY <1>4, <1>5, <1>6 DEF LogOf
<1> QED BY <1>6, <1>7

LEMMA LogTrue ==
    ASSUME NEW m \in EnvT, EnvTrue(m), NEW e \in EnvT, NEW a, NEW p, NEW c, LogOf(e, m, a, p, c), c <= m.n + 1, ~a.eligible,
           FenceTrue(a.fence), p \notin {"absent", "created"}, Stopped(e) => Over(m.inc)
    PROVE  EnvTrue(e)
<1>1. ActionTrue(m.inc, a)
  BY QuietAction
<1>2. Says(e, m)
  BY <1>1 DEF Says, LogOf
<1> QED BY <1>2, EnvFrom

\* An observation begins: its record and the phase are durable, and nothing is claimed yet.
LEMMA ReconcileTrue ==
    ASSUME HInv, NEW ok \in BOOLEAN, mem.n < MaxOps, Reconcilable(mem), Reconcile(ok)
    PROVE  \E e \in EnvT : /\ mem' = e /\ Save(e, ok) /\ EnvTrue(e) /\ Switched(e) /\ GateTrue(gate', e) /\ e.n = mem.n + 1
                           /\ \A i \in Ops : i # mem.n + 1 => e.actions[i] = mem.actions[i]
                           /\ e.phase = "reconciling" /\ e.current \in 1 .. e.n /\ e.inc \in Launched /\ helper[e.inc] # "none"
                           /\ e.actions[e.current].kind = "reconcile" /\ e.actions[e.current].expected = e.inc
<1>1. PICK m \in EnvT : /\ m = mem /\ EnvTrue(m) /\ m.current <= m.n /\ m.n \in 0 .. MaxOps /\ Switched(m) /\ GateTrue(gate, m)
                        /\ \A e \in EnvT : e.harness = m.harness => Switched(e)
  BY MemIs
<1>2. PICK b \in ActT : b = NoAction /\ ~b.eligible /\ ~Confirmed(b.fence)
  BY NewAction
<1>3. PICK y \in BOOLEAN : y = Preboot(m)
  BY DEF Preboot
<1>4. PICK a : a = [b EXCEPT !.kind = "reconcile", !.expected = m.inc, !.state = "dispatching", !.preboot = y]
  OBVIOUS
<1>5. a \in ActT /\ ~a.eligible /\ ~Confirmed(a.fence) /\ a.kind = "reconcile" /\ a.expected = m.inc
  BY <1>2, <1>4 DEF ActT, EnvT, Kinds
<1>6. PICK p \in Phases : p = "reconciling"
  BY DEF Phases
<1>7. PICK c \in 0 .. MaxOps : c = m.n + 1
  BY <1>1, AgentHostAssumption
<1>8. PICK e \in EnvT : LogOf(e, m, a, p, c)
  BY <1>1, <1>5, LogIs
<1>9. mem' = e /\ Save(e, ok) /\ gate' = 0
  BY <1>1, <1>2, <1>3, <1>4, <1>6, <1>7, <1>8 DEF Reconcile, LogOf
<1>10. EnvTrue(e)
  <2>1. c <= m.n + 1 /\ FenceTrue(a.fence) /\ p \notin {"absent", "created"} /\ ~Stopped(e)
    BY <1>1, <1>5, <1>6, <1>7, <1>8 DEF FenceTrue, Stopped, LogOf
  <2> QED BY <1>1, <1>5, <1>8, <2>1, LogTrue
<1>11. m.inc \in Launched /\ helper[m.inc] # "none"
  BY <1>1 DEF Reconcilable, HInv, MachineTrue
<1>12. e.n = m.n + 1 /\ e.current = e.n /\ e.current \in 1 .. e.n
  BY <1>1, <1>7, <1>8 DEF LogOf
<1>13. Switched(e) /\ GateTrue(gate', e)
  BY <1>1, <1>8, <1>9 DEF GateTrue, LogOf
<1>14. /\ e.n = mem.n + 1 /\ e.inc \in Launched /\ helper[e.inc] # "none" /\ e.phase = "reconciling"
       /\ \A i \in Ops : i # mem.n + 1 => e.actions[i] = mem.actions[i]
  BY <1>1, <1>6, <1>8, <1>11 DEF LogOf
<1>15. e.actions[e.current].kind = "reconcile" /\ e.actions[e.current].expected = e.inc
  BY <1>5, <1>8, <1>12 DEF LogOf
<1> QED BY <1>9, <1>10, <1>12, <1>13, <1>14, <1>15

LEMMA ReconcileRequestKeeps == ASSUME HInv, NEW ok \in BOOLEAN, ReconcileRequest(ok) PROVE Keeps
<1>1. up /\ op = Idle /\ ~fatal /\ mem.n < MaxOps /\ Reconcilable(mem) /\ Reconcile(ok)
  BY DEF ReconcileRequest, Ready
<1>2. PICK e \in EnvT : /\ mem' = e /\ Save(e, ok) /\ EnvTrue(e) /\ Switched(e) /\ GateTrue(gate', e) /\ e.n = mem.n + 1
                        /\ \A i \in Ops : i # mem.n + 1 => e.actions[i] = mem.actions[i]
                        /\ e.phase = "reconciling" /\ e.current \in 1 .. e.n /\ e.inc \in Launched /\ helper[e.inc] # "none"
                        /\ e.actions[e.current].kind = "reconcile" /\ e.actions[e.current].expected = e.inc
  BY <1>1, ReconcileTrue
<1>3. up' = TRUE /\ UNCHANGED vmVars
  BY <1>1 DEF Reconcile
<1>4. PICK d \in OpT : d = Idle /\ d.step = "idle" /\ OpTrue(d, e)
  BY IdleOp
<1>5. op' = IF ok THEN [d EXCEPT !.kind = "reconcile", !.step = "probe"] ELSE d
  BY <1>4 DEF ReconcileRequest
<1>6. CASE ok
  <2>1. PICK o : o = [d EXCEPT !.kind = "reconcile", !.step = "probe"]
    OBVIOUS
  <2>2. o \in OpT /\ o.kind = "reconcile" /\ o.step = "probe"
    BY <2>1 DEF OpT, Kinds, Steps
  <2>3. OpTrue(o, e)
    BY <1>2, <2>2 DEF OpTrue, Probing, Early
  <2> QED BY <1>1, <1>2, <1>3, <1>5, <1>6, <2>1, <2>2, <2>3, Saves
<1>7. CASE ~ok
  <2>1. d.step \notin Clear
    BY <1>4 DEF Clear
  <2> QED BY <1>2, <1>3, <1>4, <1>5, <1>7, <2>1, Saves
<1> QED BY <1>6, <1>7

LEMMA FailKeeps ==
    ASSUME HInv, op.step # "idle", op.kind # "reconcile", Fail, UNCHANGED <<up, mem, disk, fatal, gate, vmVars>>
    PROVE  Keeps
<1>1. PICK m : m = mem
  OBVIOUS
<1>2. PICK o \in OpT : op' = o /\ o.step = "finish" /\ OpTrue(o, m)
  BY <1>1, FailOp
<1>3. o.step \notin Clear /\ up
  BY <1>2, OpOf DEF Clear
<1> QED BY <1>1, <1>2, <1>3, Goes

LEMMA EnsureKeeps ==
    ASSUME HInv, NEW s \in {"selected", "launch"}, NEW ok \in BOOLEAN, op.step \in {"select", "start"}, EnsurePredecessor(s, ok),
           Stopped(mem), s = "selected" => ConfirmedFence(mem.fence, mem.inc)
    PROVE  Keeps
<1>1. op.kind \in {"start", "replace"} /\ (mem.n < MaxOps \/ Predecessor(mem) # 0) /\ up
  BY OpOf DEF HInv, OpTrue, Early
<1>2. CASE Fail /\ UNCHANGED <<up, mem, disk, fatal, gate, vmVars>>
  BY <1>1, <1>2, FailKeeps
<1>3. CASE ~fatal /\ Predecessor(mem) # 0 /\ Go(s) /\ UNCHANGED <<up, mem, disk, fatal, gate, vmVars>>
  <2>1. s \in Steps
    BY DEF Steps
  <2>2. PICK o \in OpT : op' = o /\ o.step = s /\ o.kind = op.kind /\ o.id = op.id /\ o.to = op.to
    BY <1>3, <2>1, GoOp
  <2>3. OpTrue(o, mem)
    BY <1>1, <1>3, <2>2, OpOf DEF OpTrue
  <2> QED BY <1>1, <1>3, <2>2, <2>3, Goes
<1>4. CASE /\ ~fatal /\ Predecessor(mem) = 0 /\ Reconcilable(mem) /\ Reconcile(ok)
           /\ op' = IF ok THEN [op EXCEPT !.step = "probe", !.to = s] ELSE [op EXCEPT !.step = "finish", !.err = TRUE]
  <2>1. PICK e \in EnvT : /\ mem' = e /\ Save(e, ok) /\ EnvTrue(e) /\ Switched(e) /\ GateTrue(gate', e) /\ e.n = mem.n + 1
                          /\ \A i \in Ops : i # mem.n + 1 => e.actions[i] = mem.actions[i]
                          /\ e.phase = "reconciling" /\ e.current \in 1 .. e.n /\ e.inc \in Launched /\ helper[e.inc] # "none"
                          /\ e.actions[e.current].kind = "reconcile" /\ e.actions[e.current].expected = e.inc
    BY <1>1, <1>4, ReconcileTrue
  <2>2. up' = TRUE /\ UNCHANGED vmVars
    BY <1>1, <1>4 DEF Reconcile
  <2>3. PICK d \in OpT : d = op
    BY DEF HInv, HostTypes
  <2>4. op.id \in 1 .. e.n /\ e.actions[op.id].kind = op.kind
    <3>1. op.id \in 1 .. mem.n /\ op.id \in Ops /\ mem.actions[op.id].kind = op.kind /\ mem.n \in Nat
      BY <1>1, OpOf DEF HInv, HostTypes, EnvT
    <3>2. op.id # mem.n + 1
      BY <3>1
    <3> QED BY <2>1, <3>1, <3>2
  <2>5. CASE ok
    <3>1. PICK o : o = [d EXCEPT !.step = "probe", !.to = s]
      OBVIOUS
    <3>2. o \in OpT /\ o.step = "probe" /\ o.to = s /\ o.kind = d.kind /\ o.id = d.id
      BY <3>1 DEF OpT, Steps
    <3>3. OpTrue(o, e)
      BY <1>1, <2>1, <2>3, <2>4, <3>2 DEF OpTrue, Probing, Early
    <3>4. op' = o
      BY <1>4, <2>3, <2>5, <3>1
    <3> QED BY <1>4, <2>1, <2>2, <2>5, <3>2, <3>3, <3>4, Saves
  <2>6. CASE ~ok
    <3>1. PICK o : o = [d EXCEPT !.step = "finish", !.err = TRUE]
      OBVIOUS
    <3>2. o \in OpT /\ o.step = "finish" /\ o.kind = d.kind /\ o.id = d.id
      BY <3>1 DEF OpT, Steps
    <3>3. OpTrue(o, e)
      BY <1>1, <2>3, <2>4, <3>2 DEF OpTrue, Early
    <3>4. op' = o /\ o.step \notin Clear
      BY <1>4, <2>3, <2>6, <3>1, <3>2 DEF Clear
    <3> QED BY <2>1, <2>2, <3>2, <3>3, <3>4, Saves
  <2> QED BY <2>5, <2>6
<1> QED BY <1>2, <1>3, <1>4 DEF EnsurePredecessor

LEMMA SelectKeeps == ASSUME HInv, NEW ok \in BOOLEAN, Select(ok) PROVE Keeps
<1>1. op.step = "select" /\ op.kind # "reconcile"
  BY DEF Select, HInv, OpTrue
<1>2. CASE Selectable(mem)
  BY <1>1, <1>2, EnsureKeeps DEF Select, Selectable, Stopped
<1>3. CASE ~Selectable(mem)
  <2>1. Fail /\ UNCHANGED <<up, mem, disk, fatal, gate, vmVars>>
    BY <1>3 DEF Select
  <2> QED BY <1>1, <2>1, FailKeeps
<1> QED BY <1>2, <1>3

LEMMA StartKeeps == ASSUME HInv, NEW ok \in BOOLEAN, Start(ok) PROVE Keeps
<1>1. op.step = "start" /\ op.kind # "reconcile" /\ up
  BY OpOf DEF Start, HInv, OpTrue
<1>2. CASE Fail /\ UNCHANGED <<up, mem, disk, fatal, gate, vmVars>>
  BY <1>1, <1>2, FailKeeps
<1>3. CASE ~fatal /\ mem.phase = "created" /\ Go("launch") /\ UNCHANGED <<up, mem, disk, fatal, gate, vmVars>>
  <2>1. "launch" \in Steps
    BY DEF Steps
  <2>2. PICK o \in OpT : op' = o /\ o.step = "launch" /\ o.kind = op.kind /\ o.id = op.id /\ o.to = op.to
    BY <1>3, <2>1, GoOp
  <2>3. OpTrue(o, mem)
    BY <1>1, <1>3, <2>2, OpOf DEF OpTrue, Early
  <2> QED BY <1>1, <1>3, <2>2, <2>3, Goes
<1>4. CASE mem.phase \in {"stopped", "fenced"} /\ EnsurePredecessor("launch", ok)
  BY <1>1, <1>4, EnsureKeeps DEF Stopped
<1> QED BY <1>2, <1>3, <1>4 DEF Start

\* The probe's outcome: a confirmation is given with nothing running.
ObservedOf(e, m, p, f, a) ==
    /\ e = [m EXCEPT !.phase = p, !.fence = f, !.actions[m.current] = a] /\ e \in EnvT
    /\ e.phase = p /\ e.fence = f /\ e.actions[m.current] = a /\ \A i \in Ops : i # m.current => e.actions[i] = m.actions[i]
    /\ e.inc = m.inc /\ e.current = m.current /\ e.n = m.n /\ e.retain = m.retain /\ e.harness = m.harness
LEMMA ObservedIs ==
    ASSUME NEW m \in EnvT, NEW p \in Phases, NEW f \in FenceT, NEW a \in ActT, m.current \in Ops
    PROVE  \E e : ObservedOf(e, m, p, f, a)
<1>1. PICK d \in EnvT : ActOf(d, m, m.current, a)
  BY ActIs
<1>2. PICK e \in EnvT : PhaseOf(e, d, p, f)
  BY PhaseIs
<1>3. e = [m EXCEPT !.phase = p, !.fence = f, !.actions[m.current] = a]
  BY <1>1, <1>2 DEF ActOf, PhaseOf, EnvT
<1>4. ObservedOf(e, m, p, f, a)
  BY <1>1, <1>2, <1>3 DEF ObservedOf, ActOf, PhaseOf
<1> QED BY <1>4

LEMMA ObservedTrue ==
    ASSUME NEW m \in EnvT, EnvTrue(m), NEW e, NEW p, NEW f, NEW a, ObservedOf(e, m, p, f, a), p \in {"fenced", "execution_unknown"},
           p = "fenced" => Over(m.inc), FenceTrue(f), ActionTrue(m.inc, a)
    PROVE  EnvTrue(e)
<1>1. e.current <= e.n
  BY DEF EnvTrue, ObservedOf
<1>2. Says(e, m)
  BY <1>1 DEF Says, ObservedOf, Stopped
<1> QED BY <1>2, EnvFrom DEF ObservedOf

LEMMA ProbeKeeps == ASSUME HInv, NEW conf \in BOOLEAN, NEW ok \in BOOLEAN, Probe(conf, ok) PROVE Keeps
<1>1. PICK m \in EnvT : /\ m = mem /\ EnvTrue(m) /\ m.current <= m.n /\ m.n \in 0 .. MaxOps /\ Switched(m) /\ GateTrue(gate, m)
                        /\ \A e \in EnvT : e.harness = m.harness => Switched(e)
  BY MemIs
<1>2. op.step = "probe" /\ UNCHANGED <<up, gate, vmVars>> /\ up /\ ~fatal /\ Probing(op, m)
  BY <1>1, OpOf DEF Probe, HInv, OpTrue, HostTrue, Clear
<1>3. m.current \in Ops /\ m.inc \in Launched /\ helper[m.inc] # "none" /\ gate = 0
  BY <1>1, <1>2, AgentHostAssumption DEF Probing, Ops, GateTrue
<1>4. PICK b \in ActT : b = m.actions[m.current] /\ b.kind = "reconcile" /\ b.expected = m.inc
  BY <1>2, <1>3 DEF Probing, EnvT
<1>5. PICK x \in {"confirmed_current", "unknown"} : x = IF conf THEN "confirmed_current" ELSE "unknown"
  OBVIOUS
<1>6. PICK f : f = [inc |-> m.inc, state |-> x]
  OBVIOUS
<1>7. f \in FenceT /\ f.inc = m.inc /\ (Confirmed(f) <=> conf)
  BY <1>5, <1>6 DEF FenceT, EnvT, Confirmed
<1>8. PICK y \in {"completed", "unknown"} : y = IF conf THEN "completed" ELSE "unknown"
  OBVIOUS
<1>9. PICK p \in Phases : p = (IF conf THEN "fenced" ELSE "execution_unknown")
  BY DEF Phases
<1>10. PICK a : a = [b EXCEPT !.state = y, !.fence = f, !.eligible = conf]
  OBVIOUS
<1>11. /\ a \in ActT /\ a.state = y /\ a.fence = f /\ a.eligible = conf /\ a.kind = "reconcile" /\ a.expected = m.inc
       /\ a.preboot = b.preboot
  BY <1>4, <1>7, <1>10 DEF ActT
<1>12. PICK e : ObservedOf(e, m, p, f, a)
  BY <1>3, <1>7, <1>9, <1>11, ObservedIs
<1>13. conf => (Quiet /\ Over(m.inc) /\ (b.preboot => receipt[m.inc] = "none"))
  <2> SUFFICES ASSUME conf PROVE Quiet /\ Over(m.inc) /\ (b.preboot => receipt[m.inc] = "none")
    OBVIOUS
  <2>1. Quiet /\ (b.preboot => receipt[m.inc] = "none")
    BY <1>1, <1>4 DEF Probe, Confirmable
  <2>2. helper[m.inc] \in {"none", "spawned", "booting", "running", "stopped", "gone"} /\ ~HelperLive(m.inc) /\ m.inc \notin exec
    BY <1>3, <2>1 DEF Quiet, Live, HInv, HostTypes
  <2> QED BY <1>3, <2>1, <2>2 DEF HelperLive, Over
<1>14. FenceTrue(f) /\ ActionTrue(m.inc, a)
  BY <1>3, <1>7, <1>11, <1>13 DEF FenceTrue, ActionTrue
<1>15. EnvTrue(e)
  BY <1>1, <1>9, <1>12, <1>13, <1>14, ObservedTrue
<1>16. PICK c : c = [a EXCEPT !.eligible = FALSE]
  OBVIOUS
<1>17. c \in ActT /\ c.fence = f /\ ~c.eligible
  BY <1>11, <1>16 DEF ActT
<1>18. PICK u \in Phases : u = "execution_unknown"
  BY DEF Phases
<1>19. PICK z : ObservedOf(z, m, u, f, c)
  BY <1>3, <1>7, <1>17, <1>18, ObservedIs
<1>20. EnvTrue(z)
  BY <1>1, <1>14, <1>17, <1>18, <1>19, ObservedTrue, QuietAction
<1>21. z = [e EXCEPT !.phase = "execution_unknown", !.actions[m.current].eligible = FALSE]
  <2>1. z = [m EXCEPT !.phase = u, !.fence = f, !.actions[m.current] = c] /\ e = [m EXCEPT !.phase = p, !.fence = f, !.actions[m.current] = a]
    BY <1>12, <1>19 DEF ObservedOf
  <2>2. PICK g \in [Ops -> ActT] : g = m.actions
    BY DEF EnvT
  <2>3. PICK k \in Ops : k = m.current
    BY <1>3
  <2>4. PICK y1 : y1 = [g EXCEPT ![k] = a]
    OBVIOUS
  <2>5. PICK y2 : y2 = [g EXCEPT ![k] = c]
    OBVIOUS
  <2>6. y1 \in [Ops -> ActT] /\ y1[k] = a /\ y2 = [y1 EXCEPT ![k] = c]
    BY <1>11, <2>4, <2>5
  <2>7. e = [m EXCEPT !.phase = p, !.fence = f, !.actions = y1] /\ z = [m EXCEPT !.phase = u, !.fence = f, !.actions = y2]
    BY <2>1, <2>2, <2>3, <2>4, <2>5
  <2>8. z = [e EXCEPT !.phase = u, !.actions = y2]
    BY <2>7 DEF EnvT
  <2>9. e.actions = y1
    BY <2>7 DEF EnvT
  <2> QED BY <1>16, <1>18, <2>3, <2>6, <2>8, <2>9
<1>22. Save(e, ok) /\ mem' = IF ok THEN e ELSE z
  BY <1>1, <1>4, <1>5, <1>6, <1>8, <1>9, <1>10, <1>12, <1>21 DEF Probe, ObservedOf
<1>23. /\ e \in EnvT /\ z \in EnvT /\ e.harness = m.harness /\ z.harness = m.harness /\ Switched(e) /\ Switched(z)
       /\ GateTrue(gate', e) /\ GateTrue(gate', z) /\ up' = TRUE
  BY <1>1, <1>2, <1>3, <1>12, <1>19 DEF ObservedOf, GateTrue
<1>24. disk' \in {disk, e} /\ fatal' \in BOOLEAN /\ (ok => (disk' = e /\ fatal' = fatal)) /\ (~ok => fatal' = TRUE)
  BY <1>22, SaveIs
<1>25. op.kind # "reconcile" => (op.id \in 1 .. m.n /\ op.id \in Ops /\ op.id # m.current /\ m.actions[op.id].kind = op.kind)
  BY <1>1, <1>2, <1>4, OpOf
<1>26. ASSUME NEW w \in {e, z} PROVE op.kind # "reconcile" => (op.id \in 1 .. w.n /\ w.actions[op.id].kind = op.kind)
  BY <1>12, <1>19, <1>25 DEF ObservedOf
<1>27. PICK d \in OpT : d = op
  BY DEF HInv, HostTypes
<1>28. /\ d.kind = "reconcile" => op' = Idle
       /\ (d.kind # "reconcile" /\ ok /\ conf) => op' = [d EXCEPT !.step = d.to]
       /\ (d.kind # "reconcile" /\ ~(ok /\ conf)) => op' = [d EXCEPT !.step = "finish", !.err = TRUE]
  <2>1. op' = IF op.kind = "reconcile" THEN Idle
             ELSE IF ok /\ conf THEN [op EXCEPT !.step = op.to] ELSE [op EXCEPT !.step = "finish", !.err = TRUE]
    BY DEF Probe
  <2>2. d.kind = "reconcile" => op' = Idle
    BY <1>27, <2>1
  <2>3. (d.kind # "reconcile" /\ ok /\ conf) => op' = [d EXCEPT !.step = d.to]
    BY <1>27, <2>1
  <2>4. (d.kind # "reconcile" /\ ~(ok /\ conf)) => op' = [d EXCEPT !.step = "finish", !.err = TRUE]
    BY <1>27, <2>1
  <2> QED BY <2>2, <2>3, <2>4
<1>29. CASE d.kind = "reconcile"
  <2>1. PICK o \in OpT : o = Idle /\ o.step = "idle" /\ OpTrue(o, e) /\ OpTrue(o, z)
    BY IdleOp
  <2>a. op' = o
    BY <1>28, <1>29, <2>1
  <2>2. op' = o /\ o.step \notin Clear
    BY <2>a, <2>1 DEF Clear
  <2>3. CASE ok
    BY <1>2, <1>15, <1>22, <1>23, <1>24, <2>1, <2>2, <2>3, HostMoves
  <2>4. CASE ~ok
    BY <1>2, <1>15, <1>20, <1>22, <1>23, <1>24, <2>1, <2>2, <2>4, HostMoves
  <2> QED BY <2>3, <2>4
<1>30. CASE d.kind # "reconcile" /\ ~(ok /\ conf)
  <2>1. PICK o : o = [d EXCEPT !.step = "finish", !.err = TRUE]
    OBVIOUS
  <2>2. o \in OpT /\ o.step = "finish" /\ o.kind = d.kind /\ o.id = d.id
    BY <2>1 DEF OpT, Steps
  <2>3. op' = o /\ o.step \notin Clear
    BY <1>28, <1>30, <2>1, <2>2 DEF Clear
  <2>4. OpTrue(o, e) /\ OpTrue(o, z)
    BY <1>26, <1>27, <1>30, <2>2 DEF OpTrue, Early
  <2>5. CASE ok
    BY <1>2, <1>15, <1>22, <1>23, <1>24, <2>2, <2>3, <2>4, <2>5, HostMoves
  <2>6. CASE ~ok
    BY <1>2, <1>15, <1>20, <1>22, <1>23, <1>24, <2>2, <2>3, <2>4, <2>6, HostMoves
  <2> QED BY <2>5, <2>6
<1>31. CASE d.kind # "reconcile" /\ ok /\ conf
  <2>1. PICK o : o = [d EXCEPT !.step = d.to]
    OBVIOUS
  <2>2. d.to \in {"selected", "launch"} /\ d.kind \in {"start", "replace"}
    BY <1>2, <1>27, <1>31 DEF Probing
  <2>3. o \in OpT /\ o.step = d.to /\ o.kind = d.kind /\ o.id = d.id
    BY <2>1 DEF OpT
  <2>4. op' = o
    BY <1>28, <1>31, <2>1
  <2>5. ConfirmedFence(e.fence, e.inc) /\ Stopped(e)
    BY <1>7, <1>9, <1>12, <1>31 DEF ObservedOf, ConfirmedFence, Stopped
  <2>6. Predecessor(e) # 0
    <3>1. e.current # 0 /\ e.actions[e.current] = a /\ e.inc = m.inc
      BY <1>3, <1>12, AgentHostAssumption DEF ObservedOf, Ops
    <3>2. a.state = "completed" /\ a.expected = e.inc /\ a.eligible /\ ConfirmedFence(a.fence, e.inc)
      BY <1>7, <1>8, <1>11, <1>31, <3>1 DEF ConfirmedFence
    <3> QED BY <3>1, <3>2 DEF Predecessor
  <2>7. OpTrue(o, e)
    BY <1>26, <1>27, <2>2, <2>3, <2>5, <2>6 DEF OpTrue
  <2>8. mem' = e /\ ~fatal'
    BY <1>2, <1>22, <1>24, <1>31
  <2> QED BY <1>2, <1>15, <1>23, <1>24, <1>31, <2>3, <2>4, <2>7, <2>8, HostMoves
<1> QED BY <1>29, <1>30, <1>31

\* A step that only finds the journal cannot be written.
LEMMA UnwrittenKeeps ==
    ASSUME HInv, up, NEW o \in OpT, op' = o, o.step \notin Clear, OpTrue(o, mem), fatal' = TRUE, UNCHANGED <<up, mem, disk, gate, vmVars>>
    PROVE  Keeps
<1>1. PICK m \in EnvT : m = mem /\ EnvTrue(m) /\ Switched(m) /\ GateTrue(gate', m)
  BY DEF HInv, HostTypes, HostTrue
<1>2. mem' = m /\ disk' \in {disk, m} /\ fatal' \in BOOLEAN /\ (~fatal' => disk' = m) /\ (o.step \in Clear => ~fatal') /\ up' = TRUE
  BY <1>1
<1> QED BY <1>1, <1>2, HostMoves

LEMMA ProbeUnwrittenKeeps == ASSUME HInv, ProbeUnwritten PROVE Keeps
<1>1. op.step = "probe" /\ up /\ fatal' = TRUE /\ UNCHANGED <<up, mem, disk, gate, vmVars>>
  BY OpOf DEF ProbeUnwritten
<1>2. CASE op.kind = "reconcile"
  <2>1. PICK o \in OpT : o = Idle /\ o.step = "idle" /\ OpTrue(o, mem)
    BY IdleOp
  <2>2. op' = o /\ o.step \notin Clear
    BY <1>2, <2>1 DEF ProbeUnwritten, Clear
  <2> QED BY <1>1, <2>1, <2>2, UnwrittenKeeps
<1>3. CASE op.kind # "reconcile"
  <2>1. PICK m : m = mem
    OBVIOUS
  <2>2. Fail
    BY <1>3 DEF ProbeUnwritten, Fail
  <2>3. PICK o \in OpT : op' = o /\ o.step = "finish" /\ OpTrue(o, m)
    BY <1>1, <1>3, <2>1, <2>2, FailOp
  <2>4. o.step \notin Clear
    BY <2>3 DEF Clear
  <2> QED BY <1>1, <2>1, <2>3, <2>4, UnwrittenKeeps
<1> QED BY <1>2, <1>3

LEMMA RetirementUnwrittenKeeps == ASSUME HInv, RetirementUnwritten PROVE Keeps
<1>1. up /\ op = Idle /\ fatal' = TRUE /\ UNCHANGED <<up, mem, disk, gate, vmVars, op>>
  BY DEF RetirementUnwritten, Ready
<1>2. PICK o \in OpT : o = Idle /\ o.step = "idle" /\ OpTrue(o, mem)
  BY IdleOp
<1>3. op' = o /\ o.step \notin Clear
  BY <1>1, <1>2 DEF Clear
<1> QED BY <1>1, <1>2, <1>3, UnwrittenKeeps

\* The tombstone, over a fence that holds.
LEMMA RetireKeeps == ASSUME HInv, NEW delete \in BOOLEAN, NEW ok \in BOOLEAN, Retire(delete, ok) PROVE Keeps
<1>1. PICK m \in EnvT : /\ m = mem /\ EnvTrue(m) /\ m.current <= m.n /\ m.n \in 0 .. MaxOps /\ Switched(m) /\ GateTrue(gate, m)
                        /\ \A e \in EnvT : e.harness = m.harness => Switched(e)
  BY MemIs
<1>2. /\ up /\ op = Idle /\ ~fatal /\ m.n < MaxOps /\ m.phase \in {"stopped", "fenced"} /\ (delete => Quiet)
      /\ UNCHANGED <<up, gate, vmVars>>
  BY <1>1 DEF Retire, Ready, RetirementProbe
<1>3. PICK f \in FenceT : f = m.fence /\ FenceTrue(f)
  BY <1>1 DEF EnvT, EnvTrue
<1>4. PICK b \in ActT : b = NoAction /\ ~b.eligible /\ ~Confirmed(b.fence)
  BY NewAction
<1>5. PICK s \in {"cleanup_pending", "completed"} : s = IF delete THEN "cleanup_pending" ELSE "completed"
  OBVIOUS
<1>6. PICK a : a = [b EXCEPT !.kind = "retire", !.expected = m.inc, !.fence = f, !.state = s]
  OBVIOUS
<1>7. a \in ActT /\ ~a.eligible /\ a.fence = f /\ a.kind = "retire"
  BY <1>3, <1>4, <1>5, <1>6 DEF ActT, EnvT, Kinds
<1>8. PICK p \in Phases : p = "retired"
  BY DEF Phases
<1>9. PICK c \in 0 .. MaxOps : c = m.current
  BY DEF EnvT
<1>10. PICK e \in EnvT : LogOf(e, m, a, p, c)
  BY <1>2, <1>7, <1>8, <1>9, LogIs
<1>11. e = [Recorded(m, a) EXCEPT !.phase = "retired"]
  <2>1. PICK r \in EnvT : r = Recorded(m, a) /\ r.current = m.current
    <3>1. \E r \in EnvT : /\ r = Recorded(m, a) /\ r.n = m.n + 1 /\ r.n \in Ops /\ r.actions[r.n] = a
                          /\ \A i \in Ops : i # m.n + 1 => r.actions[i] = m.actions[i]
                          /\ r.phase = m.phase /\ r.inc = m.inc /\ r.process = m.process /\ r.fence = m.fence /\ r.current = m.current
                          /\ r.exit = m.exit /\ r.retain = m.retain /\ r.harness = m.harness
      BY <1>2, <1>7, RecordedIs
    <3> QED BY <3>1
  <2>2. e = [r EXCEPT !.phase = p, !.current = c]
    BY <1>10, <2>1 DEF LogOf
  <2> QED BY <1>8, <1>9, <2>1, <2>2 DEF EnvT
<1>12. mem' = e /\ Save(e, ok)
  BY <1>1, <1>3, <1>4, <1>5, <1>6, <1>11 DEF Retire
<1>13. EnvTrue(e)
  <2>1. c <= m.n + 1 /\ FenceTrue(a.fence) /\ p \notin {"absent", "created"} /\ Over(m.inc)
    BY <1>1, <1>2, <1>3, <1>7, <1>8, <1>9 DEF EnvTrue, Stopped
  <2> QED BY <1>1, <1>7, <1>10, <2>1, LogTrue
<1>14. Switched(e) /\ GateTrue(gate', e) /\ up' = TRUE /\ e.n = m.n + 1 /\ e.n \in Ops /\ e.actions[e.n] = a /\ e.phase = "retired"
  BY <1>1, <1>2, <1>8, <1>10 DEF GateTrue, LogOf
<1>15. PICK d \in OpT : d = Idle /\ d.step = "idle" /\ OpTrue(d, e)
  BY IdleOp
<1>16. op' = IF ok /\ delete THEN [d EXCEPT !.kind = "retire", !.id = m.n + 1, !.step = "unlink"] ELSE d
  BY <1>1, <1>15 DEF Retire
<1>17. CASE ok /\ delete
  <2>1. PICK o : o = [d EXCEPT !.kind = "retire", !.id = m.n + 1, !.step = "unlink"]
    OBVIOUS
  <2>2. m.n + 1 \in 0 .. MaxOps /\ e.n \in 1 .. e.n
    BY <1>1, <1>14, <1>2, AgentHostAssumption
  <2>3. o \in OpT /\ o.kind = "retire" /\ o.id = e.n /\ o.step = "unlink"
    BY <1>14, <2>1, <2>2 DEF OpT, Kinds, Steps
  <2>4. OpTrue(o, e)
    BY <1>2, <1>7, <1>14, <1>17, <2>2, <2>3 DEF OpTrue, Early
  <2>5. op' = o
    BY <1>16, <1>17, <2>1
  <2> QED BY <1>2, <1>12, <1>13, <1>14, <1>17, <2>3, <2>4, <2>5, Saves
<1>18. CASE ~(ok /\ delete)
  <2>1. op' = d
    BY <1>16, <1>18
  <2>2. d.step \notin Clear
    BY <1>15 DEF Clear
  <2> QED BY <1>2, <1>12, <1>13, <1>14, <1>15, <2>1, <2>2, Saves
<1> QED BY <1>17, <1>18

LEMMA ResumeCleanupKeeps == ASSUME HInv, NEW i \in Ops, ResumeCleanup(i) PROVE Keeps
<1>1. /\ up /\ op = Idle /\ ~fatal /\ i \in 1 .. mem.n /\ mem.actions[i].kind = "retire" /\ mem.phase = "retired"
      /\ root = "made" => Quiet
      /\ UNCHANGED <<up, mem, disk, fatal, gate, vmVars>>
  BY DEF ResumeCleanup, Ready, Of, RetirementProbe
<1>2. PICK s \in {"unlink", "unlinked"} : s = IF root = "made" THEN "unlink" ELSE "unlinked"
  OBVIOUS
<1>3. PICK d \in OpT : d = Idle
  BY IdleOp
<1>4. PICK o : o = [d EXCEPT !.kind = "retire", !.id = i, !.step = s]
  OBVIOUS
<1>5. i \in 0 .. MaxOps
  BY AgentHostAssumption DEF Ops
<1>6. o \in OpT /\ o.kind = "retire" /\ o.id = i /\ o.step = s
  BY <1>4, <1>5 DEF OpT, Kinds, Steps
<1>7. op' = o
  BY <1>2, <1>3, <1>4 DEF ResumeCleanup
<1>8. OpTrue(o, mem)
  BY <1>1, <1>2, <1>6 DEF OpTrue, Early
<1> QED BY <1>1, <1>6, <1>7, <1>8, Goes

\* What is on disk is what a new process starts from.
LEMMA CrashKeeps == ASSUME HInv, Crash PROVE Keeps
<1>1. up' = FALSE /\ mem' = disk /\ fatal' = FALSE /\ gate' = 0 /\ op' = Idle /\ UNCHANGED <<disk, vmVars>>
  BY DEF Crash
<1>2. PICK d \in EnvT : d = disk /\ EnvTrue(d)
  BY DEF HInv, HostTypes
<1>3. PICK o \in OpT : o = Idle /\ o.step = "idle" /\ OpTrue(o, d)
  BY IdleOp
<1>4. /\ mem' = d /\ disk' \in {disk, d} /\ op' = o /\ fatal' \in BOOLEAN /\ (~fatal' => disk' = d) /\ (o.step \in Clear => ~fatal')
      /\ Switched(d) /\ GateTrue(gate', d) /\ up' \in BOOLEAN /\ (~up' => (o = Idle /\ gate' = 0 /\ ~fatal'))
  BY <1>1, <1>2, <1>3 DEF Switched, GateTrue
<1> QED BY <1>1, <1>2, <1>3, <1>4, HostStep

LEMMA OpenHostKeeps == ASSUME HInv, NEW seen \in BOOLEAN, NEW ok \in BOOLEAN, OpenHost(seen, ok) PROVE Keeps
<1>1. PICK m \in EnvT : /\ m = mem /\ EnvTrue(m) /\ m.current <= m.n /\ m.n \in 0 .. MaxOps /\ Switched(m) /\ GateTrue(gate, m)
                        /\ \A e \in EnvT : e.harness = m.harness => Switched(e)
  BY MemIs
<1>2. ~up /\ up' = TRUE /\ op = Idle /\ gate = 0 /\ ~fatal /\ m = disk /\ UNCHANGED <<vmVars, op>>
  BY <1>1 DEF OpenHost, HInv, HostTrue
<1>3. PICK o \in OpT : o = Idle /\ o.step = "idle" /\ \A e : OpTrue(o, e)
  BY IdleOp
<1>4. op' = o /\ o.step \notin Clear
  BY <1>2, <1>3 DEF Clear
<1>5. CASE mem.phase = "running" /\ ~seen
  <2>1. PICK p \in Phases : p = "execution_unknown"
    BY DEF Phases
  <2>2. PICK d \in FenceT : d = m.fence /\ FenceTrue(d)
    BY <1>1 DEF EnvT, EnvTrue
  <2>3. PICK e \in EnvT : PhaseOf(e, m, p, d)
    BY <2>1, <2>2, PhaseIs
  <2>4. e = [m EXCEPT !.phase = "execution_unknown"]
    BY <2>1, <2>2, <2>3 DEF PhaseOf, EnvT
  <2>5. mem' = e /\ Save(e, ok) /\ gate' = gate
    BY <1>1, <1>5, <2>4 DEF OpenHost
  <2>6. EnvTrue(e)
    BY <1>1, <2>1, <2>2, <2>3, PhaseTrue DEF Stopped, PhaseOf
  <2>7. Switched(e) /\ GateTrue(gate', e)
    BY <1>1, <1>2, <2>3, <2>5 DEF GateTrue, PhaseOf
  <2> QED BY <1>2, <1>3, <1>4, <2>5, <2>6, <2>7, Saves
<1>6. CASE ~(mem.phase = "running" /\ ~seen)
  <2>1. gate' = (IF m.phase = "running" THEN m.inc ELSE gate) /\ UNCHANGED <<mem, disk, fatal>>
    BY <1>1, <1>6 DEF OpenHost
  <2>2. mem' = m /\ disk' \in {disk, m} /\ fatal' \in BOOLEAN /\ (~fatal' => disk' = m) /\ (o.step \in Clear => ~fatal')
    BY <1>1, <1>2, <2>1 DEF HInv, HostTypes
  <2>3. GateTrue(gate', m)
    BY <1>2, <2>1 DEF GateTrue
  <2> QED BY <1>1, <1>2, <1>3, <1>4, <2>2, <2>3, HostMoves
<1> QED BY <1>5, <1>6

\* The identity advances with nothing of the last incarnation running, and asks for the disk
\* wherever one may exist.
LEMMA LaunchKeeps == ASSUME HInv, NEW ok \in BOOLEAN, Launch(ok) PROVE Keeps
<1>1. PICK m \in EnvT : /\ m = mem /\ EnvTrue(m) /\ m.current <= m.n /\ m.n \in 0 .. MaxOps /\ Switched(m) /\ GateTrue(gate, m)
                        /\ \A e \in EnvT : e.harness = m.harness => Switched(e)
  BY MemIs
<1>2. /\ op.step = "launch" /\ UNCHANGED <<up, gate, vmVars>> /\ op.kind # "reconcile" /\ up /\ ~fatal
      /\ m.phase = "created" \/ (Predecessor(m) # 0 /\ Stopped(m))
  BY <1>1, OpOf DEF Launch, HInv, OpTrue, HostTrue, Clear
<1>3. gate = 0 /\ m.phase \notin {"launching", "running"}
  BY <1>1, <1>2 DEF GateTrue, Stopped
<1>4. Quiet
  BY <1>1, <1>2, PredQuiet DEF EnvTrue
<1>5. PICK r \in BOOLEAN : r = Retain(m)
  BY DEF Retain, EnvT
<1>6. ~r => root = "none"
  <2> SUFFICES ASSUME ~r, root # "none" PROVE FALSE
    OBVIOUS
  <2>1. m.phase # "created" /\ ~m.retain /\ m.actions[Predecessor(m)].preboot
    BY <1>1, <1>5 DEF Retain, EnvTrue
  <2>2. /\ Predecessor(m) = m.current /\ m.current \in Ops /\ m.actions[m.current].eligible /\ m.actions[m.current].expected = m.inc
        /\ m.actions[m.current].state = "completed" /\ ConfirmedFence(m.actions[m.current].fence, m.inc)
    BY <1>2, <2>1, PredIs
  <2>3. m.inc \in Launched /\ receipt[m.inc] # "none"
    BY <1>1, <2>1 DEF EnvTrue, DiskKept
  <2> QED BY <1>1, <2>1, <2>2, <2>3 DEF EnvTrue, ActionTrue
<1>7. PICK b \in ActT : b = m.actions[op.id] /\ op.id \in Ops /\ ~b.eligible /\ FenceTrue(b.fence) /\ b.kind = op.kind
  BY <1>1, <1>2, OwnAction
<1>8. PICK z \in ActT : z = NoAction /\ ~z.eligible /\ ~Confirmed(z.fence)
  BY NewAction
<1>9. PICK x : x = [i \in Ops |-> IF i = 1 THEN b ELSE z]
  OBVIOUS
<1>10. 1 \in Ops /\ 1 \in 0 .. MaxOps
  BY <1>7, AgentHostAssumption DEF Ops
<1>11. x \in [Ops -> ActT] /\ x[1] = b /\ \A i \in Ops : x[i] \in {b, z}
  BY <1>9, <1>10
<1>12. PICK k \in Nat : k = m.inc + 1 /\ m.inc \in Nat
  BY DEF EnvT
<1>13. PICK e : e = [m EXCEPT !.n = 1, !.current = 0, !.actions = x, !.retain = r, !.inc = k, !.exit = "none", !.phase = "launching"]
  OBVIOUS
<1>14. /\ e \in EnvT /\ e.n = 1 /\ e.current = 0 /\ e.actions = x /\ e.retain = r /\ e.inc = k /\ e.phase = "launching"
       /\ e.fence = m.fence /\ e.harness = m.harness
  <2>1. "launching" \in Phases /\ 0 \in 0 .. MaxOps
    BY AgentHostAssumption DEF Phases
  <2>2. e \in EnvT
    BY <1>5, <1>10, <1>11, <1>12, <1>13, <2>1 DEF EnvT
  <2> QED BY <1>13, <2>2 DEF EnvT
<1>15. e = [Only(m, op.id) EXCEPT !.retain = Retain(m), !.inc = @ + 1, !.exit = "none", !.phase = "launching"]
  BY <1>5, <1>7, <1>8, <1>9, <1>12, <1>13 DEF Only, EnvT
<1>16. mem' = e /\ Save(e, ok)
  BY <1>1, <1>15 DEF Launch
<1>17. \A i \in Ops : ~e.actions[i].eligible /\ FenceTrue(e.actions[i].fence)
  BY <1>7, <1>8, <1>11, <1>14 DEF FenceTrue
<1>18. \A j \in Launched : ~Acts(j) /\ (helper[j] # "none" => j <= m.inc)
  BY <1>1, <1>4 DEF Quiet, Live, Acts, EnvTrue, Named
<1>19. EnvTrue(e)
  <2>1. Named(e.inc)
    BY <1>12, <1>14, <1>18, AgentHostAssumption DEF Named, Launched
  <2>2. DiskKept(e)
    BY <1>6, <1>14 DEF DiskKept
  <2>3. FenceTrue(e.fence)
    BY <1>1, <1>14 DEF EnvTrue
  <2>4. \A i \in Ops : ActionTrue(e.inc, e.actions[i])
    BY <1>17, QuietAction
  <2> QED BY <1>14, <2>1, <2>2, <2>3, <2>4 DEF EnvTrue, Stopped
<1>20. Spawning(e)
  <2>1. e.inc \in Launched => helper[e.inc] = "none"
    BY <1>12, <1>14, <1>18
  <2> QED BY <1>4, <1>6, <1>14, <1>17, <2>1 DEF Spawning
<1>21. PICK d \in OpT : d = op
  BY DEF HInv, HostTypes
<1>22. PICK s \in {"spawn", "finish"} : s = IF ok THEN "spawn" ELSE "finish"
  OBVIOUS
<1>23. PICK o : o = [d EXCEPT !.id = 1, !.step = s, !.err = ~ok]
  OBVIOUS
<1>24. o \in OpT /\ o.id = 1 /\ o.step = s /\ o.kind = d.kind
  BY <1>10, <1>23 DEF OpT, Steps
<1>25. op' = o
  BY <1>21, <1>22, <1>23 DEF Launch
<1>26. OpTrue(o, e)
  BY <1>2, <1>7, <1>11, <1>14, <1>20, <1>21, <1>22, <1>24 DEF OpTrue, Early
<1>27. Switched(e) /\ GateTrue(gate', e) /\ up' = TRUE /\ (o.step \in Clear => (ok /\ ~fatal))
  BY <1>1, <1>2, <1>3, <1>14, <1>22, <1>24 DEF GateTrue, Clear
<1> QED BY <1>2, <1>14, <1>16, <1>19, <1>24, <1>25, <1>26, <1>27, Saves

(*********************************** the machine ************************************)

\* What a step of the machine leaves true: no incarnation begins to act, what is over stays
\* over, and a disk appears only under an incarnation that has its receipt.
Moves ==
    /\ \A k \in Launched : /\ Over(k) => Over(k)'
                           /\ Acts(k)' => Acts(k)
                           /\ helper'[k] # "none" <=> helper[k] # "none"
                           /\ receipt[k] # "none" => receipt'[k] # "none"
    /\ Quiet => receipt' = receipt
    /\ (root' # "none" /\ root = "none") => \E k \in Launched : Acts(k) /\ receipt'[k] # "none"

LEMMA QuietIs == Quiet <=> (\A k \in Launched : ~Acts(k)) /\ exec = exec \cap Launched
<1>1. CASE Quiet
  BY <1>1 DEF Quiet, Live, Acts
<1>2. CASE (\A k \in Launched : ~Acts(k)) /\ exec = exec \cap Launched
  BY <1>2 DEF Quiet, Live, Acts
<1> QED BY <1>1, <1>2

LEMMA QuietMoves == ASSUME HInv, Moves, exec' \subseteq Launched, Quiet PROVE Quiet' /\ receipt' = receipt /\ (root = "none" => root' = "none")
<1>1. \A k \in Launched : ~Acts(k)
  BY QuietIs
<1>2. \A k \in Launched : ~Acts(k)'
  BY <1>1 DEF Moves
<1>3. Quiet'
  BY <1>2 DEF Quiet, Live, Acts
<1> QED BY <1>1, <1>3 DEF Moves

LEMMA OverMoves == ASSUME Moves, NEW k, Over(k) PROVE Over(k)'
  BY DEF Moves, Over

LEMMA EnvMoves ==
    ASSUME HInv, Moves, exec' \subseteq Launched, NEW e, EnvTrue(e), root # "none" => root' # "none" PROVE EnvTrue(e)'
<1>0. Quiet => (Quiet' /\ receipt' = receipt /\ (root = "none" => root' = "none"))
  BY QuietMoves
<1>1. (e.phase \in {"absent", "created"} => (Quiet /\ root = "none" /\ e.inc = 0))' /\ (e.phase = "absent" => e.harness = "codex")
  BY <1>0 DEF EnvTrue
<1>2. Named(e.inc)'
  BY DEF EnvTrue, Named, Moves
<1>3. DiskKept(e)'
  <2> SUFFICES ASSUME root' # "none", ~e.retain PROVE e.inc \in Launched /\ receipt'[e.inc] # "none"
    BY DEF DiskKept
  <2>1. CASE root # "none"
    BY <2>1 DEF EnvTrue, DiskKept, Moves
  <2>2. CASE root = "none"
    BY <2>2 DEF EnvTrue, Named, Moves
  <2> QED BY <2>1, <2>2
<1>4. FenceTrue(e.fence)' /\ (Stopped(e) => Over(e.inc)')
  BY OverMoves DEF EnvTrue, FenceTrue
<1>5. \A i \in Ops : ActionTrue(e.inc, e.actions[i])'
  <2> TAKE i \in Ops
  <2>1. ActionTrue(e.inc, e.actions[i])
    BY DEF EnvTrue
  <2> QED BY <1>0, <2>1, OverMoves DEF ActionTrue, FenceTrue
<1> QED BY <1>1, <1>2, <1>3, <1>4, <1>5 DEF EnvTrue

LEMMA OpMoves == ASSUME HInv, Moves, exec' \subseteq Launched, NEW o, NEW e, OpTrue(o, e) PROVE OpTrue(o, e)'
<1>0. Quiet => (Quiet' /\ (root = "none" => root' = "none"))
  BY QuietMoves
<1>1. Probing(o, e) => Probing(o, e)'
  BY DEF Probing, Moves
<1>2. Spawning(e) => Spawning(e)'
  BY <1>0 DEF Spawning, Moves
<1> QED BY <1>0, <1>1, <1>2 DEF OpTrue

LEMMA MachineMoves ==
    ASSUME HInv, Moves, exec' \subseteq Launched, root # "none" => root' # "none", HostTypes', \A i \in Launched : MachineTrue(i)',
           NEW o \in OpT, op' = o, OpTrue(o, mem), o.step \in Clear => op.step \in Clear, up \/ o = Idle,
           UNCHANGED <<up, mem, disk, fatal, gate>>
    PROVE  HInv' /\ disk'.harness = disk.harness
<1>1. PICK m : m = mem
  OBVIOUS
<1>2. PICK d : d = disk
  OBVIOUS
<1>3. EnvTrue(m)' /\ EnvTrue(d)'
  BY <1>1, <1>2, EnvMoves DEF HInv
<1>4. OpTrue(o, m)'
  BY <1>1, OpMoves
<1>5. HostTrue'
  BY QuietMoves DEF HInv, HostTrue, GateTrue, Switched
<1> QED BY <1>1, <1>2, <1>3, <1>4, <1>5 DEF HInv

LEMMA LoseDiskKeeps == ASSUME HInv, LoseDisk PROVE Keeps
<1>1. root = "made" /\ root' = "lost" /\ UNCHANGED <<up, mem, disk, fatal, gate, op, config, helper, code, receipt, exec>>
  BY DEF LoseDisk, hostVars
<1>2. HostTypes' /\ exec' \subseteq Launched
  BY <1>1 DEF HInv, HostTypes
<1>3. Moves
  BY <1>1 DEF Moves, Over, Acts, HelperLive
<1>4. \A i \in Launched : MachineTrue(i)'
  BY <1>1 DEF HInv, MachineTrue
<1>5. PICK o \in OpT : o = op /\ OpTrue(o, mem) /\ (up \/ o = Idle)
  BY DEF HInv, HostTypes, HostTrue
<1>6. HInv' /\ disk'.harness = disk.harness
  BY <1>1, <1>2, <1>3, <1>4, <1>5, MachineMoves
<1> QED BY <1>1, <1>6 DEF Keeps, RestStep

\* The workspace is unlinked behind the tombstone, with nothing running.
LEMMA UnlinkKeeps == ASSUME HInv, Unlink PROVE Keeps
<1>1. op.step = "unlink" /\ op.kind # "reconcile" /\ UNCHANGED <<up, mem, disk, fatal, gate, config, helper, code, receipt, exec>>
  BY DEF Unlink, HInv, OpTrue
<1>2. Quiet /\ disk.phase = "retired" /\ ~fatal /\ up
  BY <1>1, OpOf DEF HInv, OpTrue, HostTrue, Clear
<1>3. CASE root = "made"
  <2>1. root' = "deleted" /\ Go("unlinked")
    BY <1>3 DEF Unlink
  <2>2. HostTypes' /\ exec' \subseteq Launched
    <3>1. "unlinked" \in Steps
      BY DEF Steps
    <3>2. \E o \in OpT : op' = o /\ o.step = "unlinked" /\ o.kind = op.kind /\ o.id = op.id /\ o.to = op.to
      BY <2>1, <3>1, GoOp
    <3> QED BY <1>1, <2>1, <3>2 DEF HInv, HostTypes
  <2>3. Moves
    BY <1>1, <1>3 DEF Moves, Over, Acts, HelperLive
  <2>4. \A i \in Launched : MachineTrue(i)'
    BY <1>1, <1>3 DEF HInv, MachineTrue
  <2>5. "unlinked" \in Steps
    BY DEF Steps
  <2>6. PICK o \in OpT : op' = o /\ o.step = "unlinked" /\ o.kind = op.kind /\ o.id = op.id /\ o.to = op.to
    BY <2>1, <2>5, GoOp
  <2>7. OpTrue(o, mem) /\ op.step \in Clear
    BY <1>1, <2>6, OpOf DEF OpTrue, Clear, Early
  <2>8. HInv' /\ disk'.harness = disk.harness
    BY <1>1, <1>2, <2>1, <2>2, <2>3, <2>4, <2>6, <2>7, MachineMoves
  <2> QED BY <1>2, <1>3, <2>1, <2>8 DEF Keeps, RestStep
<1>4. CASE root # "made"
  <2>1. op' = Idle /\ root' = root
    BY <1>4 DEF Unlink
  <2>2. PICK o \in OpT : o = Idle /\ o.step = "idle" /\ OpTrue(o, mem)
    BY IdleOp
  <2>3. o.step \notin Clear /\ UNCHANGED vmVars
    BY <1>1, <2>1, <2>2 DEF Clear, vmVars
  <2> QED BY <1>1, <1>2, <2>1, <2>2, <2>3, Goes
<1> QED BY <1>3, <1>4

\* A helper's step: it and its own VM change, and it was acting before.
LEMMA HelperKeeps == ASSUME HInv, NEW i \in Launched, Helper(i) PROVE Keeps
<1>1. UNCHANGED <<up, mem, disk, fatal, gate, op, config>>
  BY DEF Helper, HelperRefuse, HelperBoot, HelperRun, HelperNotCreated, HelperStop, HelperExits, ExecutorGone, hostVars
<1>2. /\ \A k \in Launched : k # i => helper'[k] = helper[k] /\ receipt'[k] = receipt[k] /\ (k \in exec' <=> k \in exec)
      /\ exec' \subseteq Launched
  BY DEF Helper, HelperRefuse, HelperBoot, HelperRun, HelperNotCreated, HelperStop, HelperExits, ExecutorGone, Exit, HInv, HostTypes
<1>3. HostTypes'
  BY <1>1, <1>2 DEF Helper, HelperRefuse, HelperBoot, HelperRun, HelperNotCreated, HelperStop, HelperExits, ExecutorGone, Exit, HInv, HostTypes
<1>4. Acts(i) /\ helper[i] # "none" /\ helper'[i] # "none" /\ (receipt[i] # "none" => receipt'[i] # "none") /\ (Over(i) => Over(i)')
  BY DEF Helper, HelperRefuse, HelperBoot, HelperRun, HelperNotCreated, HelperStop, HelperExits, ExecutorGone, Exit, HInv, HostTypes,
         MachineTrue, Acts, HelperLive, Over
<1>5. root' # root => (root' = "made" /\ receipt'[i] # "none" /\ helper[i] = "booting" /\ RootReady(i))
  BY DEF Helper, HelperRefuse, HelperBoot, HelperRun, HelperNotCreated, HelperStop, HelperExits, ExecutorGone, HInv, HostTypes, MachineTrue
<1>6. root' # root => root = "none"
  BY <1>5 DEF RootReady, HInv, MachineTrue
<1>7. Moves
  <2>1. ASSUME NEW k \in Launched
        PROVE  (Over(k) => Over(k)') /\ (Acts(k)' => Acts(k)) /\ (helper'[k] # "none" <=> helper[k] # "none")
               /\ (receipt[k] # "none" => receipt'[k] # "none")
    <3>1. CASE k = i
      BY <1>4, <3>1
    <3>2. CASE k # i
      BY <1>2, <3>2 DEF Over, Acts, HelperLive
    <3> QED BY <3>1, <3>2
  <2>2. ~Quiet
    BY <1>4, QuietIs
  <2>3. (root' # "none" /\ root = "none") => \E k \in Launched : Acts(k) /\ receipt'[k] # "none"
    BY <1>4, <1>5
  <2> QED BY <2>1, <2>2, <2>3 DEF Moves
<1>8. MachineTrue(i)'
  BY <1>1 DEF Helper, HelperRefuse, HelperBoot, HelperRun, HelperNotCreated, HelperStop, HelperExits, ExecutorGone, Exit, HInv, HostTypes,
         MachineTrue, HelperLive
<1>9. \A k \in Launched : MachineTrue(k)'
  <2> SUFFICES ASSUME NEW k \in Launched, k # i PROVE MachineTrue(k)'
    BY <1>8
  <2>1. MachineTrue(k) /\ helper'[k] = helper[k] /\ receipt'[k] = receipt[k] /\ (k \in exec' <=> k \in exec) /\ config' = config
    BY <1>1, <1>2 DEF HInv
  <2>2. helper[k] \notin {"spawned", "booting", "running", "stopped"}
    BY <1>4 DEF HInv, EnvTrue, Named, Acts, HelperLive
  <2> QED BY <2>1, <2>2 DEF MachineTrue
<1>10. PICK o \in OpT : o = op /\ OpTrue(o, mem) /\ (up \/ o = Idle)
  BY DEF HInv, HostTypes, HostTrue
<1>11. HInv' /\ disk'.harness = disk.harness
  BY <1>1, <1>2, <1>3, <1>6, <1>7, <1>9, <1>10, MachineMoves
<1> QED BY <1>5, <1>6, <1>11 DEF Keeps, RestStep

\* A helper is started for an incarnation that is durable, with nothing else running.
LEMMA SpawnKeeps == ASSUME HInv, Spawn PROVE Keeps
<1>1. PICK m \in EnvT : /\ m = mem /\ EnvTrue(m) /\ m.current <= m.n /\ m.n \in 0 .. MaxOps /\ Switched(m) /\ GateTrue(gate, m)
                        /\ \A e \in EnvT : e.harness = m.harness => Switched(e)
  BY MemIs
<1>2. /\ op.step = "spawn" /\ op.kind # "reconcile" /\ up /\ ~fatal /\ m = disk /\ Spawning(m)
      /\ UNCHANGED <<up, mem, disk, fatal, code, receipt, exec, root>>
  BY <1>1, OpOf DEF Spawn, HInv, OpTrue, HostTrue, Clear
<1>3. CASE gate' \in {0, m.inc} /\ Fail /\ UNCHANGED <<config, helper>>
  <2>1. PICK o \in OpT : op' = o /\ o.step = "finish" /\ OpTrue(o, m)
    BY <1>1, <1>2, <1>3, FailOp
  <2>2. /\ GateTrue(gate', m) /\ mem' = m /\ disk' \in {disk, m} /\ fatal' \in BOOLEAN /\ (~fatal' => disk' = m)
        /\ (o.step \in Clear => ~fatal') /\ up' = TRUE /\ UNCHANGED vmVars
    BY <1>1, <1>2, <1>3 DEF GateTrue, Spawning, vmVars, HInv, HostTypes
  <2> QED BY <1>1, <2>1, <2>2, HostMoves
<1>4. CASE /\ gate' = m.inc /\ config' = [config EXCEPT ![m.inc] = IF m.retain THEN "retain" ELSE "fresh"]
           /\ helper' = [helper EXCEPT ![m.inc] = "spawned"] /\ Go("record")
  <2>1. "record" \in Steps
    BY DEF Steps
  <2>2. PICK o \in OpT : op' = o /\ o.step = "record" /\ o.kind = op.kind /\ o.id = op.id /\ o.to = op.to
    BY <1>4, <2>1, GoOp
  <2>3. HostTypes'
    BY <1>2, <1>4, <2>2 DEF HInv, HostTypes
  <2>4. \A k \in Launched : k # m.inc => helper'[k] = helper[k] /\ config'[k] = config[k]
    BY <1>4 DEF HInv, HostTypes
  <2>5. m.inc \in Launched => helper[m.inc] = "none" /\ helper'[m.inc] = "spawned" /\ config'[m.inc] = IF m.retain THEN "retain" ELSE "fresh"
    BY <1>2, <1>4 DEF HInv, HostTypes, Spawning
  <2>6. \A i \in Launched : MachineTrue(i)'
    <3> TAKE i \in Launched
    <3>1. MachineTrue(i) /\ receipt' = receipt /\ exec' = exec /\ root' = root
      BY <1>2 DEF HInv
    <3>2. CASE i = m.inc
      BY <1>2, <2>5, <3>1, <3>2 DEF MachineTrue, Spawning
    <3>3. CASE i # m.inc
      BY <2>4, <3>1, <3>3 DEF MachineTrue
    <3> QED BY <3>2, <3>3
  <2>7. EnvTrue(m)'
    <3>1. m.phase = "launching" /\ Quiet /\ \A i \in Ops : ~m.actions[i].eligible
      BY <1>2 DEF Spawning
    <3>2. \A k \in Launched : ~Acts(k)
      BY <3>1, QuietIs
    <3>3. Named(m.inc)'
      <4>1. m.inc \in Nat /\ Named(m.inc)
        BY <1>1 DEF EnvT, EnvTrue
      <4> SUFFICES ASSUME NEW k \in Launched PROVE (helper'[k] # "none" => k <= m.inc) /\ (Acts(k)' => k = m.inc)
        BY DEF Named
      <4>2. CASE k = m.inc
        BY <4>1, <4>2
      <4>3. CASE k # m.inc
        BY <1>2, <2>4, <3>2, <4>1, <4>3 DEF Named, Acts, HelperLive
      <4> QED BY <4>2, <4>3
    <3>4. \A k : Over(k) => Over(k)'
      BY <1>2, <2>4, <2>5 DEF Over
    <3>5. FenceTrue(m.fence)' /\ \A i \in Ops : ActionTrue(m.inc, m.actions[i])'
      BY <1>1, <3>1, <3>4 DEF EnvTrue, FenceTrue, ActionTrue
    <3>6. DiskKept(m)' /\ m.current <= m.n
      BY <1>1, <1>2 DEF EnvTrue, DiskKept
    <3> QED BY <3>1, <3>3, <3>5, <3>6 DEF EnvTrue, Stopped
  <2>8. OpTrue(o, m)'
    BY <1>1, <1>2, <2>2, OpOf DEF OpTrue, Early
  <2>9. HostTrue'
    BY <1>1, <1>2, <1>4, <2>2 DEF HostTrue, GateTrue, Spawning, Switched
  <2>10. EnvTrue(mem)' /\ EnvTrue(disk)' /\ OpTrue(op, mem)'
    BY <1>1, <1>2, <2>2, <2>7, <2>8
  <2> QED BY <1>1, <1>2, <2>3, <2>6, <2>9, <2>10 DEF Keeps, HInv, RestStep
<1> QED BY <1>1, <1>3, <1>4 DEF Spawn

(*********************************** the theorems ***********************************)
LEMMA NextKeeps == ASSUME HInv, Next PROVE Keeps
<1>1. ASSUME NEW ok \in BOOLEAN, Operation(ok) PROVE Keeps
  BY <1>1, BeginKeeps, RevokeKeeps, StopKeeps, BindKeeps, ReconcileRequestKeeps, ProbeKeeps, SelectKeeps, SelectedKeeps, StartKeeps,
     LaunchKeeps, RecordKeeps, FinishKeeps, RetireKeeps, FinishRetirementKeeps DEF Operation
<1>2. ASSUME NEW ok \in BOOLEAN, Create(ok) \/ (\E seen \in BOOLEAN : OpenHost(seen, ok)) \/ (\E i \in Launched : Waiter(i, ok))
      PROVE  Keeps
  BY <1>2, CreateKeeps, OpenHostKeeps, WaiterKeeps
<1>3. CASE ProbeUnwritten \/ RetirementUnwritten \/ Spawn \/ Unlink \/ (\E i \in Ops : ResumeCleanup(i)) \/ Crash \/ LoseDisk
           \/ \E i \in Launched : Helper(i)
  BY <1>3, ProbeUnwrittenKeeps, RetirementUnwrittenKeeps, SpawnKeeps, UnlinkKeeps, ResumeCleanupKeeps, CrashKeeps, LoseDiskKeeps, HelperKeeps
<1> QED BY <1>1, <1>2, <1>3 DEF Next

LEMMA InitTrue == ASSUME Init PROVE HInv
<1>1. PICK a \in ActT : a = NoAction /\ ~a.eligible /\ ~Confirmed(a.fence)
  BY NewAction
<1>2. PICK x : x = [i \in Ops |-> a]
  OBVIOUS
<1>3. x \in [Ops -> ActT] /\ \A i \in Ops : x[i] = a
  BY <1>2
<1>4. PICK f \in FenceT : f = NoFence /\ ~Confirmed(f)
  BY NewAction
<1>5. PICK e : e = [phase |-> "absent", inc |-> 0, process |-> 0, fence |-> f, current |-> 0, exit |-> "none", retain |-> FALSE,
                    harness |-> "codex", n |-> 0, actions |-> x]
  OBVIOUS
<1>6. e \in EnvT /\ mem = e /\ disk = e
  <2>1. e \in EnvT
    BY <1>3, <1>5, AgentHostAssumption DEF EnvT, Phases
  <2>2. e = NoEnvironment
    BY <1>1, <1>2, <1>4, <1>5 DEF NoEnvironment
  <2> QED BY <2>1, <2>2 DEF Init
<1>7. Quiet
  BY DEF Init, Quiet, Live, HelperLive
<1>8. \A k \in Launched : ~Acts(k) /\ helper[k] = "none"
  BY <1>7, QuietIs DEF Init
<1>9. EnvTrue(e)
  BY <1>1, <1>3, <1>4, <1>5, <1>7, <1>8 DEF EnvTrue, Named, DiskKept, FenceTrue, Stopped, ActionTrue, Init
<1>10. \A i \in Launched : MachineTrue(i)
  BY DEF Init, MachineTrue
<1>11. HostTypes /\ HostTrue /\ OpTrue(op, mem)
  BY <1>6, IdleOp DEF Init, HostTypes, HostTrue, GateTrue, Switched, Clear
<1> QED BY <1>6, <1>9, <1>10, <1>11 DEF HInv

\* The journal and the machine agree in every state: what the records of an environment say of
\* its incarnations is true, on disk as in memory, through failed saves, deaths of the host and
\* losses of the disk (host.go, reconcile.go, retirement.go).
THEOREM HostInvariant == Spec => []HInv
<1>1. HInv /\ [Next]_vars => HInv'
  <2> SUFFICES ASSUME HInv, [Next]_vars PROVE HInv'
    OBVIOUS
  <2>1. CASE Next
    BY <2>1, NextKeeps DEF Keeps
  <2>2. CASE UNCHANGED vars
    <3>1. UNCHANGED <<up, mem, disk, fatal, gate, config, helper, code, receipt, exec, root, op>>
      BY <2>2 DEF vars
    <3>2. EnvTrue(mem)' /\ EnvTrue(disk)'
      <4>1. PICK m : m = mem
        OBVIOUS
      <4>2. PICK d : d = disk
        OBVIOUS
      <4>3. EnvTrue(m)' /\ EnvTrue(d)'
        BY <3>1, <4>1, <4>2, EnvRests DEF HInv
      <4> QED BY <3>1, <4>1, <4>2, <4>3
    <3>3. OpTrue(op, mem)'
      <4>1. PICK m : m = mem
        OBVIOUS
      <4>2. PICK o : o = op
        OBVIOUS
      <4>3. OpTrue(o, m)'
        BY <3>1, <4>1, <4>2, OpRests DEF HInv
      <4> QED BY <3>1, <4>1, <4>2, <4>3
    <3>4. HostTypes' /\ HostTrue' /\ \A i \in Launched : MachineTrue(i)'
      BY <3>1 DEF HInv, HostTypes, HostTrue, GateTrue, Switched, Quiet, Live, HelperLive, MachineTrue
    <3> QED BY <3>2, <3>3, <3>4 DEF HInv
  <2> QED BY <2>1, <2>2
<1>2. Init => HInv
  BY InitTrue
<1> QED BY <1>1, <1>2, PTL DEF Spec

\* Two incarnations of one environment never run at once, and what runs is the one the journal
\* on disk names; the egress gate is open for it alone (host.go, start and stop).
THEOREM ScopeIsOne == Spec => []OneScope
<1>1. HInv => OneScope
  BY DEF HInv, HostTrue, GateTrue, EnvTrue, Named, Acts, OneScope
<1> QED BY <1>1, HostInvariant, PTL

\* A fence recorded as confirmed and a phase at rest are true of the machine: that incarnation's
\* VM does not execute (host.go, stop; reconcile.go, reconcileLocked).
THEOREM FencedAreGone == Spec => []FencedIsGone
<1>1. HInv => FencedIsGone
  <2> SUFFICES ASSUME HInv, NEW e \in {mem, disk}
               PROVE  /\ Confirmed(e.fence) => e.fence.inc \notin exec
                      /\ e.phase \in {"stopped", "fenced", "retired"} => e.inc \notin exec
                      /\ \A i \in 1 .. e.n : Confirmed(e.actions[i].fence) => e.actions[i].fence.inc \notin exec
    BY DEF FencedIsGone
  <2>1. EnvTrue(e) /\ e.n \in 0 .. MaxOps /\ exec \subseteq Launched
    BY DEF HInv, HostTypes, EnvT
  <2>2. \A k : Over(k) => k \notin exec
    BY <2>1 DEF Over
  <2>3. \A i \in 1 .. e.n : i \in Ops
    BY <2>1, AgentHostAssumption DEF Ops
  <2> QED BY <2>1, <2>2, <2>3 DEF EnvTrue, FenceTrue, ActionTrue, Stopped
<1> QED BY <1>1, HostInvariant, PTL

\* An environment's workspace is unlinked behind a durable tombstone only, its harness changes
\* over a confirmed fence only, each with nothing running, and a workspace that was lost or
\* deleted is not replaced by an empty one (retirement.go, harness_switch.go, ensureRootfs).
THEOREM ChangesAreAtRest == Spec => ChangedAtRest
<1>1. HInv /\ [Next]_vars => [RestStep]_vars
  BY NextKeeps DEF Keeps
<1>2. Spec => [][RestStep]_vars
  BY <1>1, HostInvariant, PTL DEF Spec
<1>3. [RestStep]_vars => /\ [root' = "deleted" /\ root # "deleted" => disk.phase = "retired" /\ Quiet]_vars
                         /\ [(root \in {"lost", "deleted"}) => (root' # "made")]_vars
                         /\ [disk'.harness # disk.harness => ConfirmedFence(disk.fence, disk.inc) /\ Quiet]_vars
  BY DEF RestStep
<1>4. [][RestStep]_vars => ChangedAtRest
  BY <1>3, PTL DEF ChangedAtRest, WorkspaceKept, NoFreshDisk, SwitchFenced
<1> QED BY <1>2, <1>4
=============================================================================

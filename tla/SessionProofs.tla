--------------------------- MODULE SessionProofs ----------------------------
(* Proofs about the session service and its terminal host. The components share no      *)
(* variable, so each has an inductive invariant of its own, which every step of the      *)
(* composition keeps: its own steps by the component's lemmas, the others by leaving it  *)
(* alone.                                                                                 *)
EXTENDS MCSessions, FiniteSetTheorems, SequenceTheorems, TLAPS

(******************************** who may type **************************************)
\* The queued writes are of earlier epochs, or of this one and its controller's.
Queued(w) == w.epoch < epoch \/ (w.epoch = epoch /\ w.from = controller)
CtlTypes ==
    /\ epoch \in Nat /\ controller \in Clients \cup {Nobody} /\ cepoch \in [Clients -> Int]
    /\ here \in [Clients -> {"no", "viewing", "gone"}] /\ waiting \in [Clients -> Int]
    /\ writes \in Seq([from : Clients, epoch : Int])
CtlInv ==
    /\ CtlTypes
    /\ controller # Nobody => here[controller] = "viewing"
    /\ \A c \in Clients : waiting[c] # -1 => here[c] # "no"
    /\ \A i \in 1 .. Len(writes) : Queued(writes[i])

\* The epoch moves on, so that whatever is queued is of an earlier one.
LEMMA EpochMoves ==
    ASSUME CtlInv, CtlTypes', epoch' > epoch, UNCHANGED writes
    PROVE  \A i \in 1 .. Len(writes') : Queued(writes[i])'
<1> SUFFICES ASSUME NEW i \in 1 .. Len(writes) PROVE writes[i].epoch < epoch'
  BY DEF Queued
<1>1. Queued(writes[i])
  BY DEF CtlInv
<1>2. writes \in Seq([from : Clients, epoch : Int]) /\ epoch \in Nat /\ epoch' \in Nat
  BY DEF CtlInv, CtlTypes
<1>3. PICK w \in [from : Clients, epoch : Int] : w = writes[i]
  BY <1>2, ElementOfSeq
<1>4. w.epoch \in Int
  OBVIOUS
<1> QED BY <1>1, <1>2, <1>3, <1>4 DEF Queued

LEMMA GrantMoves ==
    ASSUME CtlInv, NEW c \in Clients, NEW e \in Nat, e >= epoch, Granted(c, e), UNCHANGED <<here, writes>>, here[c] = "viewing",
           waiting' \in [Clients -> Int], \A d \in Clients : waiting'[d] # -1 => here[d] # "no"
    PROVE  CtlInv'
<1>1. epoch' = e + 1 /\ controller' = c /\ cepoch' \in [Clients -> Int]
  BY DEF Granted, CtlInv, CtlTypes
<1>2. CtlTypes' /\ epoch' > epoch
  BY <1>1 DEF CtlInv, CtlTypes
<1>3. \A i \in 1 .. Len(writes') : Queued(writes[i])'
  BY <1>2, EpochMoves
<1> QED BY <1>1, <1>2, <1>3 DEF CtlInv

LEMMA RevokeMoves ==
    ASSUME CtlInv, CtlTypes', epoch' > epoch, controller' = Nobody, UNCHANGED writes,
           \A d \in Clients : waiting'[d] # -1 => here'[d] # "no"
    PROVE  CtlInv'
  BY EpochMoves DEF CtlInv

LEMMA ControlStep == ASSUME CtlInv, ControlNext PROVE CtlInv'
<1>1. ASSUME NEW c \in Clients, Attach(c) PROVE CtlInv'
  <2>1. UNCHANGED <<epoch, controller, cepoch, waiting, writes>> /\ here[c] = "no" /\ here' = [here EXCEPT ![c] = "viewing"]
    BY <1>1 DEF Attach, grants, input
  <2>2. CtlTypes'
    BY <2>1 DEF CtlInv, CtlTypes
  <2> QED BY <2>1, <2>2, TermControlAssumption DEF CtlInv, CtlTypes, Queued
<1>2. ASSUME NEW c \in Clients, NEW take \in BOOLEAN, Control(c, take) PROVE CtlInv'
  <2>1. UNCHANGED <<here, writes>> /\ here[c] = "viewing"
    BY <1>2 DEF Control
  <2>2. CASE Granted(c, epoch + 1) /\ UNCHANGED waiting
    <3>1. epoch + 1 \in Nat /\ epoch + 1 >= epoch
      BY DEF CtlInv, CtlTypes
    <3>2. waiting' \in [Clients -> Int] /\ \A d \in Clients : waiting'[d] # -1 => here[d] # "no"
      BY <2>2 DEF CtlInv, CtlTypes
    <3> QED BY <2>1, <2>2, <3>1, <3>2, GrantMoves
  <2>3. CASE /\ epoch' = epoch + 1 /\ controller' = Nobody
             /\ cepoch' = [d \in Clients |-> IF d = controller THEN 0 ELSE cepoch[d]]
             /\ waiting' = [waiting EXCEPT ![c] = epoch]
    <3>1. CtlTypes' /\ epoch' > epoch
      BY <2>1, <2>3 DEF CtlInv, CtlTypes
    <3>2. \A d \in Clients : waiting'[d] # -1 => here'[d] # "no"
      BY <2>1, <2>3 DEF CtlInv, CtlTypes
    <3> QED BY <2>1, <2>3, <3>1, <3>2, RevokeMoves
  <2> QED BY <1>2, <2>2, <2>3 DEF Control
<1>3. ASSUME NEW c \in Clients, FenceEnds(c) PROVE CtlInv'
  <2>1. UNCHANGED <<here, writes>> /\ waiting[c] # -1 /\ waiting' = [waiting EXCEPT ![c] = -1]
    BY <1>3 DEF FenceEnds, input
  <2>2. waiting' \in [Clients -> Int] /\ \A d \in Clients : waiting'[d] # -1 => here[d] # "no"
    BY <2>1 DEF CtlInv, CtlTypes
  <2>3. CASE UNCHANGED grants
    BY <2>1, <2>2, <2>3 DEF CtlInv, CtlTypes, Queued, grants
  <2>4. CASE Granted(c, epoch) /\ here[c] # "gone"
    <3>1. here[c] = "viewing"
      BY <2>1, <2>4 DEF CtlInv, CtlTypes
    <3>2. epoch \in Nat /\ epoch >= epoch
      BY DEF CtlInv, CtlTypes
    <3> QED BY <2>1, <2>2, <2>4, <3>1, <3>2, GrantMoves
  <2> QED BY <1>3, <2>3, <2>4 DEF FenceEnds
<1>4. ASSUME NEW c \in Clients, FenceTimeout(c) PROVE CtlInv'
  <2>1. UNCHANGED <<epoch, controller, cepoch, here, writes>> /\ waiting' = [waiting EXCEPT ![c] = -1]
    BY <1>4 DEF FenceTimeout, grants, input
  <2> QED BY <2>1 DEF CtlInv, CtlTypes, Queued
<1>5. ASSUME NEW c \in Clients, Release(c) PROVE CtlInv'
  <2>1. UNCHANGED <<here, waiting, writes>> /\ epoch' = epoch + 1 /\ controller' = Nobody /\ cepoch' = [cepoch EXCEPT ![c] = 0]
    BY <1>5 DEF Release, Revoked, input
  <2>2. CtlTypes' /\ epoch' > epoch
    BY <2>1 DEF CtlInv, CtlTypes
  <2> QED BY <2>1, <2>2, RevokeMoves DEF CtlInv
<1>6. ASSUME NEW c \in Clients, Detach(c) PROVE CtlInv'
  <2>1. UNCHANGED <<waiting, writes>> /\ here' = [here EXCEPT ![c] = "gone"] /\ here[c] = "viewing" /\ Revoked(c)
    BY <1>6 DEF Detach, input
  <2>2. here' \in [Clients -> {"no", "viewing", "gone"}] /\ \A d \in Clients : (here[d] # "no" => here'[d] # "no") /\ (d # c => here'[d] = here[d])
    BY <2>1 DEF CtlInv, CtlTypes
  <2>3. CASE controller = c
    <3>1. epoch' = epoch + 1 /\ controller' = Nobody /\ cepoch' = [cepoch EXCEPT ![c] = 0]
      BY <2>1, <2>3 DEF Revoked
    <3>2. CtlTypes' /\ epoch' > epoch
      BY <2>1, <2>2, <3>1 DEF CtlInv, CtlTypes
    <3> QED BY <2>1, <2>2, <3>1, <3>2, RevokeMoves DEF CtlInv
  <2>4. CASE controller # c
    <3>1. UNCHANGED <<epoch, controller, cepoch>>
      BY <2>1, <2>4 DEF Revoked, grants
    <3> QED BY <2>1, <2>2, <2>4, <3>1 DEF CtlInv, CtlTypes, Queued
  <2> QED BY <2>3, <2>4
<1>7. ASSUME NEW c \in Clients, Input(c) PROVE CtlInv'
  <2>1. /\ UNCHANGED <<epoch, controller, cepoch, here, waiting>> /\ controller = c /\ cepoch[c] = epoch
        /\ writes' = Append(writes, [from |-> c, epoch |-> cepoch[c]])
    BY <1>7 DEF Input, grants
  <2>0. PICK e \in Int : e = cepoch[c] /\ e = epoch
    BY <2>1 DEF CtlInv, CtlTypes
  <2>2. PICK w \in [from : Clients, epoch : Int] : w = [from |-> c, epoch |-> e]
    OBVIOUS
  <2>5. w.from = c /\ w.epoch = e
    BY <2>2
  <2>6. writes \in Seq([from : Clients, epoch : Int]) /\ writes' = Append(writes, w)
    BY <2>0, <2>1, <2>2 DEF CtlInv, CtlTypes
  <2>3. writes' \in Seq([from : Clients, epoch : Int]) /\ \A i \in 1 .. Len(writes') : writes'[i] = w \/ (i \in 1 .. Len(writes) /\ writes'[i] = writes[i])
    <3>1. writes' \in Seq([from : Clients, epoch : Int]) /\ Len(writes') = Len(writes) + 1 /\ writes'[Len(writes) + 1] = w
          /\ \A i \in 1 .. Len(writes) : writes'[i] = writes[i]
      BY <2>6, AppendProperties
    <3>2. Len(writes) \in Nat
      BY <2>6
    <3> QED BY <3>1, <3>2
  <2>4. \A i \in 1 .. Len(writes') : Queued(writes[i])'
    BY <2>0, <2>1, <2>5, <2>3 DEF CtlInv, Queued
  <2> QED BY <2>1, <2>3, <2>4 DEF CtlInv, CtlTypes
<1>8. CASE WriterTakes
  <2>1. UNCHANGED <<epoch, controller, cepoch, here, waiting>> /\ writes # <<>> /\ writes' = Tail(writes)
    BY <1>8 DEF WriterTakes, grants
  <2>2. writes' \in Seq([from : Clients, epoch : Int]) /\ \A i \in 1 .. Len(writes') : i + 1 \in 1 .. Len(writes) /\ writes'[i] = writes[i + 1]
    BY <2>1 DEF CtlInv, CtlTypes
  <2>3. \A i \in 1 .. Len(writes') : Queued(writes[i])'
    BY <2>1, <2>2 DEF CtlInv, Queued
  <2> QED BY <2>1, <2>2, <2>3 DEF CtlInv, CtlTypes
<1>9. CASE WriterEnds
  BY <1>9 DEF WriterEnds, grants, CtlInv, CtlTypes, Queued
<1>10. CASE ControlEnds
  <2>1. UNCHANGED <<controller, cepoch, here, waiting, writes>> /\ epoch' = epoch + 1
    BY <1>10 DEF ControlEnds, input
  <2>2. CtlTypes' /\ epoch' > epoch
    BY <2>1 DEF CtlInv, CtlTypes
  <2> QED BY <2>1, <2>2, EpochMoves DEF CtlInv
<1> QED BY <1>1, <1>2, <1>3, <1>4, <1>5, <1>6, <1>7, <1>8, <1>9, <1>10 DEF ControlNext, Frame

\* A write begins at the terminal only for the client that controls the session.
TypesNow == (atPTY' # atPTY /\ atPTY' # NoWrite) => (atPTY'.from = controller /\ here[controller] = "viewing")
LEMMA TypesStep == ASSUME CtlInv, ControlNext PROVE TypesNow
<1> SUFFICES ASSUME atPTY' # atPTY, atPTY' # NoWrite PROVE atPTY'.from = controller /\ here[controller] = "viewing"
  BY DEF TypesNow
<1>1. WriterTakes
  BY DEF ControlNext, Frame, Attach, Control, Release, Input, FenceEnds, FenceTimeout, Detach, WriterEnds, ControlEnds, input
<1>2. writes # <<>> /\ atPTY' = Head(writes) /\ Head(writes).epoch = epoch /\ controller # Nobody
  BY <1>1 DEF WriterTakes, Current
<1>3. Len(writes) \in Nat /\ 1 \in 1 .. Len(writes) /\ Head(writes) = writes[1]
  BY <1>2 DEF CtlInv, CtlTypes
<1>4. Queued(writes[1]) /\ epoch \in Nat
  BY <1>3 DEF CtlInv, CtlTypes
<1> QED BY <1>2, <1>3, <1>4 DEF Queued, CtlInv

\* The parts of the composition, each stepping alone.
LEMMA Parts ==
    ASSUME [Next]_vars
    PROVE  /\ (SendsAlone \/ Reports) \/ UNCHANGED svars
           /\ OpsNext \/ UNCHANGED jvars
           /\ NamesNext \/ UNCHANGED nvars
           /\ ControlNext \/ UNCHANGED cvars
           /\ OutputNext \/ UNCHANGED ovars
           /\ ProgramNext \/ UNCHANGED pvars
  BY DEF Next, vars, Service, Terminal

\* Of all who view a session only the client that controls it now begins a write at its terminal:
\* nothing a revoked, released, detached or overtaken controller queued lands under a later grant
\* (TermSession.writer, control, waitFenceLocked), for any number of clients, any queue and any
\* number of grants; and a client that is gone holds no grant.
THEOREM OnlyTheControllerTypes == Spec => OnlyControllerTypes
<1>1. Init => CtlInv
  <2> SUFFICES ASSUME Init PROVE CtlInv
    OBVIOUS
  <2>1. /\ epoch = 0 /\ controller = Nobody /\ cepoch = [c \in Clients |-> 0] /\ here = [c \in Clients |-> "no"]
        /\ waiting = [c \in Clients |-> -1] /\ writes = <<>>
    BY DEF Init, ControlInit
  <2> QED BY <2>1 DEF CtlInv, CtlTypes
<1>2. CtlInv /\ [Next]_vars => CtlInv'
  <2>1. CtlInv /\ UNCHANGED cvars => CtlInv'
    BY DEF cvars, CtlInv, CtlTypes, Queued
  <2> QED BY <2>1, Parts, ControlStep
<1>3. CtlInv /\ [Next]_vars => [TypesNow]_cvars
  BY Parts, TypesStep
<1>4. CtlInv => GoneHoldsNothing
  BY DEF CtlInv, GoneHoldsNothing
<1>5. Spec => []CtlInv
  BY <1>1, <1>2, PTL DEF Spec
<1>6. Spec => []GoneHoldsNothing
  BY <1>4, <1>5, PTL
<1>7. Spec => [][TypesNow]_cvars
  BY <1>3, <1>5, PTL DEF Spec
<1> QED BY <1>6, <1>7 DEF OnlyControllerTypes, TypesNow

(********************************* what is sent *************************************)
SendSteps == {"idle", "begun", "await", "look", "asleep", "ready", "control", "write", "told", "back", "wake", "drop"}
SReq == [pc : SendSteps, op : SendOps \cup {NoSend}, kind : SendKinds \cup {"raw"}, seen : Nat, seq : Nat, n : Nat, woken : BOOLEAN]
Outcomes == {"none", "running", "partial", "uncertain", "written", "accepted"}
Agents == [state : {"unknown", "running", "waiting"}, stateSeq : Nat, seq : Nat, accepted : SendOps \cup {NoSend}]
SndTypes ==
    /\ req \in [Slots -> SReq] /\ ops \in [SendOps -> Outcomes] /\ wrote \in [SendOps -> Nat]
    /\ readyUsed \in Nat /\ agent \in Agents

\* A request that serves an operation has it recorded as running, and no other request has it.
Serves(q) == req[q].op # NoSend => ops[req[q].op] = "running"
ServesAlone(p, q) == (p # q /\ req[p].op # NoSend) => req[p].op # req[q].op
\* What a request has done follows from its step: before its text it wrote nothing of it.
Placed(q) ==
    /\ req[q].pc = "idle" => req[q].op = NoSend
    /\ req[q].pc \notin {"idle", "back", "wake", "drop"} => req[q].op # NoSend
    /\ req[q].pc \notin {"write", "told"} => req[q].n = 0
Unwritten(q) == (req[q].op # NoSend /\ req[q].n = 0) => wrote[req[q].op] = 0
OnceInv ==
    /\ \A q \in Slots : Serves(q) /\ Placed(q) /\ Unwritten(q)
    /\ \A p, q \in Slots : ServesAlone(p, q)
    /\ WrittenOnce

\* A request that looked and was not woken since has seen the readiness there is.
Looked(q) == (req[q].pc = "look" /\ ~req[q].woken /\ agent.state = "waiting") => req[q].seen = agent.stateSeq
ReadyInv == (\A q \in Slots : Looked(q)) /\ NoReadinessMissed

LEMMA Waking ==
    ASSUME SndTypes
    PROVE  /\ AllWoken \in [Slots -> SReq]
           /\ \A p \in Slots : /\ AllWoken[p].pc = req[p].pc /\ AllWoken[p].op = req[p].op /\ AllWoken[p].n = req[p].n
                               /\ req[p].pc \in {"look", "asleep"} => AllWoken[p].woken
<1> SUFFICES ASSUME NEW p \in Slots
             PROVE  /\ AllWoken[p] \in SReq /\ AllWoken[p].pc = req[p].pc /\ AllWoken[p].op = req[p].op /\ AllWoken[p].n = req[p].n
                    /\ req[p].pc \in {"look", "asleep"} => AllWoken[p].woken
  BY DEF AllWoken
<1>1. PICK d \in SReq : d = req[p]
  BY DEF SndTypes
<1>2. PICK b \in BOOLEAN : b = (d.woken \/ d.pc \in {"look", "asleep"})
  OBVIOUS
<1>3. AllWoken[p] = [d EXCEPT !.woken = b]
  BY <1>1, <1>2 DEF AllWoken
<1>4. [d EXCEPT !.woken = b] \in SReq
  BY DEF SReq
<1>5. /\ [d EXCEPT !.woken = b].pc = d.pc /\ [d EXCEPT !.woken = b].op = d.op /\ [d EXCEPT !.woken = b].n = d.n
      /\ [d EXCEPT !.woken = b].woken = b
  BY DEF SReq
<1> QED BY <1>1, <1>2, <1>3, <1>4, <1>5

\* One request moves and the others stay.
MovedTo(q, r) == req' = [req EXCEPT ![q] = r]
LEMMA Moved ==
    ASSUME SndTypes, NEW q \in Slots, NEW r \in SReq, MovedTo(q, r)
    PROVE  req' \in [Slots -> SReq] /\ req'[q] = r /\ \A p \in Slots : p # q => req'[p] = req[p]
  BY DEF MovedTo, SndTypes

\* A step that serves the same operations, writes nothing and leaves each request well placed.
LEMMA OnceKept ==
    ASSUME SndTypes, OnceInv, UNCHANGED <<ops, wrote>>,
           \A p \in Slots : req'[p].op = req[p].op /\ req'[p].n = req[p].n,
           \A p \in Slots : Placed(p)'
    PROVE  OnceInv'
<1>1. \A p \in Slots : Serves(p)' /\ Unwritten(p)'
  BY DEF OnceInv, Serves, Unwritten
<1>2. \A p, q \in Slots : ServesAlone(p, q)'
  BY DEF OnceInv, ServesAlone
<1>3. WrittenOnce'
  BY DEF OnceInv, WrittenOnce
<1> QED BY <1>1, <1>2, <1>3 DEF OnceInv

\* One request moves on, with its operation and what it has written of it.
LEMMA OnceMoves ==
    ASSUME SndTypes, OnceInv, UNCHANGED <<ops, wrote>>, NEW q \in Slots, NEW r \in SReq, MovedTo(q, r),
           r.op = req[q].op, r.n = req[q].n, r.pc # "idle",
           r.pc \notin {"back", "wake", "drop"} => r.op # NoSend, r.pc \notin {"write", "told"} => r.n = 0
    PROVE  OnceInv'
<1>1. req'[q] = r /\ \A p \in Slots : p # q => req'[p] = req[p]
  BY Moved
<1>2. \A p \in Slots : req'[p].op = req[p].op /\ req'[p].n = req[p].n
  BY <1>1
<1>3. \A p \in Slots : Placed(p)'
  <2> SUFFICES ASSUME NEW p \in Slots PROVE Placed(p)'
    OBVIOUS
  <2>1. CASE p = q
    BY <1>1, <2>1 DEF Placed
  <2>2. CASE p # q
    BY <1>1, <2>2 DEF Placed, OnceInv
  <2> QED BY <2>1, <2>2
<1> QED BY <1>2, <1>3, OnceKept

\* The operation a request serves is over and the request has none: forgotten with nothing written,
\* or settled with whatever was.
LEMMA OnceEnds ==
    ASSUME SndTypes, OnceInv, NEW q \in Slots, NEW r \in SReq, MovedTo(q, r), r.op = NoSend, r.n = 0,
           r.pc \in {"idle", "back"}, UNCHANGED wrote, NEW out \in Outcomes, out # "none" \/ req[q].n = 0,
           ops' \in [SendOps -> Outcomes], \A o \in SendOps : ops'[o] = IF o = req[q].op THEN out ELSE ops[o]
    PROVE  OnceInv'
<1>1. req'[q] = r /\ \A p \in Slots : p # q => req'[p] = req[p]
  BY Moved
<1>2. \A p \in Slots : Placed(p)' /\ Unwritten(p)'
  <2> SUFFICES ASSUME NEW p \in Slots PROVE Placed(p)' /\ Unwritten(p)'
    OBVIOUS
  <2>1. CASE p = q
    BY <1>1, <2>1 DEF Placed, Unwritten
  <2>2. CASE p # q
    BY <1>1, <2>2 DEF Placed, Unwritten, OnceInv
  <2> QED BY <2>1, <2>2
<1>3. \A p \in Slots : Serves(p)'
  <2> SUFFICES ASSUME NEW p \in Slots, req'[p].op # NoSend PROVE ops'[req'[p].op] = "running"
    BY DEF Serves
  <2>1. p # q /\ req'[p] = req[p] /\ req[p] \in SReq
    BY <1>1 DEF SndTypes
  <2>2. req[p].op \in SendOps /\ ops[req[p].op] = "running" /\ req[p].op # req[q].op
    BY <2>1 DEF OnceInv, Serves, ServesAlone, SReq
  <2> QED BY <2>1, <2>2
<1>4. \A p, k \in Slots : ServesAlone(p, k)'
  <2> SUFFICES ASSUME NEW p \in Slots, NEW k \in Slots, p # k, req'[p].op # NoSend PROVE req'[p].op # req'[k].op
    BY DEF ServesAlone
  <2>1. CASE k = q
    BY <1>1, <2>1
  <2>2. CASE k # q
    BY <1>1, <2>2 DEF OnceInv, ServesAlone
  <2> QED BY <2>1, <2>2
<1>5. WrittenOnce'
  <2> SUFFICES ASSUME NEW o \in SendOps PROVE wrote'[o] <= (IF ops'[o] = "none" THEN 0 ELSE 1)
    BY DEF WrittenOnce
  <2>1. wrote[o] \in Nat /\ wrote[o] <= (IF ops[o] = "none" THEN 0 ELSE 1)
    BY DEF SndTypes, OnceInv, WrittenOnce
  <2>2. CASE o = req[q].op
    <3>1. o # NoSend
      BY SendsAssumption
    <3>2. req[q].n = 0 => wrote[o] = 0
      BY <2>2, <3>1 DEF OnceInv, Unwritten
    <3> QED BY <2>1, <2>2, <3>2
  <2>3. CASE o # req[q].op
    BY <2>1, <2>3
  <2> QED BY <2>2, <2>3
<1> QED BY <1>2, <1>3, <1>4, <1>5 DEF OnceInv

LEMMA IdleReq == Idle \in SReq /\ Idle.op = NoSend /\ Idle.n = 0 /\ Idle.pc = "idle"
  BY DEF Idle, SReq, SendSteps

\* A request moves to a step at which it does not wait for a readiness, and none is given back.
LEMMA ReadyMoves ==
    ASSUME SndTypes, ReadyInv, UNCHANGED agent, NEW q \in Slots, NEW r \in SReq, MovedTo(q, r),
           r.pc \notin {"look", "asleep"}, req[q].pc # "wake", readyUsed' \in Nat, readyUsed' >= readyUsed
    PROVE  ReadyInv'
<1>1. req'[q] = r /\ \A p \in Slots : p # q => req'[p] = req[p]
  BY Moved
<1>2. \A p \in Slots : Looked(p)'
  BY <1>1 DEF ReadyInv, Looked
<1>3. NoReadinessMissed'
  <2> SUFFICES ASSUME NEW p \in Slots, req'[p].pc = "asleep", ~req'[p].woken, agent.state = "waiting", ~(readyUsed' >= agent.stateSeq)
               PROVE  \E k \in Slots : req'[k].pc = "wake"
    BY DEF NoReadinessMissed
  <2>1. p # q /\ req[p].pc = "asleep" /\ ~req[p].woken
    BY <1>1
  <2>2. agent.stateSeq \in Nat /\ readyUsed \in Nat
    BY DEF SndTypes, Agents
  <2>3. ~(readyUsed >= agent.stateSeq)
    BY <2>2
  <2>4. PICK k \in Slots : req[k].pc = "wake"
    BY <2>1, <2>3 DEF ReadyInv, NoReadinessMissed
  <2> QED BY <1>1, <2>4
<1> QED BY <1>2, <1>3 DEF ReadyInv

\* Every request that waits has its wake-up.
LEMMA ReadyWakes ==
    ASSUME \A p \in Slots : req'[p].pc \in {"look", "asleep"} => req'[p].woken
    PROVE  ReadyInv'
  BY DEF ReadyInv, Looked, NoReadinessMissed

\* begin forgets only settled operations.
LEMMA EvictedSettled == ASSUME NEW o \in Evicted PROVE ops[o] # "running"
<1> DEFINE over == IF Len(sendOrder) + 1 > MaxOps THEN Len(sendOrder) + 1 - MaxOps ELSE 0
<1>1. PICK i \in 1..over : (\A k \in 1..i : ops[sendOrder[k]] # "running") /\ o = sendOrder[i]
  BY DEF Evicted
<1>2. i \in 1..i
  BY <1>1
<1> QED BY <1>1, <1>2

LEMMA OnceBegins ==
    ASSUME SndTypes, OnceInv, NEW q \in Slots, NEW o \in SendOps, NEW r \in SReq, MovedTo(q, r), r.op = o, r.n = 0, r.pc = "begun",
           ops[o] = "none", ops' \in [SendOps -> Outcomes], wrote' \in [SendOps -> Nat],
           \A x \in SendOps : ops'[x] = IF x = o THEN "running" ELSE IF x \in Evicted THEN "none" ELSE ops[x],
           \A x \in SendOps : wrote'[x] = IF x \in Evicted THEN 0 ELSE wrote[x]
    PROVE  OnceInv'
<1>1. req'[q] = r /\ \A p \in Slots : p # q => req'[p] = req[p]
  BY Moved
<1>2. wrote[o] = 0
  BY DEF OnceInv, WrittenOnce, SndTypes
<1>3. \A p \in Slots : (p # q /\ req[p].op # NoSend) => (req[p].op \in SendOps /\ ops[req[p].op] = "running" /\ req[p].op # o /\ req[p].op \notin Evicted)
  <2> SUFFICES ASSUME NEW p \in Slots, req[p].op # NoSend PROVE req[p].op \in SendOps /\ ops[req[p].op] = "running" /\ req[p].op # o /\ req[p].op \notin Evicted
    OBVIOUS
  <2>1. req[p].op \in SendOps
    BY DEF SndTypes, SReq
  <2>2. ops[req[p].op] = "running"
    BY DEF OnceInv, Serves
  <2> QED BY <2>1, <2>2, EvictedSettled
<1>4. \A p \in Slots : Placed(p)' /\ Unwritten(p)' /\ Serves(p)'
  <2> SUFFICES ASSUME NEW p \in Slots PROVE Placed(p)' /\ Unwritten(p)' /\ Serves(p)'
    OBVIOUS
  <2>1. CASE p = q
    <3>1. r.op # NoSend
      BY SendsAssumption
    <3> QED BY <1>1, <1>2, <2>1, <3>1 DEF Placed, Unwritten, Serves
  <2>2. CASE p # q
    BY <1>1, <1>3, <2>2 DEF Placed, Unwritten, OnceInv, Serves
  <2> QED BY <2>1, <2>2
<1>5. \A p, k \in Slots : ServesAlone(p, k)'
  <2> SUFFICES ASSUME NEW p \in Slots, NEW k \in Slots, p # k, req'[p].op # NoSend PROVE req'[p].op # req'[k].op
    BY DEF ServesAlone
  <2>1. CASE k = q
    BY <1>1, <1>3, <2>1
  <2>2. CASE p = q
    BY <1>1, <1>3, <2>2, SendsAssumption
  <2>3. CASE k # q /\ p # q
    BY <1>1, <2>3 DEF OnceInv, ServesAlone
  <2> QED BY <2>1, <2>2, <2>3
<1>6. WrittenOnce'
  <2> SUFFICES ASSUME NEW x \in SendOps PROVE wrote'[x] <= (IF ops'[x] = "none" THEN 0 ELSE 1)
    BY DEF WrittenOnce
  <2>1. wrote[x] \in Nat /\ wrote[x] <= (IF ops[x] = "none" THEN 0 ELSE 1)
    BY DEF SndTypes, OnceInv, WrittenOnce
  <2> QED BY <1>2, <2>1
<1> QED BY <1>4, <1>5, <1>6 DEF OnceInv

\* A frame is queued: the first one is the operation's beginning.
LEMMA OnceWrites ==
    ASSUME SndTypes, OnceInv, NEW q \in Slots, NEW r \in SReq, MovedTo(q, r), r.op = req[q].op, r.n = req[q].n + 1, r.pc = "write",
           req[q].pc = "write", UNCHANGED ops, wrote' \in [SendOps -> Nat],
           \A x \in SendOps : wrote'[x] = IF x = req[q].op /\ req[q].n = 0 THEN wrote[x] + 1 ELSE wrote[x]
    PROVE  OnceInv'
<1>1. req'[q] = r /\ \A p \in Slots : p # q => req'[p] = req[p]
  BY Moved
<1>2. req[q].op # NoSend /\ req[q].op \in SendOps /\ req[q].n \in Nat
  BY DEF OnceInv, Placed, SndTypes, SReq
<1>3. r.n # 0
  BY <1>2
<1>4. \A p \in Slots : Serves(p)' /\ Placed(p)'
  <2> SUFFICES ASSUME NEW p \in Slots PROVE Serves(p)' /\ Placed(p)'
    OBVIOUS
  <2>1. CASE p = q
    BY <1>1, <1>2, <2>1 DEF Serves, Placed, OnceInv
  <2>2. CASE p # q
    BY <1>1, <2>2 DEF Serves, Placed, OnceInv
  <2> QED BY <2>1, <2>2
<1>5. \A p \in Slots : Unwritten(p)'
  <2> SUFFICES ASSUME NEW p \in Slots, req'[p].op # NoSend, req'[p].n = 0 PROVE wrote'[req'[p].op] = 0
    BY DEF Unwritten
  <2>1. p # q /\ req'[p] = req[p]
    BY <1>1, <1>3
  <2>2. req[p].op \in SendOps /\ req[p].op # req[q].op /\ wrote[req[p].op] = 0
    BY <2>1 DEF SndTypes, SReq, OnceInv, ServesAlone, Unwritten
  <2> QED BY <2>1, <2>2
<1>6. \A p, k \in Slots : ServesAlone(p, k)'
  <2>1. \A p \in Slots : req'[p].op = req[p].op
    BY <1>1
  <2> QED BY <2>1 DEF OnceInv, ServesAlone
<1>7. WrittenOnce'
  <2> SUFFICES ASSUME NEW x \in SendOps PROVE wrote'[x] <= (IF ops[x] = "none" THEN 0 ELSE 1)
    BY DEF WrittenOnce
  <2>1. wrote[x] \in Nat /\ wrote[x] <= (IF ops[x] = "none" THEN 0 ELSE 1)
    BY DEF SndTypes, OnceInv, WrittenOnce
  <2>2. CASE x = req[q].op /\ req[q].n = 0
    <3>1. wrote[x] = 0 /\ ops[x] = "running"
      BY <1>2, <2>2 DEF OnceInv, Unwritten, Serves
    <3> QED BY <2>2, <3>1
  <2>3. CASE ~(x = req[q].op /\ req[q].n = 0)
    BY <2>1, <2>3
  <2> QED BY <2>2, <2>3
<1> QED BY <1>4, <1>5, <1>6, <1>7 DEF OnceInv

SndInv == SndTypes /\ OnceInv /\ ReadyInv

\* Steps that end the operation a request serves with nothing written of it.
LEMMA Forgets ==
    ASSUME SndInv, NEW q \in Slots, NEW r \in SReq, MovedTo(q, r), r.op = NoSend, r.n = 0, r.pc \in {"idle", "back"},
           req[q].pc \notin {"write", "told", "wake"}, Forgotten(req[q].op), UNCHANGED <<agent, readyUsed, wrote>>
    PROVE  SndInv'
<1>1. ops' \in [SendOps -> Outcomes] /\ \A o \in SendOps : ops'[o] = IF o = req[q].op THEN "none" ELSE ops[o]
  BY DEF Forgotten, SndInv, SndTypes, Outcomes
<1>2. req[q].n = 0
  BY DEF SndInv, OnceInv, Placed
<1>3. "none" \in Outcomes
  BY DEF Outcomes
<1>4. OnceInv'
  BY <1>1, <1>2, <1>3, OnceEnds DEF SndInv
<1>5. readyUsed' \in Nat /\ readyUsed' >= readyUsed
  BY DEF SndInv, SndTypes
<1>6. ReadyInv'
  BY <1>5, ReadyMoves DEF SndInv
<1>7. SndTypes'
  BY <1>1, <1>5, Moved DEF SndInv, SndTypes
<1> QED BY <1>4, <1>6, <1>7 DEF SndInv

\* Steps that settle the operation a request serves.
LEMMA Settles ==
    ASSUME SndInv, NEW q \in Slots, NEW out \in Outcomes \ {"none"}, Settle(q, out), req[q].pc \in {"write", "told"},
           UNCHANGED <<agent, readyUsed, wrote>>
    PROVE  SndInv'
<1>1. req[q].op \in SendOps
  BY DEF SndInv, SndTypes, SReq, OnceInv, Placed
<1>2. ops' \in [SendOps -> Outcomes] /\ \A o \in SendOps : ops'[o] = IF o = req[q].op THEN out ELSE ops[o]
  BY <1>1 DEF Settle, SndInv, SndTypes
<1>3. MovedTo(q, Idle)
  BY DEF Settle, MovedTo
<1>4. OnceInv'
  BY <1>2, <1>3, IdleReq, OnceEnds DEF SndInv
<1>5. readyUsed' \in Nat /\ readyUsed' >= readyUsed
  BY DEF SndInv, SndTypes
<1>6. ReadyInv'
  BY <1>3, <1>5, IdleReq, ReadyMoves DEF SndInv
<1>7. SndTypes'
  BY <1>2, <1>3, <1>5, IdleReq, Moved DEF SndInv, SndTypes
<1> QED BY <1>4, <1>6, <1>7 DEF SndInv

\* Steps that move a request on and neither wait nor write.
LEMMA Goes ==
    ASSUME SndInv, NEW q \in Slots, NEW r \in SReq, MovedTo(q, r), r.op = req[q].op, r.n = req[q].n, r.pc \notin {"idle", "look", "asleep"},
           r.pc \notin {"back", "wake", "drop"} => r.op # NoSend, r.pc \notin {"write", "told"} => r.n = 0, req[q].pc # "wake",
           UNCHANGED <<agent, ops, wrote>>, readyUsed' \in Nat, readyUsed' >= readyUsed
    PROVE  SndInv'
<1>1. OnceInv'
  BY OnceMoves DEF SndInv
<1>2. ReadyInv'
  BY ReadyMoves DEF SndInv
<1>3. SndTypes'
  BY Moved DEF SndInv, SndTypes
<1> QED BY <1>1, <1>2, <1>3 DEF SndInv

LEMMA SendStepKeeps == ASSUME SndInv, NEW q \in Slots, SendStep(q) PROVE SndInv'
<1>0. readyUsed \in Nat /\ readyUsed >= readyUsed /\ req \in [Slots -> SReq]
  BY DEF SndInv, SndTypes
<1>d. PICK d \in SReq : d = req[q]
  BY <1>0
<1>t. d.pc \in SendSteps /\ d.op \in SendOps \cup {NoSend} /\ d.kind \in SendKinds \cup {"raw"} /\ d.seen \in Nat /\ d.seq \in Nat /\ d.n \in Nat /\ d.woken \in BOOLEAN
  BY DEF SReq
<1>p. /\ d.pc = "idle" => d.op = NoSend
      /\ d.pc \notin {"idle", "back", "wake", "drop"} => d.op # NoSend
      /\ d.pc \notin {"write", "told"} => d.n = 0
  BY <1>d DEF SndInv, OnceInv, Placed
<1>1. ASSUME NEW o \in SendOps, NEW kind \in SendKinds, Begin(q, o, kind) PROVE SndInv'
  <2>1. PICK r : r = [Idle EXCEPT !.pc = "begun", !.op = o, !.kind = kind]
    OBVIOUS
  <2>2. r \in SReq /\ r.op = o /\ r.n = 0 /\ r.pc = "begun"
    BY <2>1 DEF Idle, SReq, SendSteps
  <2>3. MovedTo(q, r) /\ UNCHANGED <<agent, readyUsed>> /\ req[q].pc = "idle"
    BY <1>1, <2>1 DEF Begin, MovedTo, adapterVars
  <2>4. ops[o] = "none" /\ ops' \in [SendOps -> Outcomes] /\ wrote' \in [SendOps -> Nat]
    BY <1>1 DEF Begin, Remembered, SndInv, SndTypes, Outcomes
  <2>5. /\ \A x \in SendOps : ops'[x] = IF x = o THEN "running" ELSE IF x \in Evicted THEN "none" ELSE ops[x]
        /\ \A x \in SendOps : wrote'[x] = IF x \in Evicted THEN 0 ELSE wrote[x]
    BY <1>1 DEF Begin
  <2>6. OnceInv'
    BY <2>2, <2>3, <2>4, <2>5, OnceBegins DEF SndInv
  <2>7. ReadyInv'
    BY <1>0, <2>2, <2>3, ReadyMoves DEF SndInv
  <2>8. SndTypes'
    BY <2>2, <2>3, <2>4, Moved DEF SndInv, SndTypes
  <2> QED BY <2>6, <2>7, <2>8 DEF SndInv
<1>2. CASE FirstRefusal(q) \/ NotReady(q) \/ Drop(q)
  <2>1. MovedTo(q, Idle) /\ Forgotten(req[q].op) /\ UNCHANGED <<agent, readyUsed, wrote>> /\ req[q].pc \in {"begun", "asleep", "drop"}
    BY <1>2 DEF FirstRefusal, NotReady, Drop, MovedTo, adapterVars
  <2> QED BY <2>1, IdleReq, Forgets
<1>3. ASSUME NEW pc \in {"await", "ready", "control", "back", "write", "told", "drop", "wake"}, req' = [req EXCEPT ![q].pc = pc],
             UNCHANGED <<agent, ops, wrote>>, readyUsed' \in Nat, readyUsed' >= readyUsed,
             d.pc \notin {"idle", "wake"}, pc \notin {"drop", "wake"} => d.pc \notin {"back", "drop"},
             pc \notin {"write", "told"} => d.pc \notin {"write", "told"}
      PROVE  SndInv'
  <2>1. PICK r : r = [d EXCEPT !.pc = pc]
    OBVIOUS
  <2>2. r \in SReq /\ r.pc = pc /\ r.op = d.op /\ r.n = d.n
    BY <2>1 DEF SReq, SendSteps
  <2>3. MovedTo(q, r)
    BY <1>3, <1>d, <2>1 DEF MovedTo
  <2>4. r.pc \notin {"idle", "look", "asleep"} /\ (r.pc \notin {"back", "wake", "drop"} => r.op # NoSend)
        /\ (r.pc \notin {"write", "told"} => r.n = 0) /\ req[q].pc # "wake"
    BY <1>3, <1>d, <1>p, <2>2
  <2> QED BY <1>3, <1>d, <2>2, <2>3, <2>4, Goes
<1>4. CASE Checked(q)
  <2>1. PICK pc \in {"await", "ready"} : req' = [req EXCEPT ![q].pc = pc] /\ d.pc = "begun"
    BY <1>4, <1>d DEF Checked
  <2> QED BY <1>0, <1>3, <1>4, <2>1 DEF Checked, adapterVars
<1>5. CASE TakeControl(q)
  <2>1. PICK pc \in {"control", "back"} : req' = [req EXCEPT ![q].pc = pc] /\ d.pc = "ready"
    BY <1>5, <1>d DEF TakeControl
  <2> QED BY <1>0, <1>3, <1>5, <2>1 DEF TakeControl, adapterVars
<1>6. CASE SecondCheck(q)
  <2>1. CASE HeldRefusal(q)
    <3>1. PICK r : r = [d EXCEPT !.pc = "back", !.op = NoSend]
      OBVIOUS
    <3>2. r \in SReq /\ r.pc = "back" /\ r.op = NoSend /\ r.n = d.n
      BY <3>1 DEF SReq, SendSteps
    <3>3. MovedTo(q, r) /\ Forgotten(req[q].op) /\ UNCHANGED <<agent, readyUsed, wrote>> /\ d.pc = "control"
      BY <1>6, <1>d, <2>1, <3>1 DEF SecondCheck, MovedTo, adapterVars
    <3>4. r.n = 0 /\ req[q].pc \notin {"write", "told", "wake"}
      BY <1>d, <1>p, <3>2, <3>3
    <3> QED BY <3>2, <3>3, <3>4, Forgets
  <2>2. CASE ~HeldRefusal(q)
    <3>1. req' = [req EXCEPT ![q].pc = "write"] /\ d.pc = "control" /\ UNCHANGED <<agent, ops, wrote, readyUsed>>
      BY <1>6, <1>d, <2>2 DEF SecondCheck, adapterVars
    <3> QED BY <1>0, <1>3, <3>1
  <2> QED BY <2>1, <2>2
<1>7. CASE Look(q)
  <2>1. PICK s \in Nat : s = IF agent.state = "waiting" THEN agent.stateSeq ELSE 0
    BY DEF SndInv, SndTypes, Agents
  <2>2. PICK r : r = [d EXCEPT !.pc = "look", !.woken = FALSE, !.seen = s]
    OBVIOUS
  <2>3. r \in SReq /\ r.pc = "look" /\ r.op = d.op /\ r.n = d.n /\ r.seen = s
    BY <2>2 DEF SReq, SendSteps
  <2>4. MovedTo(q, r) /\ UNCHANGED <<agent, ops, wrote, readyUsed>> /\ d.pc = "await"
    BY <1>7, <1>d, <2>1, <2>2 DEF Look, MovedTo, adapterVars
  <2>5. r.op = req[q].op /\ r.n = req[q].n /\ r.op # NoSend /\ r.n = 0
    BY <1>d, <1>p, <2>3, <2>4
  <2>6. OnceInv'
    BY <2>3, <2>4, <2>5, OnceMoves DEF SndInv
  <2>7. req' \in [Slots -> SReq] /\ req'[q] = r /\ \A p \in Slots : p # q => req'[p] = req[p]
    BY <2>3, <2>4, Moved DEF SndInv
  <2>8. \A p \in Slots : Looked(p)'
    BY <2>1, <2>3, <2>4, <2>7 DEF SndInv, ReadyInv, Looked
  <2>9. NoReadinessMissed'
    <3> SUFFICES ASSUME NEW p \in Slots, req'[p].pc = "asleep", ~req'[p].woken, agent.state = "waiting", ~(readyUsed >= agent.stateSeq)
                 PROVE  \E k \in Slots : req'[k].pc = "wake"
      BY <2>4 DEF NoReadinessMissed
    <3>1. req'[p] = req[p]
      BY <2>3, <2>7
    <3>2. PICK k \in Slots : req[k].pc = "wake"
      BY <3>1 DEF SndInv, ReadyInv, NoReadinessMissed
    <3>3. k # q
      BY <1>d, <2>4, <3>2
    <3> QED BY <2>7, <3>2, <3>3
  <2>10. SndTypes'
    BY <2>4, <2>7 DEF SndInv, SndTypes
  <2> QED BY <2>6, <2>8, <2>9, <2>10 DEF SndInv, ReadyInv
<1>8. CASE Claim(q)
  <2>0. d.pc = "look" /\ UNCHANGED <<agent, ops, wrote>>
    BY <1>8, <1>d DEF Claim, adapterVars
  <2>1. CASE readyUsed < d.seen
    <3>1. PICK r : r = [d EXCEPT !.pc = "ready", !.seq = d.seen, !.seen = 0, !.woken = FALSE]
      OBVIOUS
    <3>2. r \in SReq /\ r.pc = "ready" /\ r.op = d.op /\ r.n = d.n
      BY <3>1, <1>t DEF SReq, SendSteps
    <3>3. MovedTo(q, r) /\ readyUsed' = d.seen
      BY <1>8, <1>d, <2>1, <3>1 DEF Claim, MovedTo
    <3>4. readyUsed' \in Nat /\ readyUsed' >= readyUsed
      BY <1>0, <1>t, <2>1, <3>3
    <3>5. r.op = req[q].op /\ r.n = req[q].n /\ r.pc \notin {"idle", "look", "asleep"} /\ (r.pc \notin {"back", "wake", "drop"} => r.op # NoSend)
          /\ (r.pc \notin {"write", "told"} => r.n = 0) /\ req[q].pc # "wake"
      BY <1>d, <1>p, <2>0, <3>2
    <3> QED BY <2>0, <3>2, <3>3, <3>4, <3>5, Goes
  <2>2. CASE ~(readyUsed < d.seen)
    <3>1. PICK r : r = [d EXCEPT !.pc = "asleep", !.seen = 0]
      OBVIOUS
    <3>2. r \in SReq /\ r.pc = "asleep" /\ r.op = d.op /\ r.n = d.n /\ r.woken = d.woken
      BY <3>1 DEF SReq, SendSteps
    <3>3. MovedTo(q, r) /\ readyUsed' = readyUsed
      BY <1>8, <1>d, <2>2, <3>1 DEF Claim, MovedTo
    <3>4. r.op = req[q].op /\ r.n = req[q].n /\ r.op # NoSend /\ r.n = 0
      BY <1>d, <1>p, <2>0, <3>2
    <3>5. OnceInv'
      BY <2>0, <3>2, <3>3, <3>4, OnceMoves DEF SndInv
    <3>6. req' \in [Slots -> SReq] /\ req'[q] = r /\ \A p \in Slots : p # q => req'[p] = req[p]
      BY <3>2, <3>3, Moved DEF SndInv
    <3>7. \A p \in Slots : Looked(p)'
      BY <2>0, <3>2, <3>6 DEF SndInv, ReadyInv, Looked
    <3>8. NoReadinessMissed'
      <4> SUFFICES ASSUME NEW p \in Slots, req'[p].pc = "asleep", ~req'[p].woken, agent.state = "waiting", ~(readyUsed >= agent.stateSeq)
                   PROVE  \E k \in Slots : req'[k].pc = "wake"
        BY <2>0, <3>3 DEF NoReadinessMissed
      <4>1. CASE p = q
        <5>1. d.seen = agent.stateSeq
          BY <1>d, <2>0, <3>2, <3>6, <4>1 DEF SndInv, ReadyInv, Looked
        <5> QED BY <1>0, <1>t, <2>2, <5>1
      <4>2. CASE p # q
        <5>1. PICK k \in Slots : req[k].pc = "wake"
          BY <3>6, <4>2 DEF SndInv, ReadyInv, NoReadinessMissed
        <5>2. k # q
          BY <1>d, <2>0, <5>1
        <5> QED BY <3>6, <5>1, <5>2
      <4> QED BY <4>1, <4>2
    <3>9. SndTypes'
      BY <2>0, <3>3, <3>6 DEF SndInv, SndTypes
    <3> QED BY <3>5, <3>7, <3>8, <3>9 DEF SndInv, ReadyInv
  <2> QED BY <2>1, <2>2
<1>9. CASE Woken(q)
  <2>1. PICK r : r = [d EXCEPT !.pc = "await", !.woken = FALSE]
    OBVIOUS
  <2>2. r \in SReq /\ r.pc = "await" /\ r.op = d.op /\ r.n = d.n
    BY <2>1 DEF SReq, SendSteps
  <2>3. MovedTo(q, r) /\ UNCHANGED <<agent, ops, wrote, readyUsed>> /\ d.pc = "asleep"
    BY <1>9, <1>d, <2>1 DEF Woken, MovedTo, adapterVars
  <2>4. r.op = req[q].op /\ r.n = req[q].n /\ r.pc \notin {"idle", "look", "asleep"} /\ (r.pc \notin {"back", "wake", "drop"} => r.op # NoSend)
        /\ (r.pc \notin {"write", "told"} => r.n = 0) /\ req[q].pc # "wake"
    BY <1>d, <1>p, <2>2, <2>3
  <2> QED BY <1>0, <2>2, <2>3, <2>4, Goes
<1>10. CASE GiveBack(q)
  <2>0. d.pc = "back" /\ UNCHANGED <<agent, ops, wrote>>
    BY <1>10, <1>d DEF GiveBack, adapterVars
  <2>1. CASE req' = [req EXCEPT ![q].pc = "drop"] /\ UNCHANGED readyUsed
    BY <1>0, <1>3, <2>0, <2>1
  <2>2. CASE readyUsed' = 0 /\ req' = [req EXCEPT ![q].pc = "wake"]
    <3>1. PICK r : r = [d EXCEPT !.pc = "wake"]
      OBVIOUS
    <3>2. r \in SReq /\ r.pc = "wake" /\ r.op = d.op /\ r.n = d.n
      BY <3>1 DEF SReq, SendSteps
    <3>3. MovedTo(q, r)
      BY <1>d, <2>2, <3>1 DEF MovedTo
    <3>4. r.op = req[q].op /\ r.n = req[q].n /\ r.n = 0
      BY <1>d, <1>p, <2>0, <3>2
    <3>5. OnceInv'
      BY <2>0, <3>2, <3>3, <3>4, OnceMoves DEF SndInv
    <3>6. req' \in [Slots -> SReq] /\ req'[q] = r /\ \A p \in Slots : p # q => req'[p] = req[p]
      BY <3>2, <3>3, Moved DEF SndInv
    <3>7. \A p \in Slots : Looked(p)'
      BY <2>0, <3>2, <3>6 DEF SndInv, ReadyInv, Looked
    <3>8. NoReadinessMissed'
      BY <3>2, <3>6 DEF NoReadinessMissed
    <3>9. SndTypes'
      BY <2>0, <2>2, <3>6 DEF SndInv, SndTypes
    <3> QED BY <3>5, <3>7, <3>8, <3>9 DEF SndInv, ReadyInv
  <2> QED BY <1>10, <2>1, <2>2 DEF GiveBack
<1>11. CASE WakeAgentWaiters(q)
  <2>0. d.pc = "wake" /\ UNCHANGED <<agent, ops, wrote, readyUsed>> /\ req' = [AllWoken EXCEPT ![q].pc = "drop"]
    BY <1>11, <1>d DEF WakeAgentWaiters, adapterVars
  <2>1. /\ AllWoken \in [Slots -> SReq]
        /\ \A p \in Slots : /\ AllWoken[p].pc = req[p].pc /\ AllWoken[p].op = req[p].op /\ AllWoken[p].n = req[p].n
                            /\ req[p].pc \in {"look", "asleep"} => AllWoken[p].woken
    BY Waking DEF SndInv
  <2>2. PICK e \in SReq : e = AllWoken[q]
    BY <2>1
  <2>3. PICK r : r = [e EXCEPT !.pc = "drop"]
    OBVIOUS
  <2>4. r \in SReq /\ r.pc = "drop" /\ r.op = e.op /\ r.n = e.n
    BY <2>3 DEF SReq, SendSteps
  <2>5. req' \in [Slots -> SReq] /\ req'[q] = r /\ \A p \in Slots : p # q => req'[p] = AllWoken[p]
    BY <2>0, <2>1, <2>2, <2>3, <2>4
  <2>6. \A p \in Slots : req'[p].op = req[p].op /\ req'[p].n = req[p].n
    BY <2>1, <2>2, <2>4, <2>5
  <2>7. \A p \in Slots : Placed(p)'
    <3> SUFFICES ASSUME NEW p \in Slots PROVE Placed(p)'
      OBVIOUS
    <3>1. CASE p = q
      BY <1>d, <1>p, <2>0, <2>4, <2>5, <2>6, <3>1 DEF Placed
    <3>2. CASE p # q
      BY <2>1, <2>5, <3>2 DEF Placed, SndInv, OnceInv
    <3> QED BY <3>1, <3>2
  <2>8. OnceInv'
    BY <2>0, <2>6, <2>7, OnceKept DEF SndInv
  <2>9. ReadyInv'
    <3>1. \A p \in Slots : req'[p].pc \in {"look", "asleep"} => req'[p].woken
      BY <2>1, <2>4, <2>5
    <3> QED BY <3>1, ReadyWakes
  <2>10. SndTypes'
    BY <2>0, <2>5 DEF SndInv, SndTypes
  <2> QED BY <2>8, <2>9, <2>10 DEF SndInv
<1>12. CASE Queue(q)
  <2>0. d.pc = "write" /\ UNCHANGED <<agent, readyUsed>>
    BY <1>12, <1>d DEF Queue, adapterVars
  <2>1. CASE Settle(q, "partial") /\ UNCHANGED wrote
    <3>1. "partial" \in Outcomes \ {"none"}
      BY DEF Outcomes
    <3> QED BY <1>d, <2>0, <2>1, <3>1, Settles
  <2>2. CASE /\ req' = [req EXCEPT ![q].n = @ + 1] /\ UNCHANGED ops
             /\ wrote' = [wrote EXCEPT ![req[q].op] = IF req[q].n = 0 THEN @ + 1 ELSE @]
    <3>1. PICK r : r = [d EXCEPT !.n = d.n + 1]
      OBVIOUS
    <3>2. r \in SReq /\ r.pc = d.pc /\ r.op = d.op /\ r.n = d.n + 1
      BY <1>t, <3>1 DEF SReq
    <3>3. MovedTo(q, r)
      BY <1>d, <2>2, <3>1 DEF MovedTo
    <3>4. req[q].op \in SendOps
      BY <1>d, <1>p, <1>t, <2>0
    <3>5. wrote' \in [SendOps -> Nat] /\ \A x \in SendOps : wrote'[x] = IF x = req[q].op /\ req[q].n = 0 THEN wrote[x] + 1 ELSE wrote[x]
      BY <2>2, <3>4 DEF SndInv, SndTypes
    <3>6. OnceInv'
      BY <1>d, <2>0, <2>2, <3>2, <3>3, <3>5, OnceWrites DEF SndInv
    <3>7. ReadyInv'
      <4>1. r.pc \notin {"look", "asleep"} /\ req[q].pc # "wake"
        BY <1>d, <2>0, <3>2
      <4> QED BY <1>0, <2>0, <3>2, <3>3, <4>1, ReadyMoves DEF SndInv
    <3>8. SndTypes'
      BY <2>0, <2>2, <3>2, <3>3, <3>5, Moved DEF SndInv, SndTypes
    <3> QED BY <3>6, <3>7, <3>8 DEF SndInv
  <2> QED BY <1>12, <2>1, <2>2 DEF Queue
<1>13. CASE Confirm(q)
  <2>0. d.pc = "write" /\ UNCHANGED <<agent, readyUsed, wrote>>
    BY <1>13, <1>d DEF Confirm, adapterVars
  <2>1. CASE req' = [req EXCEPT ![q].pc = "told"] /\ UNCHANGED ops
    BY <1>0, <1>3, <2>0, <2>1
  <2>2. ASSUME NEW out \in {"partial", "uncertain"}, Settle(q, out) PROVE SndInv'
    <3>1. out \in Outcomes \ {"none"}
      BY <2>2 DEF Outcomes
    <3> QED BY <1>d, <2>0, <2>2, <3>1, Settles
  <2> QED BY <1>13, <2>1, <2>2 DEF Confirm
<1>14. CASE AwaitAccepted(q)
  <2>0. d.pc = "told" /\ UNCHANGED <<agent, readyUsed, wrote>>
    BY <1>14, <1>d DEF AwaitAccepted, adapterVars
  <2>1. PICK out \in Outcomes \ {"none"} : Settle(q, out)
    BY <1>14 DEF AwaitAccepted, Outcomes
  <2> QED BY <1>d, <2>0, <2>1, Settles
<1> QED BY <1>1, <1>2, <1>4, <1>5, <1>6, <1>7, <1>8, <1>9, <1>10, <1>11, <1>12, <1>13, <1>14 DEF SendStep

\* A report, a reset or the program's end wakes every request that waits.
LEMMA WakesKeep == ASSUME SndInv, agent' \in Agents, req' = AllWoken, UNCHANGED <<ops, wrote, readyUsed>> PROVE SndInv'
<1>1. /\ AllWoken \in [Slots -> SReq]
      /\ \A p \in Slots : /\ AllWoken[p].pc = req[p].pc /\ AllWoken[p].op = req[p].op /\ AllWoken[p].n = req[p].n
                          /\ req[p].pc \in {"look", "asleep"} => AllWoken[p].woken
  BY Waking DEF SndInv
<1>2. SndTypes'
  BY <1>1 DEF SndInv, SndTypes
<1>3. \A p \in Slots : Placed(p)'
  BY <1>1 DEF Placed, SndInv, OnceInv
<1>4. OnceInv'
  BY <1>1, <1>3, OnceKept DEF SndInv
<1>5. ReadyInv'
  BY <1>1, ReadyWakes
<1> QED BY <1>2, <1>4, <1>5 DEF SndInv

LEMMA SendsRest == ASSUME SndInv, UNCHANGED <<agent, req, ops, wrote, readyUsed>> PROVE SndInv'
  BY DEF SndInv, SndTypes, OnceInv, ReadyInv, Serves, ServesAlone, Placed, Unwritten, WrittenOnce, Looked, NoReadinessMissed

(************************** who vouches for the agent's state ***********************)
Readers == [pc : {"off", "open", "reported", "resetting", "done"}, seq : Nat]
StateOfs == [conn : Conns \cup {NoConn}, seq : Nat]
AdTypes ==
    /\ reader \in [Conns -> Readers] /\ stateOf \in StateOfs /\ by \in Conns \cup {NoConn}
    /\ latest \in Conns \cup {NoConn} /\ superseded \subseteq Conns /\ agent \in Agents
Known == agent.state # "unknown"
\* What a connection holds: its own last report, or the one it takes back at its end.
Holds(c) ==
    /\ reader[c].pc = "reported" => reader[c].seq <= agent.stateSeq
    /\ (reader[c].pc = "reported" /\ reader[c].seq = agent.stateSeq) => (Known /\ by = c /\ stateOf.seq < agent.stateSeq)
    /\ reader[c].pc = "resetting" => reader[c].seq <= agent.stateSeq
    /\ (reader[c].pc = "resetting" /\ reader[c].seq = agent.stateSeq /\ Known) => by = c
    /\ reader[c].pc \in {"open", "reported"} => (latest = c \/ c \in superseded)
\* The connection whose state it is has reported it, owns it, takes it back, or ended superseded.
Vouches(c) ==
    \/ reader[c].pc = "reported" /\ reader[c].seq = agent.stateSeq
    \/ reader[c].pc = "open" /\ stateOf.conn = c /\ stateOf.seq = agent.stateSeq
    \/ reader[c].pc = "resetting" /\ reader[c].seq = agent.stateSeq
    \/ reader[c].pc = "done" /\ c \in superseded
AdInv ==
    /\ AdTypes
    /\ agent.stateSeq <= agent.seq /\ stateOf.seq <= agent.stateSeq
    /\ (Known /\ stateOf.seq = agent.stateSeq) => stateOf.conn \in {by, NoConn}
    /\ Known => (by \in Conns /\ Vouches(by))
    /\ \A c \in Conns : Holds(c)

LEMMA AdNumbers ==
    ASSUME AdTypes
    PROVE  agent.stateSeq \in Nat /\ agent.seq \in Nat /\ stateOf.seq \in Nat /\ \A c \in Conns : reader[c].seq \in Nat
  BY DEF AdTypes, Agents, StateOfs, Readers

\* One connection's read loop moves; the rest stay.
Turns(c, r) == reader' = [reader EXCEPT ![c] = r]
LEMMA Turned ==
    ASSUME AdTypes, NEW c \in Conns, NEW r \in Readers, Turns(c, r)
    PROVE  reader' \in [Conns -> Readers] /\ reader'[c] = r /\ \A k \in Conns : k # c => reader'[k] = reader[k]
  BY DEF AdTypes, Turns

LEMMA AcceptKeeps == ASSUME AdInv, NEW c \in Conns, Accept(c) PROVE AdInv'
<1>n. AdTypes /\ agent.stateSeq \in Nat /\ agent.seq \in Nat /\ stateOf.seq \in Nat
  BY AdNumbers DEF AdInv
<1>1. PICK d \in Readers : d = reader[c]
  BY <1>n DEF AdTypes
<1>2. PICK r : r = [d EXCEPT !.pc = "open"]
  OBVIOUS
<1>3. r \in Readers /\ r.pc = "open"
  BY <1>2 DEF Readers
<1>4. Turns(c, r) /\ latest' = c /\ superseded' = superseded \cup ({latest} \ {NoConn}) /\ UNCHANGED <<agent, by, stateOf>> /\ reader[c].pc = "off"
  BY <1>1, <1>2 DEF Accept, Turns
<1>5. reader' \in [Conns -> Readers] /\ reader'[c] = r /\ \A k \in Conns : k # c => reader'[k] = reader[k]
  BY <1>n, <1>3, <1>4, Turned
<1>6. AdTypes'
  BY <1>n, <1>4, <1>5 DEF AdTypes
<1>7. \A k \in Conns : Holds(k)'
  <2> SUFFICES ASSUME NEW k \in Conns PROVE Holds(k)'
    OBVIOUS
  <2>1. CASE k = c
    BY <1>3, <1>4, <1>5, <2>1 DEF Holds
  <2>2. CASE k # c
    <3>1. Holds(k) /\ k # NoConn
      BY SendsAssumption DEF AdInv
    <3> QED BY <1>4, <1>5, <2>2, <3>1 DEF Holds, Known
  <2> QED BY <2>1, <2>2
<1>8. Known' => (by' \in Conns /\ Vouches(by)')
  <2> SUFFICES ASSUME Known PROVE by \in Conns /\ Vouches(by)'
    BY <1>4 DEF Known
  <2>1. by \in Conns /\ Vouches(by)
    BY DEF AdInv
  <2>2. by # c
    BY <1>4, <2>1 DEF Vouches
  <2> QED BY <1>4, <1>5, <2>1, <2>2 DEF Vouches
<1> QED BY <1>4, <1>6, <1>7, <1>8 DEF AdInv, Known

LEMMA ReportKeeps == ASSUME AdInv, NEW c \in Conns, NEW state \in {"running", "waiting"}, ReportState(c, state) PROVE AdInv' /\ agent' \in Agents
<1>n. AdTypes /\ agent.stateSeq \in Nat /\ agent.seq \in Nat /\ stateOf.seq \in Nat /\ \A k \in Conns : reader[k].seq \in Nat
  BY AdNumbers DEF AdInv
<1>0. PICK a \in Agents : a = agent
  BY <1>n DEF AdTypes
<1>1. PICK n \in Nat : n = a.seq + 1
  BY <1>n, <1>0
<1>2. PICK b : b = [a EXCEPT !.state = state, !.stateSeq = n, !.seq = n]
  OBVIOUS
<1>3. b \in Agents /\ b.state = state /\ b.stateSeq = n /\ b.seq = n
  BY <1>2 DEF Agents
<1>4. PICK r : r = [pc |-> "reported", seq |-> n]
  OBVIOUS
<1>5. r \in Readers /\ r.pc = "reported" /\ r.seq = n
  BY <1>4 DEF Readers
<1>6. agent' = b /\ by' = c /\ Turns(c, r) /\ UNCHANGED <<latest, stateOf, superseded>> /\ reader[c].pc = "open"
  BY <1>0, <1>1, <1>2, <1>4 DEF ReportState, Turns
<1>7. reader' \in [Conns -> Readers] /\ reader'[c] = r /\ \A k \in Conns : k # c => reader'[k] = reader[k]
  BY <1>n, <1>5, <1>6, Turned
<1>8. AdTypes'
  BY <1>n, <1>3, <1>6, <1>7 DEF AdTypes
<1>9. n > agent.seq /\ n > agent.stateSeq /\ stateOf.seq < n
  BY <1>n, <1>0, <1>1 DEF AdInv
<1>10. Known'
  BY <1>3, <1>6 DEF Known
<1>11. \A k \in Conns : Holds(k)'
  <2> SUFFICES ASSUME NEW k \in Conns PROVE Holds(k)'
    OBVIOUS
  <2>1. Holds(k)
    BY DEF AdInv
  <2>2. CASE k = c
    BY <1>3, <1>5, <1>6, <1>7, <1>9, <1>10, <2>1, <2>2 DEF Holds
  <2>3. CASE k # c
    <3>1. reader[k].pc \in {"reported", "resetting"} => reader[k].seq < n
      BY <1>n, <1>9, <2>1 DEF Holds
    <3> QED BY <1>n, <1>3, <1>6, <1>7, <2>1, <2>3, <3>1 DEF Holds
  <2> QED BY <2>2, <2>3
<1>12. Vouches(by)'
  BY <1>3, <1>5, <1>6, <1>7 DEF Vouches
<1>13. agent'.stateSeq = n /\ agent'.seq = n /\ stateOf' = stateOf
  BY <1>3, <1>6
<1>14. agent'.stateSeq <= agent'.seq /\ stateOf'.seq <= agent'.stateSeq /\ stateOf'.seq # agent'.stateSeq
  BY <1>n, <1>9, <1>13
<1> QED BY <1>3, <1>6, <1>8, <1>11, <1>12, <1>14 DEF AdInv

LEMMA AcceptedKeeps == ASSUME AdInv, NEW c \in Conns, NEW o \in SendOps, ReportAccepted(c, o) PROVE AdInv' /\ agent' \in Agents
<1>n. AdTypes /\ agent.stateSeq \in Nat /\ agent.seq \in Nat
  BY AdNumbers DEF AdInv
<1>0. PICK a \in Agents : a = agent
  BY <1>n DEF AdTypes
<1>1. PICK n \in Nat : n = a.seq + 1
  BY <1>n, <1>0
<1>2. PICK b : b = [a EXCEPT !.accepted = o, !.seq = n]
  OBVIOUS
<1>3. b \in Agents /\ b.state = a.state /\ b.stateSeq = a.stateSeq /\ b.seq = n
  BY <1>2 DEF Agents
<1>4. agent' = b /\ UNCHANGED <<by, latest, stateOf, reader, superseded>>
  BY <1>0, <1>1, <1>2 DEF ReportAccepted
<1>5. AdTypes'
  BY <1>n, <1>3, <1>4 DEF AdTypes
<1>6. agent'.stateSeq = agent.stateSeq /\ agent'.state = agent.state /\ agent'.seq >= agent'.stateSeq
  BY <1>n, <1>0, <1>1, <1>3, <1>4 DEF AdInv
<1>7. \A k \in Conns : Holds(k)'
  BY <1>4, <1>6 DEF AdInv, Holds, Known
<1>8. Known' => (by' \in Conns /\ Vouches(by)')
  BY <1>4, <1>6 DEF AdInv, Vouches, Known
<1> QED BY <1>3, <1>4, <1>5, <1>6, <1>7, <1>8 DEF AdInv, Known

LEMMA RecordKeeps == ASSUME AdInv, NEW c \in Conns, Record(c) PROVE AdInv'
<1>n. AdTypes /\ agent.stateSeq \in Nat /\ agent.seq \in Nat /\ stateOf.seq \in Nat /\ \A k \in Conns : reader[k].seq \in Nat
  BY AdNumbers DEF AdInv
<1>1. PICK d \in Readers : d = reader[c]
  BY <1>n DEF AdTypes
<1>2. PICK r : r = [d EXCEPT !.pc = "open"]
  OBVIOUS
<1>3. r \in Readers /\ r.pc = "open"
  BY <1>2 DEF Readers
<1>4. Turns(c, r) /\ UNCHANGED <<agent, by, latest, superseded>> /\ reader[c].pc = "reported"
  BY <1>1, <1>2 DEF Record, Turns
<1>5. reader' \in [Conns -> Readers] /\ reader'[c] = r /\ \A k \in Conns : k # c => reader'[k] = reader[k]
  BY <1>n, <1>3, <1>4, Turned
<1>6. Holds(c) /\ reader[c].seq <= agent.stateSeq
  BY <1>4 DEF AdInv, Holds
<1>7. PICK s \in StateOfs : s = IF reader[c].seq > stateOf.seq THEN [conn |-> c, seq |-> reader[c].seq] ELSE stateOf
  <2>1. reader[c].seq \in Nat /\ stateOf \in StateOfs
    BY <1>n DEF AdTypes
  <2>2. [conn |-> c, seq |-> reader[c].seq] \in StateOfs
    BY <2>1 DEF StateOfs
  <2> QED BY <2>1, <2>2
<1>8. stateOf' = s
  BY <1>7 DEF Record
<1>9. /\ s.seq \in Nat /\ s.seq <= agent.stateSeq /\ s.seq >= stateOf.seq /\ s.seq >= reader[c].seq
      /\ (s = stateOf \/ (s.conn = c /\ s.seq = reader[c].seq))
  BY <1>n, <1>6, <1>7 DEF AdInv
<1>10. AdTypes'
  BY <1>n, <1>4, <1>5, <1>8 DEF AdTypes
<1>11. (Known /\ s.seq = agent.stateSeq) => s.conn \in {by, NoConn}
  BY <1>4, <1>6, <1>9 DEF AdInv, Holds
<1>12. \A k \in Conns : Holds(k)'
  <2> SUFFICES ASSUME NEW k \in Conns PROVE Holds(k)'
    OBVIOUS
  <2>1. Holds(k)
    BY DEF AdInv
  <2>2. CASE k = c
    BY <1>3, <1>4, <1>5, <2>1, <2>2 DEF Holds
  <2>3. CASE k # c
    <3>1. (reader[k].pc = "reported" /\ reader[k].seq = agent.stateSeq) => s.seq < agent.stateSeq
      <4> SUFFICES ASSUME reader[k].pc = "reported", reader[k].seq = agent.stateSeq PROVE s.seq < agent.stateSeq
        OBVIOUS
      <4>1. by = k /\ stateOf.seq < agent.stateSeq
        BY <2>1 DEF Holds
      <4>2. reader[c].seq # agent.stateSeq
        BY <1>4, <1>6, <2>3, <4>1 DEF Holds
      <4> QED BY <1>n, <1>6, <1>9, <4>1, <4>2
    <3> QED BY <1>4, <1>5, <1>8, <2>1, <2>3, <3>1 DEF Holds, Known
  <2> QED BY <2>2, <2>3
<1>13. Known' => (by' \in Conns /\ Vouches(by)')
  <2> SUFFICES ASSUME Known PROVE by \in Conns /\ Vouches(by)'
    BY <1>4 DEF Known
  <2>1. by \in Conns /\ Vouches(by)
    BY DEF AdInv
  <2>2. CASE by = c
    <3>1. reader[c].seq = agent.stateSeq
      BY <1>4, <2>1, <2>2 DEF Vouches
    <3>2. stateOf.seq < agent.stateSeq
      BY <1>4, <1>6, <3>1 DEF Holds
    <3>3. s.conn = c /\ s.seq = agent.stateSeq
      BY <1>n, <1>7, <1>9, <3>1, <3>2
    <3> QED BY <1>3, <1>4, <1>5, <1>8, <2>2, <3>3 DEF Vouches
  <2>3. CASE by # c
    <3>1. (stateOf.conn = by /\ stateOf.seq = agent.stateSeq) => s = stateOf
      <4> SUFFICES ASSUME stateOf.conn = by, stateOf.seq = agent.stateSeq PROVE s = stateOf
        OBVIOUS
      <4> QED BY <1>n, <1>6, <1>7
    <3> QED BY <1>4, <1>5, <1>8, <2>1, <2>3, <3>1 DEF Vouches
  <2> QED BY <2>2, <2>3
<1> QED BY <1>4, <1>8, <1>9, <1>10, <1>11, <1>12, <1>13 DEF AdInv, Known

LEMMA DisconnectedKeeps == ASSUME AdInv, NEW c \in Conns, Disconnected(c) PROVE AdInv'
<1>n. AdTypes /\ agent.stateSeq \in Nat /\ agent.seq \in Nat /\ stateOf.seq \in Nat /\ \A k \in Conns : reader[k].seq \in Nat
  BY AdNumbers DEF AdInv
<1>0. /\ UNCHANGED <<agent, by, superseded>> /\ reader[c].pc = "open"
      /\ latest' = IF latest = c THEN NoConn ELSE latest
  BY DEF Disconnected
<1>1. PICK so \in StateOfs : so = stateOf
  BY <1>n DEF AdTypes
<1>2. \A k \in Conns : k # c /\ latest = k => latest' = k
  BY <1>0
<1>3. CASE latest = c /\ stateOf.conn = c
  <2>1. PICK s : s = [so EXCEPT !.conn = NoConn]
    OBVIOUS
  <2>2. s \in StateOfs /\ s.conn = NoConn /\ s.seq = so.seq
    BY <2>1 DEF StateOfs
  <2>3. PICK r : r = [pc |-> "resetting", seq |-> so.seq]
    OBVIOUS
  <2>4. r \in Readers /\ r.pc = "resetting" /\ r.seq = so.seq
    BY <2>3, <1>n, <1>1 DEF Readers
  <2>5. Turns(c, r) /\ stateOf' = s
    BY <1>1, <1>3, <2>1, <2>3 DEF Disconnected, Turns
  <2>6. reader' \in [Conns -> Readers] /\ reader'[c] = r /\ \A k \in Conns : k # c => reader'[k] = reader[k]
    BY <1>n, <2>4, <2>5, Turned
  <2>7. AdTypes'
    BY <1>n, <1>0, <2>2, <2>5, <2>6 DEF AdTypes
  <2>8. \A k \in Conns : Holds(k)'
    <3> SUFFICES ASSUME NEW k \in Conns PROVE Holds(k)'
      OBVIOUS
    <3>1. CASE k = c
      <4>1. so.seq <= agent.stateSeq
        BY <1>1 DEF AdInv
      <4>2. (so.seq = agent.stateSeq /\ Known) => by = c
        BY <1>1, <1>3, SendsAssumption DEF AdInv
      <4> QED BY <1>0, <2>4, <2>6, <3>1, <4>1, <4>2 DEF Holds, Known
    <3>2. CASE k # c
      <4>1. Holds(k)
        BY DEF AdInv
      <4> QED BY <1>0, <1>1, <1>2, <2>2, <2>5, <2>6, <3>2, <4>1 DEF Holds, Known
    <3> QED BY <3>1, <3>2
  <2>9. Known' => (by' \in Conns /\ Vouches(by)')
    <3> SUFFICES ASSUME Known PROVE by \in Conns /\ Vouches(by)'
      BY <1>0 DEF Known
    <3>1. by \in Conns /\ Vouches(by)
      BY DEF AdInv
    <3>2. CASE by = c
      BY <1>0, <1>1, <2>4, <2>6, <3>1, <3>2 DEF Vouches
    <3>3. CASE by # c
      BY <1>0, <1>3, <2>6, <3>1, <3>3 DEF Vouches
    <3> QED BY <3>2, <3>3
  <2> QED BY <1>0, <1>1, <2>2, <2>5, <2>7, <2>8, <2>9 DEF AdInv, Known
<1>4. CASE ~(latest = c /\ stateOf.conn = c)
  <2>3. PICK r : r = [pc |-> "done", seq |-> 0]
    OBVIOUS
  <2>4. r \in Readers /\ r.pc = "done"
    BY <2>3 DEF Readers
  <2>5. Turns(c, r) /\ UNCHANGED stateOf
    BY <1>4, <2>3 DEF Disconnected, Turns
  <2>6. reader' \in [Conns -> Readers] /\ reader'[c] = r /\ \A k \in Conns : k # c => reader'[k] = reader[k]
    BY <1>n, <2>4, <2>5, Turned
  <2>7. AdTypes'
    BY <1>n, <1>0, <2>5, <2>6 DEF AdTypes
  <2>8. \A k \in Conns : Holds(k)'
    <3> SUFFICES ASSUME NEW k \in Conns PROVE Holds(k)'
      OBVIOUS
    <3>1. CASE k = c
      BY <2>4, <2>6, <3>1 DEF Holds
    <3>2. CASE k # c
      <4>1. Holds(k)
        BY DEF AdInv
      <4> QED BY <1>0, <1>2, <2>5, <2>6, <3>2, <4>1 DEF Holds, Known
    <3> QED BY <3>1, <3>2
  <2>9. Known' => (by' \in Conns /\ Vouches(by)')
    <3> SUFFICES ASSUME Known PROVE by \in Conns /\ Vouches(by)'
      BY <1>0 DEF Known
    <3>1. by \in Conns /\ Vouches(by)
      BY DEF AdInv
    <3>2. CASE by = c
      <4>1. stateOf.conn = c
        BY <1>0, <3>1, <3>2 DEF Vouches
      <4>2. c \in superseded
        BY <1>0, <1>4, <4>1 DEF AdInv, Holds
      <4> QED BY <1>0, <2>4, <2>6, <3>2, <4>2 DEF Vouches
    <3>3. CASE by # c
      BY <1>0, <2>5, <2>6, <3>1, <3>3 DEF Vouches
    <3> QED BY <3>2, <3>3
  <2> QED BY <1>0, <2>5, <2>7, <2>8, <2>9 DEF AdInv, Known
<1> QED BY <1>3, <1>4

\* Only the connection whose state it is takes it back.
TakesBack == (agent.state # "unknown" /\ agent'.state = "unknown") => reader[by].pc = "resetting"

LEMMA ResetKeeps == ASSUME AdInv, NEW c \in Conns, ResetAgentUnknown(c) PROVE AdInv' /\ agent' \in Agents /\ TakesBack
<1>n. AdTypes /\ agent.stateSeq \in Nat /\ agent.seq \in Nat /\ stateOf.seq \in Nat /\ \A k \in Conns : reader[k].seq \in Nat
  BY AdNumbers DEF AdInv
<1>1. PICK r : r = [pc |-> "done", seq |-> 0]
  OBVIOUS
<1>2. r \in Readers /\ r.pc = "done"
  BY <1>1 DEF Readers
<1>3. Turns(c, r) /\ UNCHANGED <<latest, stateOf, superseded>> /\ reader[c].pc = "resetting"
  BY <1>1 DEF ResetAgentUnknown, Turns
<1>4. reader' \in [Conns -> Readers] /\ reader'[c] = r /\ \A k \in Conns : k # c => reader'[k] = reader[k]
  BY <1>n, <1>2, <1>3, Turned
<1>5. CASE agent.state = "unknown" \/ agent.stateSeq # reader[c].seq
  <2>1. UNCHANGED <<agent, by>>
    BY <1>5 DEF ResetAgentUnknown
  <2>2. AdTypes'
    BY <1>n, <1>3, <1>4, <2>1 DEF AdTypes
  <2>3. \A k \in Conns : Holds(k)'
    <3> SUFFICES ASSUME NEW k \in Conns PROVE Holds(k)'
      OBVIOUS
    <3>1. CASE k = c
      BY <1>2, <1>4, <3>1 DEF Holds
    <3>2. CASE k # c
      <4>1. Holds(k)
        BY DEF AdInv
      <4> QED BY <1>3, <1>4, <2>1, <3>2, <4>1 DEF Holds, Known
    <3> QED BY <3>1, <3>2
  <2>4. Known' => (by' \in Conns /\ Vouches(by)')
    <3> SUFFICES ASSUME Known PROVE by \in Conns /\ Vouches(by)'
      BY <2>1 DEF Known
    <3>1. by \in Conns /\ Vouches(by)
      BY DEF AdInv
    <3>2. by # c
      BY <1>3, <1>5, <3>1 DEF Vouches, Known
    <3> QED BY <1>3, <1>4, <2>1, <3>1, <3>2 DEF Vouches
  <2> QED BY <1>n, <1>3, <2>1, <2>2, <2>3, <2>4 DEF AdInv, Known, TakesBack, AdTypes
<1>6. CASE agent.state # "unknown" /\ agent.stateSeq = reader[c].seq
  <2>0. PICK a \in Agents : a = agent
    BY <1>n DEF AdTypes
  <2>1. PICK n \in Nat : n = a.seq + 1
    BY <1>n, <2>0
  <2>2. PICK b : b = [a EXCEPT !.state = "unknown", !.stateSeq = n, !.seq = n]
    OBVIOUS
  <2>3. b \in Agents /\ b.state = "unknown" /\ b.stateSeq = n /\ b.seq = n
    BY <2>2 DEF Agents
  <2>4. agent' = b /\ by' = NoConn
    BY <1>6, <2>0, <2>1, <2>2 DEF ResetAgentUnknown
  <2>5. n > agent.stateSeq /\ stateOf.seq < n
    BY <1>n, <2>0, <2>1 DEF AdInv
  <2>6. AdTypes'
    BY <1>n, <1>3, <1>4, <2>3, <2>4 DEF AdTypes
  <2>7. ~Known' /\ agent'.stateSeq = n /\ agent'.seq = n
    BY <2>3, <2>4 DEF Known
  <2>8. \A k \in Conns : Holds(k)'
    <3> SUFFICES ASSUME NEW k \in Conns PROVE Holds(k)'
      OBVIOUS
    <3>1. CASE k = c
      BY <1>2, <1>4, <3>1 DEF Holds
    <3>2. CASE k # c
      <4>1. Holds(k)
        BY DEF AdInv
      <4>2. reader[k].pc \in {"reported", "resetting"} => reader[k].seq < n
        BY <1>n, <2>5, <4>1 DEF Holds
      <4> QED BY <1>n, <1>3, <1>4, <2>7, <3>2, <4>1, <4>2 DEF Holds
    <3> QED BY <3>1, <3>2
  <2>9. by = c
    <3>1. Holds(c)
      BY DEF AdInv
    <3> QED BY <1>3, <1>6, <3>1 DEF Holds, Known
  <2>10. agent'.stateSeq <= agent'.seq /\ stateOf'.seq <= agent'.stateSeq /\ agent' \in Agents
    BY <1>n, <1>3, <2>3, <2>4, <2>5, <2>7
  <2> QED BY <1>3, <2>6, <2>7, <2>8, <2>9, <2>10 DEF AdInv, TakesBack
<1> QED BY <1>5, <1>6

LEMMA AdapterKeeps == ASSUME SndInv, AdInv, NEW c \in Conns, AdapterStep(c) PROVE SndInv' /\ AdInv' /\ TakesBack
<1>1. CASE Accept(c) \/ Record(c) \/ Disconnected(c)
  <2>1. UNCHANGED <<agent, req, ops, wrote, readyUsed>>
    BY <1>1 DEF Accept, Record, Disconnected, sendVars
  <2>2. AdInv'
    BY <1>1, AcceptKeeps, RecordKeeps, DisconnectedKeeps
  <2> QED BY <2>1, <2>2, SendsRest DEF TakesBack
<1>2. CASE ResetAgentUnknown(c)
  <2>1. AdInv' /\ agent' \in Agents /\ TakesBack
    BY <1>2, ResetKeeps
  <2>2. UNCHANGED <<ops, wrote, readyUsed>> /\ (req' = AllWoken \/ UNCHANGED <<agent, req>>)
    BY <1>2 DEF ResetAgentUnknown
  <2> QED BY <2>1, <2>2, SendsRest, WakesKeep
<1>3. ASSUME NEW state \in {"running", "waiting"}, ReportState(c, state) PROVE SndInv' /\ AdInv' /\ TakesBack
  <2>1. AdInv' /\ agent' \in Agents
    BY <1>3, ReportKeeps
  <2>2. UNCHANGED <<ops, wrote, readyUsed>> /\ req' = AllWoken
    BY <1>3 DEF ReportState
  <2>3. agent'.state # "unknown"
    <3>1. agent' = [agent EXCEPT !.state = state, !.stateSeq = agent.seq + 1, !.seq = @ + 1] /\ agent \in Agents
      BY <1>3 DEF ReportState, SndInv, SndTypes
    <3> QED BY <3>1 DEF Agents
  <2> QED BY <2>1, <2>2, <2>3, WakesKeep DEF TakesBack
<1>4. ASSUME NEW o \in SendOps, ReportAccepted(c, o) PROVE SndInv' /\ AdInv' /\ TakesBack
  <2>1. AdInv' /\ agent' \in Agents
    BY <1>4, AcceptedKeeps
  <2>2. UNCHANGED <<ops, wrote, readyUsed>> /\ req' = AllWoken
    BY <1>4 DEF ReportAccepted
  <2>3. agent'.state = agent.state
    <3>1. agent' = [agent EXCEPT !.accepted = o, !.seq = @ + 1] /\ agent \in Agents
      BY <1>4 DEF ReportAccepted, SndInv, SndTypes
    <3> QED BY <3>1 DEF Agents
  <2> QED BY <2>1, <2>2, <2>3, WakesKeep DEF TakesBack
<1> QED BY <1>1, <1>2, <1>3, <1>4 DEF AdapterStep

LEMMA AdapterRests == ASSUME AdInv, UNCHANGED adapterVars PROVE AdInv' /\ TakesBack
<1>1. UNCHANGED <<agent, by, latest, stateOf, reader, superseded>>
  BY DEF adapterVars
<1> QED BY <1>1 DEF AdInv, AdTypes, Known, Holds, Vouches, TakesBack

LEMMA SendsStep == ASSUME SndInv, AdInv, SendsAlone \/ Reports PROVE SndInv' /\ AdInv' /\ TakesBack
<1>1. ASSUME NEW q \in Slots, SendStep(q) PROVE SndInv' /\ AdInv' /\ TakesBack
  <2>0. \A o \in SendOps, kind \in SendKinds : Begin(q, o, kind) => UNCHANGED adapterVars
    BY Zenon DEF Begin
  <2>1. UNCHANGED adapterVars
    BY <1>1, <2>0 DEF SendStep, FirstRefusal, Checked, Look, Claim, Woken, NotReady, TakeControl, SecondCheck, GiveBack, WakeAgentWaiters,
                Drop, Queue, Confirm, AwaitAccepted
  <2> QED BY <1>1, <2>1, SendStepKeeps, AdapterRests
<1>2. CASE Hold
  <2>1. UNCHANGED adapterVars /\ UNCHANGED <<agent, req, ops, wrote, readyUsed>>
    BY <1>2 DEF Hold, adapterVars, sendVars
  <2> QED BY <2>1, SendsRest, AdapterRests
<1>3. CASE ProgramExits
  <2>1. UNCHANGED adapterVars /\ req' = AllWoken /\ UNCHANGED <<ops, wrote, readyUsed>> /\ agent' = agent
    BY <1>3 DEF ProgramExits, adapterVars
  <2>2. agent' \in Agents
    BY <2>1 DEF SndInv, SndTypes
  <2> QED BY <2>1, <2>2, WakesKeep, AdapterRests
<1> QED BY <1>1, <1>2, <1>3, AdapterKeeps, SendConnAssumption DEF SendsAlone, Reports

LEMMA SendsHold == Spec => [](SndInv /\ AdInv) /\ [][TakesBack]_svars
<1>1. Init => SndInv /\ AdInv
  <2> SUFFICES ASSUME Init PROVE SndInv /\ AdInv
    OBVIOUS
  <2>1. SendsInit
    BY DEF Init
  <2>2. /\ req = [q \in Slots |-> Idle] /\ ops = [o \in SendOps |-> "none"] /\ wrote = [o \in SendOps |-> 0] /\ readyUsed = 0
        /\ by = NoConn /\ latest = NoConn /\ superseded = {} /\ reader = [c \in Conns |-> [pc |-> "off", seq |-> 0]]
    BY <2>1 DEF SendsInit
  <2>3. agent \in Agents /\ agent.state = "unknown" /\ agent.stateSeq = 0 /\ agent.seq = 0
    BY <2>1 DEF SendsInit, Agents
  <2>4. stateOf \in StateOfs /\ stateOf.seq = 0
    BY <2>1 DEF SendsInit, StateOfs
  <2>5. SndTypes
    BY <2>2, <2>3, IdleReq DEF SndTypes, Outcomes
  <2>6. \A q \in Slots : req[q].pc = "idle" /\ req[q].op = NoSend /\ req[q].n = 0
    BY <2>2, IdleReq
  <2>7. OnceInv
    BY <2>2, <2>6 DEF OnceInv, Serves, ServesAlone, Placed, Unwritten, WrittenOnce
  <2>8. ReadyInv
    BY <2>3 DEF ReadyInv, Looked, NoReadinessMissed
  <2>9. [pc |-> "off", seq |-> 0] \in Readers /\ [pc |-> "off", seq |-> 0].pc = "off"
    BY DEF Readers
  <2>10. \A c \in Conns : Holds(c)
    BY <2>2, <2>9 DEF Holds
  <2>11. AdTypes
    BY <2>2, <2>3, <2>4, <2>9 DEF AdTypes
  <2> QED BY <2>3, <2>4, <2>5, <2>7, <2>8, <2>10, <2>11 DEF SndInv, AdInv, Known
<1>2. SndInv /\ AdInv /\ [Next]_vars => SndInv' /\ AdInv' /\ [TakesBack]_svars
  <2> SUFFICES ASSUME SndInv, AdInv, [Next]_vars PROVE SndInv' /\ AdInv' /\ [TakesBack]_svars
    OBVIOUS
  <2>1. CASE UNCHANGED svars
    <3>1. UNCHANGED adapterVars /\ UNCHANGED <<agent, req, ops, wrote, readyUsed>>
      BY <2>1 DEF svars, adapterVars
    <3> QED BY <2>1, <3>1, SendsRest, AdapterRests
  <2>2. CASE SendsAlone \/ Reports
    BY <2>2, SendsStep
  <2> QED BY <2>1, <2>2, Parts
<1> QED BY <1>1, <1>2, PTL DEF Spec

\* The text of an operation is begun at most once for as long as the service remembers it, and an
\* operation it dropped began none: for any number of operations, requests and remembered
\* operations, whatever is refused, forgotten, evicted and retried in between (begin, drop, settle
\* around the waits of send).
THEOREM TextIsWrittenOnce == Spec => []WrittenOnce
<1>1. SndInv => WrittenOnce
  BY DEF SndInv, OnceInv
<1> QED BY <1>1, SendsHold, PTL

\* No send sleeps over a readiness that is free unless its wake-up is on the way: every report,
\* reset and claim given back reaches the requests that looked before it (awaitReady, unclaimReady,
\* WakeAgentWaiters).
THEOREM ReadinessIsNotMissed == Spec => []NoReadinessMissed
<1>1. SndInv => NoReadinessMissed
  BY DEF SndInv, ReadyInv
<1> QED BY <1>1, SendsHold, PTL

\* The agent's state is shown only while a connection that set it can still take it back, or was
\* superseded by a newer one; and only that connection's own end takes it back, however reports,
\* records, reconnections and ends interleave (adapter.serve, read, disconnected, ResetAgentUnknown).
THEOREM StateIsVouched == Spec => StateVouched
<1>1. AdInv => (agent.state # "unknown" => (reader[by].pc # "done" \/ by \in superseded))
  BY DEF AdInv, Known, Vouches
<1>2. Spec => [](agent.state # "unknown" => (reader[by].pc # "done" \/ by \in superseded))
  BY <1>1, SendsHold, PTL
<1>3. Spec => [][TakesBack]_svars
  BY SendsHold, PTL
<1> QED BY <1>2, <1>3 DEF StateVouched, TakesBack

(******************************** what runs ******************************************)
SomeOp == Operations \cup {CHOOSE o \in Operations : TRUE}
PrgTypes ==
    /\ byOp \in [Operations -> {"none", "creating", "made"}] /\ made \in [Operations -> 0 .. MaxStarts]
    /\ sessions \subseteq Programs /\ starting \in Nat /\ op \in [Programs -> SomeOp]
    /\ leader \in [Programs -> {"none", "running", "dead", "reaped"}] /\ member \in [Programs -> BOOLEAN]
    /\ exited \in [Programs -> BOOLEAN] /\ done \in [Programs -> BOOLEAN] /\ stop \in [Programs -> Stops]
    /\ used \in BOOLEAN /\ closed \in BOOLEAN /\ copy \in BOOLEAN
\* Programs are numbered as they start.
Numbered == \E n \in 0 .. MaxStarts : \A i \in Programs : Started(i) <=> i <= n
\* A program that has not exited is the one its operation remembers, and is counted: it is listed,
\* or its create still holds a place.
Kept(i) ==
    (Started(i) /\ ~exited[i]) => (op[i] \in Operations /\ byOp[op[i]] # "none" /\ made[op[i]] = i /\ (i \in sessions \/ byOp[op[i]] = "creating"))
\* What is said of a program that has not started is nothing, and of one that exited is true.
Told(i) ==
    /\ (member[i] \/ exited[i] \/ stop[i] # "none" \/ i \in sessions) => Started(i)
    /\ exited[i] => (leader[i] = "reaped" /\ ~member[i])
    /\ done[i] => (exited[i] /\ i \notin sessions)
    /\ stop[i] = "confirm" => leader[i] = "reaped"
    /\ stop[i] = "stopped" => (leader[i] = "reaped" /\ ~member[i])
\* The prepared executable: one program at most has it, and its copy is there while it runs.
Prep(i) == Started(i) /\ op[i] \in Prepares
PrepOnce ==
    /\ \A i \in Programs : Prep(i) => used
    /\ \A i, j \in Programs : (Prep(i) /\ Prep(j)) => i = j
    /\ \A i \in Programs : (Prep(i) /\ leader[i] = "running") => copy
    /\ (~used /\ ~closed) => copy
MadeTrue == \A o \in Operations : made[o] # 0 => (Started(made[o]) /\ op[made[o]] = o)
Creating == {o \in Operations : byOp[o] = "creating"}
Counted ==
    /\ IsFiniteSet(Creating) /\ Cardinality(Creating) <= starting
    /\ Cardinality(sessions) + starting <= MaxSessions
PrgInv ==
    /\ PrgTypes /\ Numbered /\ MadeTrue /\ PrepOnce /\ Counted
    /\ \A i \in Programs : Kept(i) /\ Told(i)

LEMMA SessionsFinite == ASSUME PrgTypes PROVE IsFiniteSet(sessions) /\ Cardinality(sessions) \in Nat
<1>1. sessions \subseteq 1 .. MaxStarts /\ 1 \in Int /\ MaxStarts \in Int
  BY TermProgramAssumption DEF PrgTypes, Programs
<1>2. IsFiniteSet(1 .. MaxStarts)
  BY <1>1, FS_Interval
<1>3. IsFiniteSet(sessions)
  BY <1>1, <1>2, FS_Subset
<1> QED BY <1>3, FS_CardinalityType

\* The live bound holds of the programs themselves.
LEMMA LiveBound == ASSUME PrgInv PROVE LiveCounted
<1> DEFINE Live == {i \in Programs : Started(i) /\ ~exited[i]}
           Places == {made[o] : o \in Creating}
<1>0. PrgTypes /\ IsFiniteSet(sessions) /\ Cardinality(sessions) \in Nat /\ IsFiniteSet(Creating) /\ Cardinality(Creating) \in Nat
  BY SessionsFinite, FS_CardinalityType DEF PrgInv, Counted
<1>1. IsFiniteSet(Places) /\ Cardinality(Places) <= Cardinality(Creating)
  <2>1. [o \in Creating |-> made[o]] \in Surjection(Creating, Places)
    BY DEF Surjection
  <2> HIDE DEF Places
  <2>2. PICK f : f \in Surjection(Creating, Places)
    BY <2>1
  <2> QED BY <1>0, <2>2, FS_Surjection
<1>2. Live \subseteq sessions \cup Places
  <2> SUFFICES ASSUME NEW i \in Live, i \notin sessions PROVE i \in Places
    OBVIOUS
  <2>1. op[i] \in Creating /\ made[op[i]] = i
    BY DEF PrgInv, Kept, Creating
  <2> QED BY <2>1
<1>3. IsFiniteSet(sessions \cup Places) /\ Cardinality(sessions \cup Places) <= Cardinality(sessions) + Cardinality(Places)
  <2>1. /\ IsFiniteSet(sessions \cup Places)
        /\ Cardinality(sessions \cup Places) = Cardinality(sessions) + Cardinality(Places) - Cardinality(sessions \cap Places)
    BY <1>0, <1>1, FS_Union
  <2>2. IsFiniteSet(sessions \cap Places)
    BY <1>0, FS_Subset
  <2>3. Cardinality(sessions \cap Places) \in Nat /\ Cardinality(Places) \in Nat
    BY <1>1, <2>2, FS_CardinalityType
  <2> HIDE DEF Places
  <2> QED BY <1>0, <2>1, <2>3
<1>4. IsFiniteSet(Live) /\ Cardinality(Live) <= Cardinality(sessions \cup Places)
  BY <1>2, <1>3, FS_Subset
<1>5. Cardinality(Live) \in Nat /\ Cardinality(sessions \cup Places) \in Nat /\ Cardinality(Places) \in Nat
  BY <1>1, <1>3, <1>4, FS_CardinalityType
<1>6. Cardinality(Creating) <= starting /\ Cardinality(sessions) + starting <= MaxSessions /\ starting \in Nat /\ MaxSessions \in Nat
  BY <1>0, TermProgramAssumption DEF PrgInv, Counted, PrgTypes
<1>7. Cardinality(Live) <= MaxSessions
  <2> HIDE DEF Live, Places
  <2> QED BY <1>0, <1>1, <1>3, <1>4, <1>5, <1>6
<1>8. \A i \in sessions : ~done[i]
  BY <1>0 DEF PrgInv, Told, PrgTypes
<1> QED BY <1>7, <1>8 DEF LiveCounted

LEMMA ProgramsTold == ASSUME PrgInv PROVE ProgramsTrue
<1>1. OneProgram
  <2>1. ASSUME NEW i \in Programs, NEW j \in Programs, i # j, Started(i), Started(j), op[i] = op[j] PROVE (exited[i] \/ exited[j]) /\ op[i] \notin Prepares
    <3>1. exited[i] \/ exited[j]
      BY <2>1 DEF PrgInv, Kept
    <3>2. op[i] \notin Prepares
      BY <2>1 DEF PrgInv, PrepOnce, Prep
    <3> QED BY <3>1, <3>2
  <2>2. \A i \in Programs : (leader[i] = "running" /\ op[i] \in Prepares) => copy
    BY DEF PrgInv, PrepOnce, Prep, Started
  <2> QED BY <2>1, <2>2 DEF OneProgram
<1>2. StopTrue
  BY DEF PrgInv, Told, StopTrue
<1> QED BY <1>1, <1>2, LiveBound DEF ProgramsTrue

LEMMA CountRests == ASSUME Counted, UNCHANGED <<byOp, starting, sessions>> PROVE Counted'
<1>1. Creating' = Creating
  BY DEF Creating
<1> QED BY <1>1 DEF Counted
LEMMA PrepRests == ASSUME PrepOnce, UNCHANGED <<op, leader, used, closed, copy>> PROVE PrepOnce'
  BY DEF PrepOnce, Prep, Started

\* Steps that start nothing, list nothing and reserve nothing.
LEMMA ProgramSteps ==
    ASSUME PrgInv, NEW i \in Programs, LeaderExits(i) \/ MemberEnds(i) \/ Reap(i) \/ Exit(i) \/ StopBegins(i) \/ StopWaits(i) \/ StopConfirms(i)
    PROVE  PrgInv'
<1>0. UNCHANGED <<byOp, made, sessions, starting, op, done>> /\ PrgTypes
  BY DEF LeaderExits, MemberEnds, Reap, Exit, StopBegins, StopWaits, StopConfirms, table, PrgInv
<1>1. PrgTypes'
  <2>1. CASE LeaderExits(i)
    BY <1>0, <2>1 DEF PrgTypes, LeaderExits, Stops, prepared, Abandon
  <2>2. CASE MemberEnds(i)
    BY <1>0, <2>2 DEF PrgTypes, MemberEnds, Stops, prepared, Abandon
  <2>3. CASE Reap(i)
    BY <1>0, <2>3 DEF PrgTypes, Reap, Stops, prepared, Abandon
  <2>4. CASE Exit(i)
    BY <1>0, <2>4 DEF PrgTypes, Exit, Stops, prepared, Abandon
  <2>5. CASE StopBegins(i)
    BY <1>0, <2>5 DEF PrgTypes, StopBegins, Stops, prepared, Abandon
  <2>6. CASE StopWaits(i)
    BY <1>0, <2>6 DEF PrgTypes, StopWaits, Stops, prepared, Abandon
  <2>7. CASE StopConfirms(i)
    BY <1>0, <2>7 DEF PrgTypes, StopConfirms, Stops, prepared, Abandon
  <2> QED BY <2>1, <2>2, <2>3, <2>4, <2>5, <2>6, <2>7
<1>2. /\ \A k \in Programs : (Started(k)' <=> Started(k)) /\ (leader'[k] = "running" => leader[k] = "running") /\ (leader[k] = "reaped" => leader'[k] = "reaped")
      /\ \A k \in Programs : (member'[k] => member[k]) /\ (exited[k] => exited'[k])
  BY <1>0, <1>1 DEF PrgTypes, LeaderExits, MemberEnds, Reap, Exit, StopBegins, StopWaits, StopConfirms, Started
<1>3. Numbered'
  BY <1>2 DEF PrgInv, Numbered
<1>4. Counted'
  BY <1>0, CountRests DEF PrgInv
<1>5. MadeTrue'
  <2> SUFFICES ASSUME NEW o \in Operations, made[o] # 0 PROVE Started(made[o])' /\ op'[made'[o]] = o
    BY <1>0 DEF MadeTrue
  <2>1. made[o] \in Programs /\ Started(made[o]) /\ op[made[o]] = o
    BY <1>0, TermProgramAssumption DEF PrgInv, MadeTrue, PrgTypes, Programs
  <2>2. PICK k \in Programs : k = made[o]
    BY <2>1
  <2> QED BY <1>0, <1>2, <2>1, <2>2 DEF Started
<1>6. \A k \in Programs : Kept(k)'
  BY <1>0, <1>2 DEF PrgInv, Kept
<1>7. \A k \in Programs : Told(k)'
  <2> SUFFICES ASSUME NEW k \in Programs PROVE Told(k)'
    OBVIOUS
  <2>1. Told(k) /\ Told(i)
    BY DEF PrgInv
  <2>2. CASE LeaderExits(i)
    BY <1>0, <1>2, <2>1, <2>2 DEF LeaderExits, Told, PrgTypes
  <2>3. CASE MemberEnds(i)
    BY <1>0, <1>2, <2>1, <2>3 DEF MemberEnds, Told, PrgTypes
  <2>4. CASE Reap(i)
    BY <1>0, <1>2, <2>1, <2>4 DEF Reap, Told, PrgTypes
  <2>5. CASE Exit(i)
    BY <1>0, <1>2, <2>1, <2>5 DEF Exit, Told, PrgTypes, Started
  <2>6. CASE StopBegins(i)
    BY <1>0, <1>2, <2>1, <2>6 DEF StopBegins, Told, PrgTypes
  <2>7. CASE StopWaits(i)
    BY <1>0, <1>2, <2>1, <2>7 DEF StopWaits, Told, PrgTypes
  <2>8. CASE StopConfirms(i)
    BY <1>0, <1>2, <2>1, <2>8 DEF StopConfirms, Told, PrgTypes
  <2> QED BY <2>2, <2>3, <2>4, <2>5, <2>6, <2>7, <2>8
<1>8. PrepOnce'
  <2>1. \A k \in Programs : Prep(k)' <=> Prep(k)
    BY <1>0, <1>2 DEF Prep
  <2>2. CASE UNCHANGED prepared
    BY <1>2, <2>1, <2>2 DEF prepared, PrgInv, PrepOnce
  <2>3. CASE Reap(i) /\ op[i] \in Prepares /\ Abandon
    <3>1. Prep(i) /\ leader'[i] # "running"
      BY <1>0, <2>3 DEF Reap, Prep, Started, PrgTypes
    <3>2. \A k \in Programs : Prep(k) => k = i
      BY <3>1 DEF PrgInv, PrepOnce
    <3> QED BY <2>1, <2>3, <3>1, <3>2 DEF PrepOnce, Abandon
  <2> QED BY <2>2, <2>3 DEF LeaderExits, MemberEnds, Reap, Exit, StopBegins, StopWaits, StopConfirms
<1> QED BY <1>1, <1>3, <1>4, <1>5, <1>6, <1>7, <1>8 DEF PrgInv

LEMMA ForgetKeeps == ASSUME PrgInv, NEW i \in Programs, Forget(i) PROVE PrgInv'
<1>0. /\ UNCHANGED <<byOp, made, starting, op, leader, member, exited, stop, used, closed, copy>> /\ PrgTypes
      /\ exited[i] /\ sessions' = sessions \ {i} /\ done' = [done EXCEPT ![i] = TRUE]
  BY DEF Forget, prepared, PrgInv
<1>1. PrgTypes'
  BY <1>0 DEF PrgTypes
<1>2. Counted'
  <2>1. Creating' = Creating
    BY <1>0 DEF Creating
  <2>2. IsFiniteSet(sessions) /\ Cardinality(sessions) \in Nat /\ starting \in Nat
    BY <1>0, SessionsFinite DEF PrgTypes
  <2>3. Cardinality(sessions') <= Cardinality(sessions) /\ Cardinality(sessions') \in Nat
    <3>1. sessions' \in SUBSET sessions
      BY <1>0
    <3>2. IsFiniteSet(sessions') /\ Cardinality(sessions') <= Cardinality(sessions)
      BY <2>2, <3>1, FS_Subset
    <3> QED BY <3>2, FS_CardinalityType
  <2> QED BY <1>0, <2>1, <2>2, <2>3, TermProgramAssumption DEF PrgInv, Counted
<1>3. \A k \in Programs : Kept(k)' /\ Told(k)'
  BY <1>0 DEF PrgInv, Kept, Told, Started, PrgTypes
<1>4. Numbered' /\ MadeTrue'
  BY <1>0 DEF PrgInv, Numbered, MadeTrue, Started
<1>5. PrepOnce'
  BY <1>0, PrepRests DEF PrgInv
<1> QED BY <1>1, <1>2, <1>3, <1>4, <1>5 DEF PrgInv

LEMMA CloseKeeps == ASSUME PrgInv, ClosePrepared PROVE PrgInv'
<1>0. /\ UNCHANGED <<byOp, made, sessions, starting, op, leader, member, exited, done, stop, used>> /\ PrgTypes
      /\ ~used /\ closed' = TRUE /\ copy' \in {FALSE, copy}
  BY DEF ClosePrepared, table, programs, PrgInv
<1>1. PrgTypes'
  BY <1>0 DEF PrgTypes
<1>2. PrepOnce'
  BY <1>0 DEF PrgInv, PrepOnce, Prep, Started
<1>3. Counted' /\ Numbered' /\ MadeTrue'
  BY <1>0, CountRests DEF PrgInv, Numbered, MadeTrue, Started
<1>4. \A k \in Programs : Kept(k)' /\ Told(k)'
  BY <1>0 DEF PrgInv, Kept, Told, Started
<1> QED BY <1>1, <1>2, <1>3, <1>4 DEF PrgInv

\* No program that has not exited is of an operation that remembers none.
LEMMA NoneLive == ASSUME PrgInv, NEW o \in Operations, byOp[o] = "none" \/ made[o] = 0, NEW i \in Programs, Started(i), ~exited[i] PROVE op[i] # o
<1>1. made[op[i]] = i /\ byOp[op[i]] # "none" /\ i # 0
  BY TermProgramAssumption DEF PrgInv, Kept, Programs
<1> QED BY <1>1

LEMMA ReserveKeeps == ASSUME PrgInv, NEW o \in Operations, Reserve(o) PROVE PrgInv'
<1>0. /\ UNCHANGED <<sessions, op, leader, member, exited, done, stop, used, closed, copy>> /\ PrgTypes
      /\ byOp[o] = "none" /\ Cardinality(sessions) + starting < MaxSessions
      /\ byOp' = [byOp EXCEPT ![o] = "creating"] /\ made' = [made EXCEPT ![o] = 0] /\ starting' = starting + 1
  BY DEF Reserve, programs, prepared, PrgInv
<1>1. PrgTypes'
  BY <1>0, TermProgramAssumption DEF PrgTypes
<1>2. Counted'
  <2>1. Creating' = Creating \cup {o} /\ o \notin Creating
    BY <1>0 DEF Creating, PrgTypes
  <2>2. IsFiniteSet(Creating) /\ Cardinality(Creating) <= starting
    BY DEF PrgInv, Counted
  <2>3. IsFiniteSet(Creating') /\ Cardinality(Creating') = Cardinality(Creating) + 1
    BY <2>1, <2>2, FS_AddElement
  <2>4. Cardinality(Creating) \in Nat /\ Cardinality(sessions) \in Nat /\ starting \in Nat
    BY <1>0, <2>2, FS_CardinalityType, SessionsFinite DEF PrgTypes
  <2> QED BY <1>0, <2>2, <2>3, <2>4, TermProgramAssumption DEF Counted
<1>3. \A k \in Programs : Kept(k)'
  <2> SUFFICES ASSUME NEW k \in Programs, Started(k), ~exited[k] PROVE Kept(k)'
    BY <1>0 DEF Kept, Started
  <2>1. op[k] # o /\ Kept(k)
    BY <1>0, NoneLive DEF PrgInv
  <2> QED BY <1>0, <2>1 DEF Kept, Started, PrgTypes
<1>4. \A k \in Programs : Told(k)'
  BY <1>0 DEF PrgInv, Told, Started
<1>5. Numbered' /\ PrepOnce'
  BY <1>0, PrepRests DEF PrgInv, Numbered, Started
<1>6. MadeTrue'
  <2> SUFFICES ASSUME NEW p \in Operations, made'[p] # 0 PROVE Started(made[p])' /\ op'[made'[p]] = p
    BY DEF MadeTrue
  <2>1. made'[p] = made[p]
    BY <1>0 DEF PrgTypes
  <2> QED BY <1>0, <2>1 DEF PrgInv, MadeTrue, Started
<1> QED BY <1>1, <1>2, <1>3, <1>4, <1>5, <1>6 DEF PrgInv

LEMMA CreateFailsKeeps == ASSUME PrgInv, NEW o \in Operations, CreateFails(o) PROVE PrgInv'
<1>0. /\ UNCHANGED <<sessions, op, leader, member, exited, done, stop, made>> /\ PrgTypes
      /\ byOp[o] = "creating" /\ made[o] = 0 /\ byOp' = [byOp EXCEPT ![o] = "none"] /\ starting' = starting - 1
      /\ UNCHANGED <<used, closed, copy>> \/ (~used /\ Abandon)
  BY DEF CreateFails, programs, prepared, Consume, PrgInv
<1>2. Counted' /\ starting' \in Nat
  <2>1. Creating' = Creating \ {o} /\ o \in Creating
    BY <1>0 DEF Creating, PrgTypes
  <2>2. IsFiniteSet(Creating) /\ Cardinality(Creating) <= starting /\ Cardinality(sessions) + starting <= MaxSessions
    BY DEF PrgInv, Counted
  <2>3. IsFiniteSet(Creating') /\ Cardinality(Creating') = Cardinality(Creating) - 1
    BY <2>1, <2>2, FS_RemoveElement
  <2>4. Cardinality(Creating) \in Nat /\ Cardinality(sessions) \in Nat /\ starting \in Nat
    BY <1>0, <2>2, FS_CardinalityType, SessionsFinite DEF PrgTypes
  <2>5. Cardinality(Creating') \in Nat
    BY <2>3, FS_CardinalityType
  <2> QED BY <1>0, <2>2, <2>3, <2>4, <2>5, TermProgramAssumption DEF Counted
<1>1. PrgTypes'
  BY <1>0, <1>2 DEF PrgTypes, Abandon
<1>3. \A k \in Programs : Kept(k)'
  <2> SUFFICES ASSUME NEW k \in Programs, Started(k), ~exited[k] PROVE Kept(k)'
    BY <1>0 DEF Kept, Started
  <2>1. op[k] # o /\ Kept(k)
    BY <1>0, NoneLive DEF PrgInv
  <2> QED BY <1>0, <2>1 DEF Kept, Started, PrgTypes
<1>4. \A k \in Programs : Told(k)'
  BY <1>0 DEF PrgInv, Told, Started
<1>5. Numbered' /\ MadeTrue'
  BY <1>0 DEF PrgInv, Numbered, MadeTrue, Started
<1>6. PrepOnce'
  <2>1. CASE UNCHANGED <<used, closed, copy>>
    BY <1>0, <2>1, PrepRests DEF PrgInv
  <2>2. CASE ~used /\ Abandon
    <3>1. \A k \in Programs : ~Prep(k)
      BY <2>2 DEF PrgInv, PrepOnce
    <3>2. \A k \in Programs : ~Prep(k)'
      BY <1>0, <3>1 DEF Prep, Started
    <3> QED BY <2>2, <3>2 DEF PrepOnce, Abandon
  <2> QED BY <1>0, <2>1, <2>2
<1> QED BY <1>1, <1>2, <1>3, <1>4, <1>5, <1>6 DEF PrgInv

LEMMA StartKeeps == ASSUME PrgInv, NEW o \in Operations, StartSession(o) PROVE PrgInv'
<1>t. PrgTypes
  BY DEF PrgInv
<1>n. PICK n \in 0 .. MaxStarts : \A k \in Programs : Started(k) <=> k <= n
  BY DEF PrgInv, Numbered
<1>c. Cardinality({k \in Programs : Started(k)}) = n
  <2>1. {k \in Programs : Started(k)} = 1 .. n
    BY <1>n, TermProgramAssumption DEF Programs
  <2>2. 1 \in Int /\ n \in Int /\ n >= 0
    BY TermProgramAssumption
  <2>3. Cardinality(1 .. n) = IF 1 > n THEN 0 ELSE n - 1 + 1
    BY <2>2, FS_Interval
  <2>4. Cardinality(1 .. n) = n
    BY <2>2, <2>3
  <2> QED BY Zenon, <2>1, <2>4
<1>i. PICK i \in Programs : i = n + 1
  BY <1>c DEF StartSession
<1>0. /\ UNCHANGED <<byOp, sessions, starting, exited, done, stop, closed, copy>>
      /\ byOp[o] = "creating" /\ made[o] = 0 /\ Consume(o) /\ used' = (used \/ o \in Prepares)
      /\ made' = [made EXCEPT ![o] = i] /\ op' = [op EXCEPT ![i] = o] /\ leader' = [leader EXCEPT ![i] = "running"]
      /\ \E m \in BOOLEAN : member' = [member EXCEPT ![i] = m]
  BY <1>c, <1>i DEF StartSession
<1>1. ~Started(i) /\ \A k \in Programs : Started(k)' <=> (Started(k) \/ k = i)
  <2>1. ~Started(i)
    BY <1>n, <1>i, TermProgramAssumption DEF Programs
  <2>2. Started(i)'
    BY <1>t, <1>0 DEF Started, PrgTypes
  <2>3. \A k \in Programs : k # i => (Started(k)' <=> Started(k))
    BY <1>t, <1>0 DEF Started, PrgTypes
  <2> QED BY <2>1, <2>2, <2>3
<1>f. ~exited[i] /\ i \notin sessions /\ stop[i] = "none" /\ ~done[i]
  BY <1>1 DEF PrgInv, Told
<1>2. PrgTypes'
  BY <1>t, <1>0, TermProgramAssumption DEF PrgTypes, SomeOp, Programs
<1>3. Numbered'
  <2>1. n + 1 \in 0 .. MaxStarts /\ \A k \in Programs : Started(k)' <=> k <= n + 1
    BY <1>n, <1>i, <1>1, TermProgramAssumption DEF Programs
  <2> QED BY <2>1 DEF Numbered
<1>4. Counted'
  BY <1>0, CountRests DEF PrgInv
<1>5. op'[i] = o /\ made'[o] = i /\ i # 0 /\ leader'[i] = "running" /\ \A k \in Programs : k # i => op'[k] = op[k] /\ leader'[k] = leader[k] /\ member'[k] = member[k]
  BY <1>t, <1>0, TermProgramAssumption DEF PrgTypes, Programs
<1>6. MadeTrue'
  <2> SUFFICES ASSUME NEW p \in Operations, made'[p] # 0 PROVE Started(made[p])' /\ op'[made'[p]] = p
    BY DEF MadeTrue
  <2>1. CASE p = o
    BY <1>1, <1>5, <2>1 DEF Started
  <2>2. CASE p # o
    <3>1. made'[p] = made[p] /\ made[p] \in Programs
      BY <1>t, <1>0, <2>2, TermProgramAssumption DEF PrgTypes, Programs
    <3>2. PICK k \in Programs : k = made[p]
      BY <3>1
    <3>3. Started(k) /\ op[k] = p /\ k # i
      BY <1>1, <3>1, <3>2 DEF PrgInv, MadeTrue
    <3> QED BY <1>1, <1>5, <3>1, <3>2, <3>3 DEF Started
  <2> QED BY <2>1, <2>2
<1>7. \A k \in Programs : Kept(k)'
  <2> SUFFICES ASSUME NEW k \in Programs, Started(k)', ~exited[k] PROVE Kept(k)'
    BY <1>0 DEF Kept
  <2>1. CASE k = i
    BY <1>0, <1>5, <2>1 DEF Kept
  <2>2. CASE k # i
    <3>1. Started(k) /\ Kept(k) /\ op[k] # o
      BY <1>0, <1>1, <2>2, NoneLive DEF PrgInv
    <3>2. made'[op[k]] = made[op[k]]
      BY <1>t, <1>0, <3>1 DEF PrgTypes, Kept
    <3> QED BY <1>0, <1>5, <2>2, <3>1, <3>2 DEF Kept
  <2> QED BY <2>1, <2>2
<1>8. \A k \in Programs : Told(k)'
  <2> SUFFICES ASSUME NEW k \in Programs PROVE Told(k)'
    OBVIOUS
  <2>1. Told(k)
    BY DEF PrgInv
  <2>2. CASE k = i
    BY <1>0, <1>1, <1>f, <2>2 DEF Told
  <2>3. CASE k # i
    BY <1>0, <1>1, <1>5, <2>1, <2>3 DEF Told
  <2> QED BY <2>2, <2>3
<1>9. PrepOnce'
  <2>1. \A k \in Programs : k # i => (Prep(k)' <=> Prep(k))
    BY <1>1, <1>5 DEF Prep
  <2>2. CASE o \in Prepares
    <3>1. ~used /\ ~closed /\ copy
      BY <1>0, <2>2 DEF Consume, PrgInv, PrepOnce
    <3>2. \A k \in Programs : ~Prep(k)
      BY <3>1 DEF PrgInv, PrepOnce
    <3> QED BY <1>0, <2>1, <2>2, <3>1, <3>2 DEF PrepOnce
  <2>3. CASE o \notin Prepares
    <3>1. ~Prep(i)' /\ (used' <=> used)
      BY <1>0, <1>5, <2>3 DEF Prep
    <3> QED BY <1>0, <1>5, <2>1, <3>1 DEF PrgInv, PrepOnce
  <2> QED BY <2>2, <2>3
<1> QED BY <1>2, <1>3, <1>4, <1>6, <1>7, <1>8, <1>9 DEF PrgInv

LEMMA CreateEndsKeeps == ASSUME PrgInv, NEW o \in Operations, CreateEnds(o) PROVE PrgInv'
<1> DEFINE order == Append(opOrder, o)
<1>t. PrgTypes
  BY DEF PrgInv
<1>g. PICK gone : gone = {order[n] : n \in Pruned(order)}
  OBVIOUS
<1>0. /\ UNCHANGED <<made, op, leader, member, exited, done, stop, used, closed, copy>>
      /\ byOp[o] = "creating" /\ made[o] # 0 /\ starting' = starting - 1 /\ sessions' = sessions \cup Listed(made[o])
      /\ byOp' = [p \in Operations |-> IF p \in gone THEN "none" ELSE IF p = o THEN "made" ELSE byOp[p]]
  BY Zenon, <1>g DEF CreateEnds, programs, prepared
<1>1. \A p \in gone : exited[made[p]]
  BY <1>g DEF Pruned
<1> HIDE DEF order
<1>i. PICK i \in Programs : i = made[o] /\ Started(i) /\ op[i] = o
  BY <1>t, <1>0, TermProgramAssumption DEF PrgTypes, Programs, PrgInv, MadeTrue
<1>l. Listed(made[o]) = IF exited[i] THEN {} ELSE {i}
  BY <1>i DEF Listed
<1>2. Counted' /\ starting' \in Nat
  <2>1. Creating' \subseteq Creating \ {o} /\ o \in Creating
    BY <1>0 DEF Creating
  <2>2. IsFiniteSet(Creating) /\ Cardinality(Creating) <= starting /\ Cardinality(sessions) + starting <= MaxSessions
    BY DEF PrgInv, Counted
  <2>3. IsFiniteSet(Creating \ {o}) /\ Cardinality(Creating \ {o}) = Cardinality(Creating) - 1
    BY <2>1, <2>2, FS_RemoveElement
  <2>4. IsFiniteSet(Creating') /\ Cardinality(Creating') <= Cardinality(Creating \ {o})
    BY <2>1, <2>3, FS_Subset
  <2>5. IsFiniteSet(sessions) /\ Cardinality(sessions) \in Nat /\ starting \in Nat
    BY <1>t, SessionsFinite DEF PrgTypes
  <2>6. Cardinality(Creating) \in Nat /\ Cardinality(Creating') \in Nat /\ Cardinality(Creating \ {o}) \in Nat
    BY <2>2, <2>3, <2>4, FS_CardinalityType
  <2>7. Cardinality(sessions') <= Cardinality(sessions) + 1 /\ Cardinality(sessions') \in Nat
    <3>1. CASE exited[i]
      <4>1. sessions' = sessions
        BY <1>0, <1>l, <3>1
      <4> QED BY <2>5, <4>1
    <3>2. CASE ~exited[i]
      <4>1. sessions' = sessions \cup {i}
        BY <1>0, <1>l, <3>2
      <4>2. IsFiniteSet(sessions') /\ Cardinality(sessions') = IF i \in sessions THEN Cardinality(sessions) ELSE Cardinality(sessions) + 1
        BY <2>5, <4>1, FS_AddElement
      <4> QED BY <2>5, <4>2
    <3> QED BY <3>1, <3>2
  <2> QED BY <1>0, <2>2, <2>3, <2>4, <2>5, <2>6, <2>7, TermProgramAssumption DEF Counted
<1>3. PrgTypes'
  BY <1>t, <1>0, <1>2, <1>l DEF PrgTypes
<1>4. Numbered' /\ MadeTrue' /\ PrepOnce'
  BY <1>0, PrepRests DEF PrgInv, Numbered, MadeTrue, Started
<1>5. \A k \in Programs : Kept(k)'
  <2> SUFFICES ASSUME NEW k \in Programs, Started(k), ~exited[k] PROVE Kept(k)'
    BY <1>0 DEF Kept, Started
  <2>1. op[k] \in Operations /\ byOp[op[k]] # "none" /\ made[op[k]] = k /\ (k \in sessions \/ byOp[op[k]] = "creating")
    BY DEF PrgInv, Kept
  <2>2. op[k] \notin gone
    BY <1>1, <2>1
  <2>3. CASE op[k] = o
    <3>1. k = i
      BY <1>i, <2>1, <2>3
    <3>2. k \in sessions'
      BY <1>0, <1>l, <3>1
    <3> QED BY <1>0, <2>1, <2>2, <2>3, <3>2 DEF Kept
  <2>4. CASE op[k] # o
    BY <1>0, <2>1, <2>2, <2>4 DEF Kept
  <2> QED BY <2>3, <2>4
<1>6. \A k \in Programs : Told(k)'
  <2> SUFFICES ASSUME NEW k \in Programs PROVE Told(k)'
    OBVIOUS
  <2>1. Told(k)
    BY DEF PrgInv
  <2>2. k \in sessions' => (k \in sessions \/ (k = i /\ ~exited[k]))
    BY <1>0, <1>l
  <2>3. k \in sessions => k \in sessions'
    BY <1>0
  <2> QED BY <1>0, <1>i, <2>1, <2>2, <2>3 DEF Told, Started
<1> QED BY <1>2, <1>3, <1>4, <1>5, <1>6 DEF PrgInv

LEMMA ProgramStep == ASSUME PrgInv, ProgramNext PROVE PrgInv'
<1>1. ASSUME NEW o \in Operations, Reserve(o) \/ CreateFails(o) \/ StartSession(o) \/ CreateEnds(o) PROVE PrgInv'
  BY <1>1, ReserveKeeps, CreateFailsKeeps, StartKeeps, CreateEndsKeeps
<1>2. ASSUME NEW i \in Programs, LeaderExits(i) \/ MemberEnds(i) \/ Reap(i) \/ Exit(i) \/ Forget(i) \/ StopBegins(i) \/ StopWaits(i) \/ StopConfirms(i) PROVE PrgInv'
  BY <1>2, ProgramSteps, ForgetKeeps
<1> QED BY <1>1, <1>2, CloseKeeps DEF ProgramNext

\* The host's account of its programs is true of the processes: one operation never has two
\* programs that have not exited, one prepared executable never starts two and is there while its
\* program runs, the live bound bounds what lives, and a stop that says the group is gone is right;
\* for any number of operations and programs, whatever is retried, pruned, reaped or forgotten
\* while a create or a stop is under way (SessionHost.Create, pump, Stop).
THEOREM ProgramsAreTrue == Spec => []ProgramsTrue
<1>1. Init => PrgInv
  <2> SUFFICES ASSUME Init PROVE PrgInv
    OBVIOUS
  <2>1. /\ byOp = [o \in Operations |-> "none"] /\ made = [o \in Operations |-> 0] /\ sessions = {} /\ starting = 0
        /\ leader = [i \in Programs |-> "none"]
        /\ member = [i \in Programs |-> FALSE] /\ exited = [i \in Programs |-> FALSE] /\ done = [i \in Programs |-> FALSE]
        /\ stop = [i \in Programs |-> "none"] /\ used = FALSE /\ closed = FALSE /\ copy = TRUE
    BY DEF Init, ProgramInit
  <2>2. PrgTypes
    <3>1. op = [i \in Programs |-> CHOOSE o \in Operations : TRUE]
      BY DEF Init, ProgramInit
    <3>2. (CHOOSE o \in Operations : TRUE) \in SomeOp
      BY Zenon DEF SomeOp
    <3>3. op \in [Programs -> SomeOp]
      BY Zenon, <3>1, <3>2
    <3>4. made \in [Operations -> 0 .. MaxStarts] /\ byOp \in [Operations -> {"none", "creating", "made"}] /\ starting \in Nat /\ sessions \subseteq Programs
      BY <2>1, TermProgramAssumption
    <3>5. /\ leader \in [Programs -> {"none", "running", "dead", "reaped"}] /\ member \in [Programs -> BOOLEAN] /\ exited \in [Programs -> BOOLEAN]
          /\ done \in [Programs -> BOOLEAN] /\ stop \in [Programs -> Stops] /\ used \in BOOLEAN /\ closed \in BOOLEAN /\ copy \in BOOLEAN
      BY <2>1 DEF Stops
    <3> QED BY <3>3, <3>4, <3>5 DEF PrgTypes
  <2>3. Numbered
    <3>1. 0 \in 0 .. MaxStarts /\ \A i \in Programs : Started(i) <=> i <= 0
      BY <2>1, TermProgramAssumption DEF Started, Programs
    <3> QED BY <3>1 DEF Numbered
  <2>4. Counted
    <3>1. Creating = {}
      BY <2>1 DEF Creating
    <3> QED BY <2>1, <3>1, FS_EmptySet, TermProgramAssumption DEF Counted
  <2>5. MadeTrue /\ PrepOnce /\ \A i \in Programs : Kept(i) /\ Told(i)
    BY <2>1 DEF MadeTrue, PrepOnce, Prep, Started, Kept, Told
  <2> QED BY <2>2, <2>3, <2>4, <2>5 DEF PrgInv
<1>2. PrgInv /\ [Next]_vars => PrgInv'
  <2>1. PrgInv /\ UNCHANGED pvars => PrgInv'
    <3> SUFFICES ASSUME PrgInv, UNCHANGED pvars PROVE PrgInv'
      OBVIOUS
    <3>1. UNCHANGED <<byOp, made, sessions, starting, op, leader, member, exited, done, stop, used, closed, copy>>
      BY DEF pvars
    <3>2. Counted' /\ PrepOnce'
      BY <3>1, CountRests, PrepRests DEF PrgInv
    <3> QED BY <3>1, <3>2 DEF PrgInv, PrgTypes, Numbered, MadeTrue, Kept, Told, Started
  <2> QED BY <2>1, Parts, ProgramStep
<1> QED BY <1>1, <1>2, ProgramsTold, PTL DEF Spec

(*********************************** who has a name **********************************)
CSteps == {"idle", "reserved", "create", "start", "journal", "made", "publish", "stop"}
CReq == [pc : CSteps, op : CreateOps \cup {NoOp}, retry : BOOLEAN, t : 0 .. MaxSess]
SRec == [op : CreateOps \cup {NoOp}, serve : Nat, st : {"none", "running", "ending", "exited"}, named : BOOLEAN]
JRec == [kind : {"create", "name", "exit", "reconcile"}, s : Ids, serve : Nat]
NmTypes ==
    /\ serving \in {"down", "opening", "up"} /\ serveNo \in Nat /\ sess \in [Ids -> SRec] /\ nSess \in 0 .. MaxSess
    /\ named \in 0 .. MaxSess /\ hostOps \in [CreateOps -> Int] /\ creq \in [Callers -> CReq]
    /\ jrnl \in Seq(JRec) /\ todo \in Seq(Ids)

IsEnd(k) == jrnl[k].kind \in {"exit", "reconcile"}
IsCreate(k) == jrnl[k].kind = "create"
Lines == 1 .. Len(jrnl)
HasCreate(s) == \E k \in Lines : IsCreate(k) /\ jrnl[k].s = s
Closed(s) == \E k \in Lines : IsEnd(k) /\ jrnl[k].s = s

\* The journal: one create to a session, and one reconcile, after it.
Written ==
    /\ \A k \in Lines : jrnl[k].serve <= serveNo /\ (IsCreate(k) => jrnl[k].s <= nSess)
    /\ \A k, m \in Lines : (IsCreate(k) /\ IsCreate(m) /\ jrnl[k].s = jrnl[m].s) => k = m
    /\ \A m \in Lines : jrnl[m].kind = "reconcile" => \E k \in Lines : k < m /\ IsCreate(k) /\ jrnl[k].s = jrnl[m].s
    /\ \A k, m \in Lines : (jrnl[k].kind = "reconcile" /\ jrnl[m].kind = "reconcile" /\ jrnl[k].s = jrnl[m].s) => k = m
\* What an earlier service created has ended in the journal, or is about to be reconciled.
Owed(s) == serving = "opening" /\ \E j \in 1 .. Len(todo) : todo[j] = s
Settled == serving # "down" => \A k \in Lines : (IsCreate(k) /\ jrnl[k].serve < serveNo) => (Closed(jrnl[k].s) \/ Owed(jrnl[k].s))
ToDo ==
    serving = "opening" =>
        /\ \A j, m \in 1 .. Len(todo) : j # m => todo[j] # todo[m]
        /\ \A j \in 1 .. Len(todo) : todo[j] \in OpenSessions
JournalInv == Written /\ Settled /\ ToDo

\* Who makes a session: its operation is marked as starting, and no other request makes it.
Making(q) == creq[q].pc \in {"start", "journal"}
Caller(q) ==
    /\ creq[q].pc \notin {"idle", "stop"} => creq[q].op \in CreateOps
    /\ creq[q].pc # "idle" => serving = "up"
    /\ creq[q].pc \in {"journal", "made", "publish", "stop"} => creq[q].t # 0
    /\ Making(q) => hostOps[creq[q].op] = -1
    /\ creq[q].pc = "journal" => (creq[q].t <= nSess /\ ~HasCreate(creq[q].t))
Apart(p, q) ==
    /\ (p # q /\ Making(p) /\ Making(q)) => creq[p].op # creq[q].op
    /\ (p # q /\ creq[p].pc = "journal" /\ creq[q].pc = "journal") => creq[p].t # creq[q].t
\* A program of this service that runs is the one the host remembers, or is being journaled.
Now(i) == Running(i) /\ sess[i].serve = serveNo /\ serving = "up"
Makes(q, i) == creq[q].pc = "journal" /\ creq[q].op = sess[i].op /\ creq[q].t = i
Backed(i) ==
    /\ i > nSess => sess[i].st = "none"
    /\ sess[i].st # "none" => (sess[i].serve <= serveNo /\ (serving = "opening" => sess[i].serve < serveNo))
    /\ Now(i) => (sess[i].op \in CreateOps /\ (hostOps[sess[i].op] = i \/ \E q \in Callers : Makes(q, i)))
MakersInv ==
    /\ \A q \in Callers : Caller(q)
    /\ \A p, q \in Callers : Apart(p, q)
    /\ \A i \in Ids : Backed(i)
    /\ CreateOnce
NmInv == NmTypes /\ JournalInv /\ MakersInv

(******************************** what is journaled *********************************)
AddsLine(w) == jrnl' = Append(jrnl, w)
LEMMA LineAdded ==
    ASSUME NmTypes, NEW w \in JRec, AddsLine(w)
    PROVE  /\ jrnl' \in Seq(JRec) /\ Len(jrnl) \in Nat /\ Len(jrnl') = Len(jrnl) + 1 /\ jrnl'[Len(jrnl) + 1] = w
           /\ \A k \in Lines : k \in Lines' /\ jrnl'[k] = jrnl[k] /\ k < Len(jrnl) + 1
           /\ \A k \in Lines' : k \in Lines \/ k = Len(jrnl) + 1
           /\ Len(jrnl) + 1 \in Lines'
<1>1. jrnl \in Seq(JRec) /\ jrnl' = Append(jrnl, w) /\ Len(jrnl) \in Nat
  BY DEF NmTypes, AddsLine
<1>2. jrnl' \in Seq(JRec) /\ Len(jrnl') = Len(jrnl) + 1 /\ jrnl'[Len(jrnl) + 1] = w /\ \A k \in 1 .. Len(jrnl) : jrnl'[k] = jrnl[k]
  BY <1>1, AppendProperties
<1> QED BY <1>1, <1>2 DEF Lines

\* A line that is no reconcile, and a create only of a session that has none.
LEMMA WrittenAdds ==
    ASSUME NmTypes, Written, NEW w \in JRec, AddsLine(w), w.serve = serveNo, UNCHANGED <<serveNo, nSess>>,
           w.kind = "create" => (w.s <= nSess /\ ~HasCreate(w.s)),
           w.kind = "reconcile" => (HasCreate(w.s) /\ \A m \in Lines : ~(jrnl[m].kind = "reconcile" /\ jrnl[m].s = w.s))
    PROVE  Written'
<1> DEFINE last == Len(jrnl) + 1
<1>1. /\ jrnl'[last] = w /\ \A k \in Lines : k \in Lines' /\ jrnl'[k] = jrnl[k] /\ k < last
      /\ \A k \in Lines' : k \in Lines \/ k = last
  BY LineAdded
<1>2. serveNo \in Nat
  BY DEF NmTypes
<1> HIDE DEF last
<1>3. \A k \in Lines' : jrnl'[k].serve <= serveNo' /\ (IsCreate(k)' => jrnl'[k].s <= nSess')
  BY <1>1, <1>2 DEF Written, IsCreate
<1>4. \A k, m \in Lines' : (IsCreate(k)' /\ IsCreate(m)' /\ jrnl'[k].s = jrnl'[m].s) => k = m
  BY <1>1 DEF Written, IsCreate, HasCreate
<1>5. \A m \in Lines' : jrnl'[m].kind = "reconcile" => \E k \in Lines' : k < m /\ IsCreate(k)' /\ jrnl'[k].s = jrnl'[m].s
  <2> SUFFICES ASSUME NEW m \in Lines', jrnl'[m].kind = "reconcile" PROVE \E k \in Lines' : k < m /\ IsCreate(k)' /\ jrnl'[k].s = jrnl'[m].s
    OBVIOUS
  <2>1. PICK k \in Lines : k < m /\ IsCreate(k) /\ jrnl[k].s = jrnl'[m].s
    <3>1. CASE m \in Lines
      BY <1>1, <3>1 DEF Written
    <3>2. CASE m = last
      BY <1>1, <3>2 DEF HasCreate
    <3> QED BY <1>1, <3>1, <3>2
  <2> QED BY <1>1, <2>1 DEF IsCreate
<1>6. \A k, m \in Lines' : (jrnl'[k].kind = "reconcile" /\ jrnl'[m].kind = "reconcile" /\ jrnl'[k].s = jrnl'[m].s) => k = m
  BY <1>1 DEF Written
<1> QED BY <1>3, <1>4, <1>5, <1>6 DEF Written

\* What was closed stays closed.
LEMMA StaysClosed == ASSUME NmTypes, NEW w \in JRec, AddsLine(w), NEW s, Closed(s) PROVE Closed(s)'
<1>1. PICK k \in Lines : IsEnd(k) /\ jrnl[k].s = s
  BY DEF Closed
<1>2. k \in Lines' /\ jrnl'[k] = jrnl[k]
  BY LineAdded
<1> QED BY <1>1, <1>2 DEF Closed, IsEnd

\* A serving service journals: whatever it adds leaves what earlier ones created accounted for.
LEMMA ServingAdds ==
    ASSUME NmTypes, JournalInv, serving = "up", NEW w \in JRec, AddsLine(w), w.serve = serveNo, UNCHANGED <<serveNo, nSess, serving>>,
           w.kind = "create" => (w.s <= nSess /\ ~HasCreate(w.s)), w.kind # "reconcile"
    PROVE  JournalInv'
<1>1. Written'
  BY WrittenAdds DEF JournalInv
<1>2. Settled'
  <2> SUFFICES ASSUME NEW k \in Lines', IsCreate(k)', jrnl'[k].serve < serveNo PROVE Closed(jrnl[k].s)'
    BY DEF Settled
  <2>0. serveNo \in Nat
    BY DEF NmTypes
  <2>1. k \in Lines /\ jrnl'[k] = jrnl[k]
    BY <2>0, LineAdded
  <2>2. Closed(jrnl[k].s)
    BY <2>1 DEF JournalInv, Settled, Owed, IsCreate
  <2>3. PICK s : s = jrnl[k].s
    OBVIOUS
  <2>4. Closed(s)'
    BY <2>2, <2>3, StaysClosed
  <2> QED BY <2>1, <2>3, <2>4
<1> QED BY <1>1, <1>2 DEF JournalInv, ToDo

LEMMA JournalRests == ASSUME JournalInv, UNCHANGED <<serving, serveNo, nSess, jrnl, todo>> PROVE JournalInv'
  BY DEF JournalInv, Written, Settled, ToDo, Owed, Closed, IsEnd, IsCreate, Lines, OpenSessions

\* A session one record names as created and no later record ends.
OpenAt(i, k) == k \in Lines /\ IsCreate(k) /\ jrnl[k].s = i /\ \A m \in Lines : m > k => ~(IsEnd(m) /\ jrnl[m].s = i)
LEMMA OpenIs == ASSUME NmTypes, NEW i \in Ids PROVE i \in OpenSessions <=> \E k \in Lines : OpenAt(i, k)
<1>1. DOMAIN jrnl = Lines
  BY DEF NmTypes, Lines
<1> QED BY <1>1 DEF OpenSessions, OpenAt, IsCreate, IsEnd

\* The sequence reconcile goes through holds each open session once.
LEMMA SeqOfSet ==
    ASSUME NEW S \in SUBSET Ids, NEW f, f = SetToSeq(S)
    PROVE  f \in Seq(Ids) /\ (\A j, m \in 1 .. Len(f) : j # m => f[j] # f[m]) /\ (\A j \in 1 .. Len(f) : f[j] \in S)
           /\ \A s \in S : \E j \in 1 .. Len(f) : f[j] = s
<1>1. IsFiniteSet(S)
  <2>1. IsFiniteSet(Ids)
    BY FS_Interval, NamesAssumption DEF Ids
  <2> QED BY <2>1, FS_Subset
<1>2. PICK c \in Nat : c = Cardinality(S) /\ ExistsBijection(1 .. c, S)
  BY <1>1, FS_CardinalityType
<1>3. \E g \in [1 .. c -> S] : IsInjective(g)
  BY <1>2 DEF ExistsBijection, Bijection, Injection
<1>4. f \in [1 .. c -> S] /\ IsInjective(f)
  BY Zenon, <1>2, <1>3 DEF SetToSeq
<1>5. f \in Injection(1 .. c, S)
  BY <1>4 DEF Injection
<1>6. Cardinality(1 .. c) = Cardinality(S)
  <2>1. Cardinality(1 .. c) = IF 1 > c THEN 0 ELSE c - 1 + 1
    BY FS_Interval
  <2> QED BY <1>2, <2>1
<1>7. f \in Surjection(1 .. c, S)
  BY <1>1, <1>5, <1>6, FS_Injection
<1>8. f \in Seq(S) /\ Len(f) = c
  BY <1>4
<1>9. f \in Seq(Ids)
  BY <1>8
<1> QED BY <1>4, <1>7, <1>8, <1>9 DEF IsInjective, Surjection

LEMMA LineTypes == ASSUME NmTypes, NEW k \in Lines PROVE jrnl[k] \in JRec /\ jrnl[k].s \in Ids /\ jrnl[k].serve \in Nat
<1>1. jrnl \in Seq(JRec) /\ k \in 1 .. Len(jrnl)
  BY DEF NmTypes, Lines
<1>2. PICK w \in JRec : w = jrnl[k]
  BY <1>1, ElementOfSeq
<1> QED BY <1>2 DEF JRec

LEMMA OpenKeeps == ASSUME NmInv, Open PROVE NmInv'
<1>0. /\ serving = "down" /\ serving' = "opening" /\ serveNo' = serveNo + 1 /\ todo' = SetToSeq(OpenSessions)
      /\ UNCHANGED <<sess, nSess, named, hostOps, creq, jrnl>> /\ NmTypes
  BY DEF Open, NmInv
<1>1. OpenSessions \in SUBSET Ids
  BY DEF OpenSessions
<1>2. /\ todo' \in Seq(Ids) /\ (\A j, m \in 1 .. Len(todo') : j # m => todo'[j] # todo'[m]) /\ (\A j \in 1 .. Len(todo') : todo'[j] \in OpenSessions)
      /\ \A s \in OpenSessions : \E j \in 1 .. Len(todo') : todo'[j] = s
  BY <1>0, <1>1, SeqOfSet
<1>3. NmTypes'
  BY <1>0, <1>2 DEF NmTypes
<1>4. OpenSessions' = OpenSessions /\ Lines' = Lines
  BY <1>0 DEF OpenSessions, Lines
<1>5. Written'
  <2>1. Written /\ serveNo \in Nat
    BY <1>0 DEF NmInv, JournalInv, NmTypes
  <2>2. ASSUME NEW k \in Lines PROVE jrnl[k].serve <= serveNo + 1 /\ (IsCreate(k) => jrnl[k].s <= nSess)
    <3>1. jrnl[k].serve \in Nat
      BY <1>0, LineTypes
    <3> QED BY <2>1, <3>1 DEF Written
  <2> QED BY <1>0, <1>4, <2>1, <2>2 DEF Written, IsCreate
<1>6. ToDo'
  BY <1>2, <1>4 DEF ToDo
<1>7. Settled'
  <2> SUFFICES ASSUME NEW k \in Lines, IsCreate(k) PROVE Closed(jrnl[k].s)' \/ Owed(jrnl[k].s)'
    BY <1>0, <1>4 DEF Settled, IsCreate
  <2>1. PICK i \in Ids : i = jrnl[k].s
    BY <1>0, LineTypes
  <2>2. CASE i \in OpenSessions
    BY <1>0, <1>2, <2>1, <2>2 DEF Owed
  <2>3. CASE i \notin OpenSessions
    <3>1. ~OpenAt(i, k)
      BY <1>0, <2>3, OpenIs
    <3>2. Closed(i)
      BY <2>1, <3>1 DEF OpenAt, Closed
    <3>3. Closed(i)'
      BY <1>0, <1>4, <3>2 DEF Closed, IsEnd
    <3> QED BY <1>0, <2>1, <3>3
  <2> QED BY <2>2, <2>3
<1>8. \A q \in Callers : creq[q].pc = "idle"
  BY <1>0 DEF NmInv, MakersInv, Caller
<1>9. \A q \in Callers : Caller(q)'
  BY <1>0, <1>8 DEF Caller, Making
<1>10. \A p, q \in Callers : Apart(p, q)'
  BY <1>0, <1>8 DEF Apart, Making
<1>11. \A i \in Ids : Backed(i)'
  <2> SUFFICES ASSUME NEW i \in Ids PROVE Backed(i)'
    OBVIOUS
  <2>1. sess[i] \in SRec /\ serveNo \in Nat /\ Backed(i)
    BY <1>0 DEF NmTypes, NmInv, MakersInv
  <2>2. sess[i].serve \in Nat
    BY <2>1 DEF SRec
  <2> QED BY <1>0, <2>1, <2>2 DEF Backed, Now
<1>12. CreateOnce'
  BY <1>0 DEF NmInv, MakersInv, CreateOnce, Running
<1> QED BY <1>3, <1>5, <1>6, <1>7, <1>9, <1>10, <1>11, <1>12 DEF NmInv, JournalInv, MakersInv

\* The callers and the programs, when nothing of them changes.
LEMMA MakersRest ==
    ASSUME MakersInv, UNCHANGED <<sess, nSess, hostOps, creq, serveNo>>, serving' = serving \/ (serving = "opening" /\ serving' = "up"),
           \A s \in Ids : HasCreate(s)' => HasCreate(s), NmTypes
    PROVE  MakersInv'
<1>1. CASE serving' = serving
  <2>1. \A q \in Callers : Caller(q)'
    <3> SUFFICES ASSUME NEW q \in Callers PROVE Caller(q)'
      OBVIOUS
    <3>1. PICK t : t = creq[q].t
      OBVIOUS
    <3>2. creq[q].pc = "journal" => ~HasCreate(t)'
      <4> SUFFICES ASSUME creq[q].pc = "journal" PROVE ~HasCreate(t)'
        OBVIOUS
      <4>1. t \in Ids /\ ~HasCreate(t)
        BY <3>1, NamesAssumption DEF MakersInv, Caller, NmTypes, CReq, Ids
      <4> QED BY <4>1
    <3> QED BY <1>1, <3>1, <3>2 DEF MakersInv, Caller, Making
  <2>2. \A p, q \in Callers : Apart(p, q)'
    BY DEF MakersInv, Apart, Making
  <2>3. \A i \in Ids : Backed(i)'
    BY <1>1 DEF MakersInv, Backed, Now, Running, Makes
  <2> QED BY <2>1, <2>2, <2>3 DEF MakersInv, CreateOnce, Running
<1>2. CASE serving = "opening" /\ serving' = "up"
  <2>0. \A q \in Callers : creq[q].pc = "idle"
    BY <1>2 DEF MakersInv, Caller
  <2>1. \A q \in Callers : Caller(q)'
    BY <2>0 DEF Caller, Making
  <2>2. \A p, q \in Callers : Apart(p, q)'
    BY DEF MakersInv, Apart, Making
  <2>3. \A i \in Ids : Backed(i)'
    <3> SUFFICES ASSUME NEW i \in Ids PROVE Backed(i)'
      OBVIOUS
    <3>1. Backed(i) /\ sess[i].serve \in Nat /\ serveNo \in Nat
      BY DEF MakersInv, NmTypes, SRec
    <3> QED BY <1>2, <3>1 DEF Backed, Now, Running
  <2> QED BY <2>1, <2>2, <2>3 DEF MakersInv, CreateOnce, Running
<1> QED BY <1>1, <1>2

LEMMA ReconcileKeeps == ASSUME NmInv, Reconcile PROVE NmInv'
<1>t. NmTypes
  BY DEF NmInv
<1>0. /\ serving = "opening" /\ todo # <<>> /\ todo' = Tail(todo)
      /\ UNCHANGED <<serving, serveNo, sess, nSess, named, hostOps, creq>>
      /\ jrnl' = Append(jrnl, [kind |-> "reconcile", s |-> Head(todo), serve |-> serveNo])
  BY DEF Reconcile, Journaled
<1>1. /\ todo \in Seq(Ids) /\ Len(todo) \in Nat /\ 1 \in 1 .. Len(todo) /\ Head(todo) = todo[1] /\ todo' \in Seq(Ids)
      /\ \A j \in 1 .. Len(todo') : j + 1 \in 1 .. Len(todo) /\ todo'[j] = todo[j + 1] /\ j + 1 # 1
      /\ \A j \in 1 .. Len(todo) : j = 1 \/ (j - 1 \in 1 .. Len(todo') /\ todo'[j - 1] = todo[j])
  BY <1>t, <1>0 DEF NmTypes
<1>2. PICK i \in Ids : i = Head(todo)
  BY <1>1
<1>3. PICK w \in JRec : w = [kind |-> "reconcile", s |-> i, serve |-> serveNo]
  BY <1>t DEF JRec, NmTypes
<1>4. w.kind = "reconcile" /\ w.s = i /\ w.serve = serveNo
  BY <1>3
<1>5. AddsLine(w)
  BY <1>0, <1>2, <1>3 DEF AddsLine
<1>6. /\ jrnl' \in Seq(JRec) /\ Len(jrnl) \in Nat /\ jrnl'[Len(jrnl) + 1] = w
      /\ \A k \in Lines : k \in Lines' /\ jrnl'[k] = jrnl[k] /\ k < Len(jrnl) + 1
      /\ \A k \in Lines' : k \in Lines \/ k = Len(jrnl) + 1
      /\ Len(jrnl) + 1 \in Lines'
  BY <1>t, <1>5, LineAdded
<1>7. NmTypes'
  BY <1>t, <1>0, <1>1, <1>6 DEF NmTypes
<1>8. todo[1] = i /\ i \in OpenSessions
  BY <1>0, <1>1, <1>2 DEF NmInv, JournalInv, ToDo
<1>9. PICK kk \in Lines : OpenAt(i, kk)
  BY <1>t, <1>8, OpenIs
<1>10. HasCreate(i) /\ \A m \in Lines : ~(jrnl[m].kind = "reconcile" /\ jrnl[m].s = i)
  <2>1. HasCreate(i)
    BY <1>9 DEF HasCreate, OpenAt
  <2>2. ASSUME NEW m \in Lines, jrnl[m].kind = "reconcile", jrnl[m].s = i PROVE FALSE
    <3>1. PICK k \in Lines : k < m /\ IsCreate(k) /\ jrnl[k].s = jrnl[m].s
      BY <2>2 DEF NmInv, JournalInv, Written
    <3>2. k = kk
      BY <1>9, <2>2, <3>1 DEF NmInv, JournalInv, Written, OpenAt
    <3>3. k \in Int /\ m \in Int
      BY DEF Lines
    <3> QED BY <1>9, <2>2, <3>1, <3>2, <3>3 DEF OpenAt, IsEnd
  <2> QED BY <2>1, <2>2
<1>11. Written'
  <2>1. Written
    BY DEF NmInv, JournalInv
  <2> QED BY <1>t, <1>0, <1>4, <1>5, <1>10, <2>1, WrittenAdds
<1>12. Closed(i)'
  BY <1>4, <1>6 DEF Closed, IsEnd
<1>13. Settled'
  <2> SUFFICES ASSUME NEW k \in Lines', IsCreate(k)', jrnl'[k].serve < serveNo PROVE Closed(jrnl[k].s)' \/ Owed(jrnl[k].s)'
    BY <1>0 DEF Settled
  <2>1. k \in Lines /\ jrnl'[k] = jrnl[k]
    BY <1>4, <1>6 DEF IsCreate
  <2>2. PICK s : s = jrnl[k].s
    OBVIOUS
  <2>3. Closed(s) \/ Owed(s)
    BY <1>0, <2>1, <2>2 DEF NmInv, JournalInv, Settled, IsCreate
  <2>4. CASE Closed(s)
    <3>1. Closed(s)'
      BY <1>t, <1>5, <2>4, StaysClosed
    <3> QED BY <2>1, <2>2, <3>1
  <2>5. CASE Owed(s)
    <3>1. PICK j \in 1 .. Len(todo) : todo[j] = s
      BY <2>5 DEF Owed
    <3>2. CASE j = 1
      BY <1>8, <1>12, <2>1, <2>2, <3>1, <3>2
    <3>3. CASE j # 1
      <4>1. PICK n \in 1 .. Len(todo') : n = j - 1 /\ todo'[n] = s
        BY <1>1, <3>1, <3>3
      <4> QED BY <1>0, <2>1, <2>2, <4>1 DEF Owed
    <3> QED BY <3>2, <3>3
  <2> QED BY <2>3, <2>4, <2>5
<1>14. ToDo'
  <2>1. \A j, m \in 1 .. Len(todo') : j # m => todo'[j] # todo'[m]
    <3> SUFFICES ASSUME NEW j \in 1 .. Len(todo'), NEW m \in 1 .. Len(todo'), j # m PROVE todo'[j] # todo'[m]
      OBVIOUS
    <3>1. j + 1 # m + 1
      OBVIOUS
    <3> QED BY <1>0, <1>1, <3>1 DEF NmInv, JournalInv, ToDo
  <2>2. ASSUME NEW j \in 1 .. Len(todo') PROVE todo'[j] \in OpenSessions'
    <3>1. PICK n \in Ids : n = todo'[j] /\ n = todo[j + 1]
      BY <1>1
    <3>2. n \in OpenSessions /\ n # i
      BY <1>0, <1>1, <1>8, <3>1 DEF NmInv, JournalInv, ToDo
    <3>3. PICK k \in Lines : OpenAt(n, k)
      BY <1>t, <3>2, OpenIs
    <3>4. OpenAt(n, k)'
      BY <1>4, <1>6, <3>2, <3>3 DEF OpenAt, IsCreate, IsEnd
    <3>5. n \in OpenSessions' <=> \E x \in Lines' : OpenAt(n, x)'
      <4>1. DOMAIN jrnl' = Lines'
        BY <1>6 DEF Lines
      <4> QED BY <4>1 DEF OpenSessions, OpenAt, IsCreate, IsEnd
    <3> QED BY <1>6, <3>1, <3>3, <3>4, <3>5
  <2> QED BY <2>1, <2>2 DEF ToDo
<1>15. \A s \in Ids : HasCreate(s)' => HasCreate(s)
  BY <1>4, <1>6 DEF HasCreate, IsCreate
<1>16. MakersInv'
  BY <1>t, <1>0, <1>15, MakersRest DEF NmInv
<1> QED BY <1>7, <1>11, <1>13, <1>14, <1>16 DEF NmInv, JournalInv

LEMMA ServeKeeps == ASSUME NmInv, Serve PROVE NmInv'
<1>0. serving = "opening" /\ serving' = "up" /\ todo = <<>> /\ UNCHANGED <<serveNo, todo, sess, nSess, named, hostOps, creq, jrnl>> /\ NmTypes
  BY DEF Serve, NmInv
<1>1. NmTypes'
  BY <1>0 DEF NmTypes
<1>2. \A s \in Ids : HasCreate(s)' => HasCreate(s)
  BY <1>0 DEF HasCreate, IsCreate, Lines
<1>3. MakersInv'
  BY <1>0, <1>2, MakersRest DEF NmInv
<1>4. Written' /\ ToDo'
  BY <1>0 DEF NmInv, JournalInv, Written, ToDo, IsCreate, Lines
<1>5. Settled'
  <2>1. \A s : ~Owed(s)
    BY <1>0 DEF Owed
  <2> QED BY <1>0, <2>1 DEF NmInv, JournalInv, Settled, Closed, IsEnd, IsCreate, Lines
<1> QED BY <1>1, <1>3, <1>4, <1>5 DEF NmInv, JournalInv

LEMMA IdleCaller == IdleCreate \in CReq /\ IdleCreate.pc = "idle"
  BY NamesAssumption DEF IdleCreate, CReq, CSteps

LEMMA CrashKeeps == ASSUME NmInv, Crash PROVE NmInv'
<1>0. /\ serving' = "down" /\ todo' = <<>> /\ named' = 0 /\ hostOps' = [o \in CreateOps |-> 0] /\ creq' = [q \in Callers |-> IdleCreate]
      /\ UNCHANGED <<serveNo, sess, nSess, jrnl>> /\ NmTypes
  BY DEF Crash, NmInv
<1>1. NmTypes'
  BY <1>0, IdleCaller, NamesAssumption DEF NmTypes
<1>2. JournalInv'
  BY <1>0 DEF NmInv, JournalInv, Written, Settled, ToDo, IsCreate, Lines
<1>3. \A q \in Callers : creq'[q].pc = "idle"
  BY <1>0, IdleCaller
<1>4. \A q \in Callers : Caller(q)'
  BY <1>3 DEF Caller, Making
<1>5. \A p, q \in Callers : Apart(p, q)'
  BY <1>3 DEF Apart, Making
<1>6. \A i \in Ids : Backed(i)'
  BY <1>0 DEF NmInv, MakersInv, Backed, Now
<1>7. CreateOnce'
  BY <1>0 DEF NmInv, MakersInv, CreateOnce, Running
<1> QED BY <1>1, <1>2, <1>4, <1>5, <1>6, <1>7 DEF NmInv, MakersInv

\* The programs, when none starts: what each is stays, and it runs only if it ran.
SessKept ==
    /\ sess' \in [Ids -> SRec]
    /\ \A i \in Ids : /\ sess'[i].op = sess[i].op /\ sess'[i].serve = sess[i].serve
                      /\ sess'[i].st = "running" => sess[i].st = "running"
                      /\ sess'[i].st = "none" <=> sess[i].st = "none"
LEMMA KeptSame == ASSUME NmTypes, UNCHANGED sess PROVE SessKept
  BY DEF SessKept, NmTypes
LEMMA KeptEnds ==
    ASSUME NmTypes, NEW i \in Ids, NEW st \in {"ending", "exited"}, sess' = [sess EXCEPT ![i].st = st], sess[i].st \in {"running", "ending"}
    PROVE  SessKept
<1>1. PICK d \in SRec : d = sess[i]
  BY DEF NmTypes
<1>2. PICK e : e = [d EXCEPT !.st = st]
  OBVIOUS
<1>3. e \in SRec /\ e.op = d.op /\ e.serve = d.serve /\ e.st = st
  BY <1>2 DEF SRec
<1>4. sess' = [sess EXCEPT ![i] = e]
  BY <1>1, <1>2
<1>5. sess' \in [Ids -> SRec] /\ sess'[i] = e /\ \A k \in Ids : k # i => sess'[k] = sess[k]
  BY <1>3, <1>4 DEF NmTypes
<1> QED BY <1>1, <1>3, <1>5 DEF SessKept
\* A program that runs is ended, another is left as it is.
LEMMA KeptStops ==
    ASSUME NmTypes, NEW i \in Ids, sess' = [sess EXCEPT ![i].st = IF @ = "running" THEN "ending" ELSE @]
    PROVE  SessKept
<1>1. PICK d \in SRec : d = sess[i]
  BY DEF NmTypes
<1>2. PICK e : e = [d EXCEPT !.st = IF d.st = "running" THEN "ending" ELSE d.st]
  OBVIOUS
<1>3. e \in SRec /\ e.op = d.op /\ e.serve = d.serve /\ e.st = IF d.st = "running" THEN "ending" ELSE d.st
  BY <1>2 DEF SRec
<1>4. sess' = [sess EXCEPT ![i] = e]
  BY <1>1, <1>2
<1>5. sess' \in [Ids -> SRec] /\ sess'[i] = e /\ \A k \in Ids : k # i => sess'[k] = sess[k]
  BY <1>3, <1>4 DEF NmTypes
<1> QED BY <1>1, <1>3, <1>5 DEF SessKept
LEMMA KeptNames ==
    ASSUME NmTypes, NEW i \in Ids, sess' = [sess EXCEPT ![i].named = TRUE]
    PROVE  SessKept
<1>1. PICK d \in SRec : d = sess[i]
  BY DEF NmTypes
<1>2. PICK e : e = [d EXCEPT !.named = TRUE]
  OBVIOUS
<1>3. e \in SRec /\ e.op = d.op /\ e.serve = d.serve /\ e.st = d.st
  BY <1>2 DEF SRec
<1>4. sess' = [sess EXCEPT ![i] = e]
  BY <1>1, <1>2
<1>5. sess' \in [Ids -> SRec] /\ sess'[i] = e /\ \A k \in Ids : k # i => sess'[k] = sess[k]
  BY <1>3, <1>4 DEF NmTypes
<1> QED BY <1>1, <1>3, <1>5 DEF SessKept

LEMMA OnceKeeps == ASSUME CreateOnce, SessKept PROVE CreateOnce'
<1>1. \A i \in Ids : Running(i)' => Running(i)
  BY DEF Running, SessKept
<1> QED BY <1>1 DEF CreateOnce, SessKept

\* A request moves, and makes nothing before or after.
CMoved(q, r) == creq' = [creq EXCEPT ![q] = r]
LEMMA CMove ==
    ASSUME NmTypes, NEW q \in Callers, NEW r \in CReq, CMoved(q, r)
    PROVE  creq' \in [Callers -> CReq] /\ creq'[q] = r /\ \A p \in Callers : p # q => creq'[p] = creq[p]
  BY DEF NmTypes, CMoved

LEMMA CallerMoves ==
    ASSUME NmTypes, MakersInv, NEW q \in Callers, NEW r \in CReq, CMoved(q, r), ~Making(q), r.pc \notin {"start", "journal"},
           r.pc \notin {"idle", "stop"} => r.op \in CreateOps, r.pc \in {"made", "publish", "stop"} => r.t # 0,
           serving = "up", UNCHANGED <<serving, serveNo, nSess, hostOps>>, SessKept, \A s \in Ids : HasCreate(s)' => HasCreate(s)
    PROVE  MakersInv'
<1>1. creq'[q] = r /\ \A p \in Callers : p # q => creq'[p] = creq[p]
  BY CMove
<1>2. \A p \in Callers : Making(p)' <=> Making(p)
  BY <1>1 DEF Making
<1>3. \A p \in Callers : Caller(p)'
  <2> SUFFICES ASSUME NEW p \in Callers PROVE Caller(p)'
    OBVIOUS
  <2>1. CASE p = q
    BY <1>1, <1>2, <2>1 DEF Caller
  <2>2. CASE p # q
    <3>0. Caller(p) /\ creq'[p] = creq[p]
      BY <1>1, <2>2 DEF MakersInv
    <3>1. PICK t : t = creq[p].t
      OBVIOUS
    <3>2. creq[p].pc = "journal" => ~HasCreate(t)'
      <4> SUFFICES ASSUME creq[p].pc = "journal" PROVE ~HasCreate(t)'
        OBVIOUS
      <4>1. t \in Ids /\ ~HasCreate(t)
        BY <3>0, <3>1, NamesAssumption DEF Caller, NmTypes, CReq, Ids
      <4> QED BY <4>1
    <3>3. Making(p)' => hostOps'[creq'[p].op] = -1
      BY <1>2, <3>0 DEF Caller
    <3> QED BY <3>0, <3>1, <3>2, <3>3 DEF Caller
  <2> QED BY <2>1, <2>2
<1>4. \A p, k \in Callers : Apart(p, k)'
  <2> SUFFICES ASSUME NEW p \in Callers, NEW k \in Callers PROVE Apart(p, k)'
    OBVIOUS
  <2>1. (Making(p)' => (creq'[p] = creq[p] /\ Making(p))) /\ (Making(k)' => (creq'[k] = creq[k] /\ Making(k)))
    BY <1>1, <1>2
  <2>2. (creq'[p].pc = "journal" => Making(p)') /\ (creq'[k].pc = "journal" => Making(k)')
    BY DEF Making
  <2>3. Apart(p, k)
    BY DEF MakersInv
  <2> QED BY <2>1, <2>2, <2>3 DEF Apart
<1>5. \A i \in Ids : Backed(i)'
  <2> SUFFICES ASSUME NEW i \in Ids PROVE Backed(i)'
    OBVIOUS
  <2>1. Backed(i) /\ (Now(i)' => Now(i))
    BY DEF MakersInv, Now, Running, SessKept
  <2>2. \A p \in Callers : Makes(p, i) => Makes(p, i)'
    <3> SUFFICES ASSUME NEW p \in Callers, Makes(p, i) PROVE Makes(p, i)'
      OBVIOUS
    <3>1. p # q
      BY DEF Makes, Making
    <3> QED BY <1>1, <3>1 DEF Makes, SessKept
  <2> QED BY <2>1, <2>2 DEF Backed, SessKept
<1>6. CreateOnce'
  BY OnceKeeps DEF MakersInv
<1> QED BY <1>3, <1>4, <1>5, <1>6 DEF MakersInv

LEMMA SameCreates == ASSUME UNCHANGED jrnl PROVE \A s \in Ids : HasCreate(s)' => HasCreate(s)
  BY DEF HasCreate, IsCreate, Lines

LEMMA QuietMove ==
    ASSUME NmInv, NEW q \in Callers, NEW r \in CReq, CMoved(q, r), ~Making(q), r.pc \notin {"start", "journal"},
           r.pc \notin {"idle", "stop"} => r.op \in CreateOps, r.pc \in {"made", "publish", "stop"} => r.t # 0,
           serving = "up", UNCHANGED <<serving, serveNo, nSess, hostOps, jrnl, todo, named>>, SessKept
    PROVE  NmInv'
<1>1. \A s \in Ids : HasCreate(s)' => HasCreate(s)
  BY SameCreates
<1>2. MakersInv'
  BY <1>1, CallerMoves DEF NmInv
<1>3. JournalInv'
  BY JournalRests DEF NmInv
<1>4. NmTypes'
  BY CMove DEF NmInv, NmTypes, SessKept
<1> QED BY <1>2, <1>3, <1>4 DEF NmInv

\* What is said of a request at its step.
LEMMA CallerAt ==
    ASSUME NmInv, NEW q \in Callers
    PROVE  /\ creq[q] \in CReq /\ creq[q].pc \notin {"idle", "stop"} => creq[q].op \in CreateOps
           /\ creq[q].pc \in {"journal", "made", "publish", "stop"} => creq[q].t \in Ids /\ creq[q].t # 0
<1>1. creq[q] \in CReq /\ Caller(q)
  BY DEF NmInv, NmTypes, MakersInv
<1>2. creq[q].t \in 0 .. MaxSess
  BY <1>1 DEF CReq
<1> QED BY <1>1, <1>2, NamesAssumption DEF Caller, Ids

LEMMA QuietSteps ==
    ASSUME NmInv, NEW q \in Callers,
           (\E o \in CreateOps : ReserveName(q, o)) \/ ListenState(q) \/ CheckName(q) \/ StopBegin(q) \/ StopEnd(q)
    PROVE  NmInv'
<1>t. NmTypes
  BY DEF NmInv
<1>d. PICK d \in CReq : d = creq[q]
  BY <1>t DEF NmTypes
<1>1. ASSUME NEW o \in CreateOps, ReserveName(q, o) PROVE NmInv'
  <2>1. PICK r : r \in {[pc |-> "create", op |-> o, retry |-> TRUE, t |-> 0], [pc |-> "reserved", op |-> o, retry |-> FALSE, t |-> 0]} /\ CMoved(q, r)
    BY <1>1 DEF ReserveName, CMoved
  <2>2. r \in CReq /\ r.pc \in {"create", "reserved"} /\ r.op = o
    <3>0. 0 \in 0 .. MaxSess
      BY NamesAssumption
    <3>1. CASE r = [pc |-> "create", op |-> o, retry |-> TRUE, t |-> 0]
      BY <3>0, <3>1 DEF CReq, CSteps
    <3>2. CASE r = [pc |-> "reserved", op |-> o, retry |-> FALSE, t |-> 0]
      BY <3>0, <3>2 DEF CReq, CSteps
    <3> QED BY <2>1, <3>1, <3>2
  <2>3. UNCHANGED <<serving, serveNo, nSess, hostOps, jrnl, todo, named, sess>> /\ serving = "up" /\ ~Making(q)
    BY <1>1 DEF ReserveName, At, Making
  <2> QED BY <1>t, <2>1, <2>2, <2>3, KeptSame, QuietMove
<1>2. CASE ListenState(q)
  <2>0. UNCHANGED <<serving, serveNo, nSess, hostOps, jrnl, todo, named, sess>> /\ serving = "up" /\ d.pc = "reserved" /\ ~Making(q)
    BY <1>2, <1>d DEF ListenState, At, Making
  <2>1. CASE CMoved(q, IdleCreate)
    BY <1>t, <2>0, <2>1, IdleCaller, KeptSame, QuietMove
  <2>2. CASE creq' = [creq EXCEPT ![q].pc = "create"]
    <3>1. PICK r : r = [d EXCEPT !.pc = "create"]
      OBVIOUS
    <3>2. r \in CReq /\ r.pc = "create" /\ r.op = d.op
      BY <3>1 DEF CReq, CSteps
    <3>3. CMoved(q, r) /\ r.op \in CreateOps
      BY <1>d, <2>0, <2>2, <3>1, <3>2, CallerAt DEF CMoved
    <3> QED BY <1>t, <2>0, <3>2, <3>3, KeptSame, QuietMove
  <2> QED BY <1>2, <2>1, <2>2 DEF ListenState, Answered, CMoved
<1>3. CASE CheckName(q)
  <2>0. UNCHANGED <<serving, serveNo, nSess, hostOps, jrnl, todo, named>> /\ serving = "up" /\ d.pc = "made" /\ ~Making(q)
    BY <1>3, <1>d DEF CheckName, At, Making
  <2>i. PICK i \in Ids : i = creq[q].t /\ i # 0
    BY <1>d, <2>0, CallerAt
  <2>1. CASE CMoved(q, IdleCreate) /\ sess' = [sess EXCEPT ![i].st = IF @ = "running" THEN "ending" ELSE @]
    BY <1>t, <2>0, <2>1, IdleCaller, KeptStops, QuietMove
  <2>2. CASE creq' = [creq EXCEPT ![q].pc = "publish"] /\ UNCHANGED sess
    <3>1. PICK r : r = [d EXCEPT !.pc = "publish"]
      OBVIOUS
    <3>2. r \in CReq /\ r.pc = "publish" /\ r.op = d.op /\ r.t = d.t
      BY <3>1 DEF CReq, CSteps
    <3>3. CMoved(q, r) /\ r.op \in CreateOps /\ r.t # 0
      BY <1>d, <2>0, <2>2, <2>i, <3>1, <3>2, CallerAt DEF CMoved
    <3> QED BY <1>t, <2>0, <2>2, <3>2, <3>3, KeptSame, QuietMove
  <2> QED BY <1>3, <2>1, <2>2, <2>i DEF CheckName, Answered, CMoved
<1>4. CASE StopBegin(q)
  <2>1. PICK n \in 0 .. MaxSess : n = named /\ n # 0
    BY <1>t, <1>4 DEF StopBegin, NmTypes
  <2>2. PICK r : r = [IdleCreate EXCEPT !.pc = "stop", !.t = n]
    OBVIOUS
  <2>3. r \in CReq /\ r.pc = "stop" /\ r.t # 0
    BY <2>1, <2>2 DEF IdleCreate, CReq, CSteps
  <2>4. CMoved(q, r) /\ UNCHANGED <<serving, serveNo, nSess, hostOps, jrnl, todo, named, sess>> /\ serving = "up" /\ ~Making(q)
    BY <1>4, <2>1, <2>2 DEF StopBegin, At, Making, CMoved
  <2> QED BY <1>t, <2>3, <2>4, KeptSame, QuietMove
<1>5. CASE StopEnd(q)
  <2>0. /\ UNCHANGED <<serving, serveNo, nSess, hostOps, jrnl, todo, named>> /\ serving = "up" /\ d.pc = "stop" /\ ~Making(q)
        /\ CMoved(q, IdleCreate)
    BY <1>5, <1>d DEF StopEnd, At, Making, CMoved
  <2>i. PICK i \in Ids : i = creq[q].t
    BY <1>d, <2>0, CallerAt
  <2>1. sess' = [sess EXCEPT ![i].st = IF @ = "running" THEN "ending" ELSE @]
    BY <1>5, <2>i DEF StopEnd
  <2> QED BY <1>t, <2>0, <2>1, IdleCaller, KeptStops, QuietMove
<1> QED BY <1>1, <1>2, <1>3, <1>4, <1>5

LEMMA PublishKeeps == ASSUME NmInv, NEW q \in Callers, Publish(q) PROVE NmInv'
<1>t. NmTypes
  BY DEF NmInv
<1>0. /\ serving = "up" /\ creq[q].pc = "publish" /\ ~Making(q) /\ CMoved(q, IdleCreate)
      /\ UNCHANGED <<serving, serveNo, nSess, hostOps, todo>> /\ named' = creq[q].t
      /\ sess' = [sess EXCEPT ![creq[q].t].named = TRUE]
      /\ jrnl' = Append(jrnl, [kind |-> "name", s |-> creq[q].t, serve |-> serveNo])
  BY DEF Publish, At, Making, CMoved, Journaled
<1>i. PICK i \in Ids : i = creq[q].t
  BY <1>0, CallerAt
<1>1. SessKept
  BY <1>t, <1>0, <1>i, KeptNames
<1>2. PICK w \in JRec : w = [kind |-> "name", s |-> i, serve |-> serveNo]
  BY <1>t DEF JRec, NmTypes
<1>3. w.kind = "name" /\ w.serve = serveNo /\ AddsLine(w)
  BY <1>0, <1>i, <1>2 DEF AddsLine
<1>4. JournalInv'
  BY <1>t, <1>0, <1>3, ServingAdds DEF NmInv
<1>5. \A s \in Ids : HasCreate(s)' => HasCreate(s)
  BY <1>t, <1>3, LineAdded DEF HasCreate, IsCreate
<1>6. MakersInv'
  BY <1>t, <1>0, <1>1, <1>5, IdleCaller, CallerMoves DEF NmInv
<1>7. NmTypes'
  <2>1. creq' \in [Callers -> CReq] /\ jrnl' \in Seq(JRec) /\ named' \in 0 .. MaxSess
    BY <1>t, <1>0, <1>3, <1>i, IdleCaller, CMove, LineAdded, NamesAssumption DEF Ids
  <2> QED BY <1>t, <1>0, <1>1, <2>1 DEF NmTypes, SessKept
<1> QED BY <1>4, <1>6, <1>7 DEF NmInv

LEMMA SessionsMove ==
    ASSUME NmTypes, MakersInv, UNCHANGED <<creq, serving, serveNo, nSess, hostOps>>, SessKept, \A s \in Ids : HasCreate(s)' => HasCreate(s)
    PROVE  MakersInv'
<1>1. \A p \in Callers : Caller(p)'
  <2> SUFFICES ASSUME NEW p \in Callers PROVE Caller(p)'
    OBVIOUS
  <2>1. PICK t : t = creq[p].t
    OBVIOUS
  <2>2. creq[p].pc = "journal" => ~HasCreate(t)'
    <3> SUFFICES ASSUME creq[p].pc = "journal" PROVE ~HasCreate(t)'
      OBVIOUS
    <3>1. t \in Ids /\ ~HasCreate(t)
      BY <2>1, NamesAssumption DEF MakersInv, Caller, NmTypes, CReq, Ids
    <3> QED BY <3>1
  <2> QED BY <2>1, <2>2 DEF MakersInv, Caller, Making
<1>2. \A p, k \in Callers : Apart(p, k)'
  BY DEF MakersInv, Apart, Making
<1>3. \A i \in Ids : Backed(i)'
  <2> SUFFICES ASSUME NEW i \in Ids PROVE Backed(i)'
    OBVIOUS
  <2>1. Backed(i) /\ (Now(i)' => Now(i))
    BY DEF MakersInv, Now, Running, SessKept
  <2>2. \A p \in Callers : Makes(p, i) => Makes(p, i)'
    BY DEF Makes, SessKept
  <2> QED BY <2>1, <2>2 DEF Backed, SessKept
<1>4. CreateOnce'
  BY OnceKeeps DEF MakersInv
<1> QED BY <1>1, <1>2, <1>3, <1>4 DEF MakersInv

LEMMA EndsKeep == ASSUME NmInv, NEW i \in Ids, SessionEnds(i) \/ JournalExit(i) PROVE NmInv'
<1>t. NmTypes
  BY DEF NmInv
<1>1. CASE SessionEnds(i)
  <2>1. UNCHANGED <<serving, serveNo, todo, nSess, named, hostOps, creq, jrnl>> /\ sess' = [sess EXCEPT ![i].st = "ending"] /\ sess[i].st = "running"
    BY <1>1 DEF SessionEnds
  <2>2. SessKept
    BY <1>t, <2>1, KeptEnds
  <2>3. MakersInv' /\ JournalInv'
    BY <1>t, <2>1, <2>2, SameCreates, SessionsMove, JournalRests DEF NmInv
  <2> QED BY <1>t, <2>1, <2>2, <2>3 DEF NmInv, NmTypes, SessKept
<1>2. CASE JournalExit(i)
  <2>1. /\ UNCHANGED <<serving, serveNo, todo, nSess, named, hostOps, creq>> /\ sess' = [sess EXCEPT ![i].st = "exited"] /\ sess[i].st = "ending"
        /\ serving = "up" /\ jrnl' = Append(jrnl, [kind |-> "exit", s |-> i, serve |-> serveNo])
    BY <1>2 DEF JournalExit, Journaled
  <2>2. SessKept
    BY <1>t, <2>1, KeptEnds
  <2>3. PICK w \in JRec : w = [kind |-> "exit", s |-> i, serve |-> serveNo]
    BY <1>t DEF JRec, NmTypes
  <2>4. w.kind = "exit" /\ w.serve = serveNo /\ AddsLine(w)
    BY <2>1, <2>3 DEF AddsLine
  <2>5. JournalInv'
    BY <1>t, <2>1, <2>4, ServingAdds DEF NmInv
  <2>6. \A s \in Ids : HasCreate(s)' => HasCreate(s)
    BY <1>t, <2>4, LineAdded DEF HasCreate, IsCreate
  <2>7. MakersInv'
    BY <1>t, <2>1, <2>2, <2>6, SessionsMove DEF NmInv
  <2>8. jrnl' \in Seq(JRec)
    BY <1>t, <2>4, LineAdded
  <2> QED BY <1>t, <2>1, <2>2, <2>5, <2>7, <2>8 DEF NmInv, NmTypes, SessKept
<1> QED BY <1>1, <1>2

LEMMA PruneExitedKeeps == ASSUME NmInv, PruneExited PROVE NmInv'
<1>1. UNCHANGED <<serving, serveNo, todo, sess, nSess, hostOps, creq, jrnl>> /\ named' = 0 /\ NmTypes
  BY DEF PruneExited, NmInv
<1>2. MakersInv' /\ JournalInv'
  BY <1>1, SameCreates, MakersRest, JournalRests DEF NmInv
<1> QED BY <1>1, <1>2, NamesAssumption DEF NmInv, NmTypes

\* The host marks an operation as starting: nobody else makes it, and no program of it runs.
LEMMA HostCreateKeeps == ASSUME NmInv, NEW q \in Callers, HostCreate(q) PROVE NmInv'
<1>t. NmTypes
  BY DEF NmInv
<1>d. PICK d \in CReq : d = creq[q]
  BY <1>t DEF NmTypes
<1>0. UNCHANGED <<serving, serveNo, todo, sess, nSess, named, jrnl>> /\ serving = "up" /\ d.pc = "create" /\ ~Making(q)
  BY <1>d DEF HostCreate, At, Making
<1>o. PICK o \in CreateOps : o = creq[q].op /\ o = d.op
  BY <1>d, <1>0, CallerAt
<1>1. CASE CMoved(q, IdleCreate) /\ UNCHANGED hostOps
  BY <1>t, <1>0, <1>1, IdleCaller, KeptSame, QuietMove
<1>2. CASE hostOps[o] = 0 /\ hostOps' = [hostOps EXCEPT ![o] = -1] /\ creq' = [creq EXCEPT ![q].pc = "start"]
  <2>1. PICK r : r = [d EXCEPT !.pc = "start"]
    OBVIOUS
  <2>2. r \in CReq /\ r.pc = "start" /\ r.op = o
    BY <1>o, <2>1 DEF CReq, CSteps
  <2>3. CMoved(q, r)
    BY <1>d, <1>2, <2>1 DEF CMoved
  <2>4. creq' \in [Callers -> CReq] /\ creq'[q] = r /\ \A p \in Callers : p # q => creq'[p] = creq[p]
    BY <1>t, <2>2, <2>3, CMove
  <2>5. hostOps' \in [CreateOps -> Int] /\ hostOps'[o] = -1 /\ \A x \in CreateOps : x # o => hostOps'[x] = hostOps[x]
    BY <1>t, <1>2 DEF NmTypes
  <2>6. \A p \in Callers : Making(p) => (creq[p].op \in CreateOps /\ creq[p].op # o /\ p # q)
    <3> SUFFICES ASSUME NEW p \in Callers, Making(p) PROVE creq[p].op \in CreateOps /\ creq[p].op # o /\ p # q
      OBVIOUS
    <3>1. Caller(p)
      BY DEF NmInv, MakersInv
    <3> QED BY <1>0, <1>2, <3>1 DEF Caller, Making
  <2>7. \A p \in Callers : Caller(p)'
    <3> SUFFICES ASSUME NEW p \in Callers PROVE Caller(p)'
      OBVIOUS
    <3>1. CASE p = q
      BY <1>0, <2>2, <2>4, <2>5, <3>1 DEF Caller
    <3>2. CASE p # q
      <4>1. Caller(p) /\ creq'[p] = creq[p] /\ (Making(p)' <=> Making(p))
        BY <2>4, <3>2 DEF NmInv, MakersInv, Making
      <4>2. HasCreate(creq[p].t)' <=> HasCreate(creq[p].t)
        BY <1>0, <4>1 DEF HasCreate, IsCreate, Lines
      <4> QED BY <1>0, <2>5, <2>6, <4>1, <4>2 DEF Caller
    <3> QED BY <3>1, <3>2
  <2>8. \A p, k \in Callers : Apart(p, k)'
    <3> SUFFICES ASSUME NEW p \in Callers, NEW k \in Callers, p # k PROVE Apart(p, k)'
      BY DEF Apart
    <3>1. CASE p = q
      BY <2>2, <2>4, <2>6, <3>1 DEF Apart, Making
    <3>2. CASE k = q
      BY <2>2, <2>4, <2>6, <3>2 DEF Apart, Making
    <3>3. CASE p # q /\ k # q
      BY <2>4, <3>3 DEF NmInv, MakersInv, Apart, Making
    <3> QED BY <3>1, <3>2, <3>3
  <2>9. \A i \in Ids : Backed(i)'
    <3> SUFFICES ASSUME NEW i \in Ids PROVE Backed(i)'
      OBVIOUS
    <3>1. Backed(i) /\ (Now(i)' <=> Now(i))
      BY <1>0 DEF NmInv, MakersInv, Now, Running
    <3>2. \A p \in Callers : Makes(p, i) => (Makes(p, i)' /\ sess[i].op # o)
      BY <1>0, <2>4, <2>6 DEF Makes, Making
    <3>3. i # 0
      BY NamesAssumption DEF Ids
    <3>4. Now(i) => (sess[i].op \in CreateOps /\ sess[i].op # o)
      BY <1>2, <3>1, <3>2, <3>3 DEF Backed
    <3> QED BY <1>0, <2>5, <3>1, <3>2, <3>4 DEF Backed
  <2>10. CreateOnce'
    BY <1>0 DEF NmInv, MakersInv, CreateOnce, Running
  <2>11. JournalInv'
    BY <1>0, JournalRests DEF NmInv
  <2>12. NmTypes'
    BY <1>t, <1>0, <2>4, <2>5 DEF NmTypes
  <2> QED BY <2>7, <2>8, <2>9, <2>10, <2>11, <2>12 DEF NmInv, MakersInv
<1> QED BY <1>1, <1>2, <1>o DEF HostCreate, Answered, CMoved

\* The one request that makes an operation's session, and no program of it running yet.
LEMMA StartsAlone ==
    ASSUME NmInv, NEW q \in Callers, creq[q].pc = "start"
    PROVE  /\ creq[q].op \in CreateOps /\ hostOps[creq[q].op] = -1
           /\ \A p \in Callers : (p # q /\ Making(p)) => (creq[p].op \in CreateOps /\ creq[p].op # creq[q].op)
           /\ \A i \in Ids : Now(i) => sess[i].op # creq[q].op
<1>1. Making(q) /\ Caller(q) /\ creq[q].op \in CreateOps /\ hostOps[creq[q].op] = -1
  BY DEF NmInv, MakersInv, Making, Caller
<1>2. ASSUME NEW p \in Callers, p # q, Making(p) PROVE creq[p].op \in CreateOps /\ creq[p].op # creq[q].op
  <2>1. Caller(p) /\ Apart(p, q)
    BY DEF NmInv, MakersInv
  <2> QED BY <1>1, <1>2, <2>1 DEF Caller, Apart, Making
<1>3. ASSUME NEW i \in Ids, Now(i), sess[i].op = creq[q].op PROVE FALSE
  <2>1. hostOps[sess[i].op] = i \/ \E p \in Callers : Makes(p, i)
    BY <1>3 DEF NmInv, MakersInv, Backed
  <2>2. i # -1
    BY NamesAssumption DEF Ids
  <2>3. PICK p \in Callers : Makes(p, i)
    BY <1>1, <1>3, <2>1, <2>2
  <2>4. p # q /\ Making(p) /\ creq[p].op = creq[q].op
    BY <1>3, <2>3 DEF Makes, Making
  <2> QED BY <1>2, <2>4
<1> QED BY <1>1, <1>2, <1>3

LEMMA StartFails ==
    ASSUME NmInv, NEW q \in Callers, creq[q].pc = "start", serving = "up", UNCHANGED <<serving, serveNo, todo, named, jrnl, nSess, sess>>,
           hostOps' = [hostOps EXCEPT ![creq[q].op] = 0], CMoved(q, IdleCreate)
    PROVE  NmInv'
<1>t. NmTypes
  BY DEF NmInv
<1>o. PICK o : o = creq[q].op
  OBVIOUS
<1>1. /\ o \in CreateOps /\ hostOps[o] = -1
      /\ \A p \in Callers : (p # q /\ Making(p)) => (creq[p].op \in CreateOps /\ creq[p].op # o)
      /\ \A i \in Ids : Now(i) => sess[i].op # o
  BY <1>o, StartsAlone
<1>2. hostOps' \in [CreateOps -> Int] /\ \A x \in CreateOps : x # o => hostOps'[x] = hostOps[x]
  BY <1>t, <1>o, <1>1 DEF NmTypes
<1>3. creq' \in [Callers -> CReq] /\ creq'[q].pc = "idle" /\ \A p \in Callers : p # q => creq'[p] = creq[p]
  BY <1>t, IdleCaller, CMove
<1>4. \A p \in Callers : Caller(p)'
  <2> SUFFICES ASSUME NEW p \in Callers PROVE Caller(p)'
    OBVIOUS
  <2>1. CASE p = q
    BY <1>3, <2>1 DEF Caller, Making
  <2>2. CASE p # q
    <3>1. Caller(p) /\ creq'[p] = creq[p] /\ (Making(p)' <=> Making(p))
      BY <1>3, <2>2 DEF NmInv, MakersInv, Making
    <3>2. HasCreate(creq[p].t)' <=> HasCreate(creq[p].t)
      BY <3>1 DEF HasCreate, IsCreate, Lines
    <3> QED BY <1>1, <1>2, <2>2, <3>1, <3>2 DEF Caller
  <2> QED BY <2>1, <2>2
<1>5. \A p, k \in Callers : Apart(p, k)'
  BY <1>3 DEF NmInv, MakersInv, Apart, Making
<1>6. \A i \in Ids : Backed(i)'
  <2> SUFFICES ASSUME NEW i \in Ids PROVE Backed(i)'
    OBVIOUS
  <2>1. Backed(i) /\ (Now(i)' <=> Now(i))
    BY DEF NmInv, MakersInv, Now, Running
  <2>2. \A p \in Callers : Makes(p, i) => Makes(p, i)'
    <3> SUFFICES ASSUME NEW p \in Callers, Makes(p, i) PROVE Makes(p, i)'
      OBVIOUS
    <3>1. p # q
      BY DEF Makes
    <3> QED BY <1>3, <3>1 DEF Makes
  <2> QED BY <1>1, <1>2, <2>1, <2>2 DEF Backed
<1>7. CreateOnce'
  BY DEF NmInv, MakersInv, CreateOnce, Running
<1>8. JournalInv'
  BY JournalRests DEF NmInv
<1>9. NmTypes'
  BY <1>t, <1>2, <1>3 DEF NmTypes
<1> QED BY <1>4, <1>5, <1>6, <1>7, <1>8, <1>9 DEF NmInv, MakersInv

LEMMA StartMakes ==
    ASSUME NmInv, NEW q \in Callers, creq[q].pc = "start", serving = "up", UNCHANGED <<serving, serveNo, todo, named, jrnl, hostOps>>,
           nSess < MaxSess, nSess' = nSess + 1,
           sess' = [sess EXCEPT ![nSess + 1] = [op |-> creq[q].op, serve |-> serveNo, st |-> "running", named |-> FALSE]],
           creq' = [creq EXCEPT ![q].pc = "journal", ![q].t = nSess + 1]
    PROVE  NmInv'
<1>t. NmTypes /\ nSess \in Nat /\ serveNo \in Nat
  BY NamesAssumption DEF NmInv, NmTypes
<1>o. PICK o : o = creq[q].op
  OBVIOUS
<1>1. /\ o \in CreateOps /\ hostOps[o] = -1
      /\ \A p \in Callers : (p # q /\ Making(p)) => (creq[p].op \in CreateOps /\ creq[p].op # o)
      /\ \A i \in Ids : Now(i) => sess[i].op # o
  BY <1>o, StartsAlone
<1>n. PICK n \in Ids : n = nSess + 1 /\ n \in 0 .. MaxSess /\ n # 0
  BY <1>t, NamesAssumption DEF Ids
<1>d. PICK d \in CReq : d = creq[q]
  BY <1>t DEF NmTypes
<1>2. PICK r : r = [d EXCEPT !.pc = "journal", !.t = n]
  OBVIOUS
<1>3. r \in CReq /\ r.pc = "journal" /\ r.t = n /\ r.op = o
  BY <1>o, <1>d, <1>n, <1>2 DEF CReq, CSteps
<1>4. CMoved(q, r)
  BY <1>d, <1>n, <1>2 DEF CMoved
<1>5. creq' \in [Callers -> CReq] /\ creq'[q] = r /\ \A p \in Callers : p # q => creq'[p] = creq[p]
  BY <1>t, <1>3, <1>4, CMove
<1>6. PICK e \in SRec : e = [op |-> o, serve |-> serveNo, st |-> "running", named |-> FALSE]
  BY <1>t, <1>1 DEF SRec
<1>7. e.op = o /\ e.serve = serveNo /\ e.st = "running"
  BY <1>6
<1>8. sess' \in [Ids -> SRec] /\ sess'[n] = e /\ \A i \in Ids : i # n => sess'[i] = sess[i]
  BY <1>t, <1>o, <1>n, <1>6 DEF NmTypes
<1>9. ~HasCreate(n)
  <2>1. \A k \in Lines : IsCreate(k) => jrnl[k].s <= nSess
    BY DEF NmInv, JournalInv, Written
  <2> QED BY <1>t, <1>n, <2>1 DEF HasCreate
<1>10. \A s \in Ids : HasCreate(s)' <=> HasCreate(s)
  BY DEF HasCreate, IsCreate, Lines
<1>11. \A p \in Callers : creq[p].pc = "journal" => (Making(p) /\ creq[p].t \in Ids /\ creq[p].t <= nSess /\ creq[p].t # n)
  <2> SUFFICES ASSUME NEW p \in Callers, creq[p].pc = "journal" PROVE Making(p) /\ creq[p].t \in Ids /\ creq[p].t <= nSess /\ creq[p].t # n
    OBVIOUS
  <2>1. Caller(p) /\ creq[p].t \in Ids
    BY CallerAt DEF NmInv, MakersInv
  <2>2. creq[p].t \in Nat
    BY <2>1, NamesAssumption DEF Ids
  <2> QED BY <1>t, <1>n, <2>1, <2>2 DEF Caller, Making
<1>12. \A p \in Callers : Caller(p)'
  <2> SUFFICES ASSUME NEW p \in Callers PROVE Caller(p)'
    OBVIOUS
  <2>1. CASE p = q
    <3>1. ~HasCreate(n)'
      BY <1>9, <1>10
    <3>2. n <= nSess' /\ creq'[p] = r
      BY <1>t, <1>n, <1>5, <2>1
    <3>3. HasCreate(creq[p].t)' <=> HasCreate(n)'
      BY <1>3, <3>2 DEF HasCreate
    <3>4. creq'[p].pc = "journal" /\ creq'[p].op = o /\ creq'[p].t = n /\ serving' = "up" /\ hostOps'[o] = -1
      BY <1>1, <1>3, <3>2
    <3> QED BY <1>1, <1>n, <3>1, <3>2, <3>3, <3>4 DEF Caller
  <2>2. CASE p # q
    <3>1. Caller(p) /\ creq'[p] = creq[p] /\ (Making(p)' <=> Making(p))
      BY <1>5, <2>2 DEF NmInv, MakersInv, Making
    <3>2. PICK x : x = creq[p].t
      OBVIOUS
    <3>3. creq[p].pc = "journal" => (x <= nSess' /\ ~HasCreate(x)')
      <4> SUFFICES ASSUME creq[p].pc = "journal" PROVE x <= nSess' /\ ~HasCreate(x)'
        OBVIOUS
      <4>1. x \in Ids /\ x <= nSess /\ ~HasCreate(x)
        BY <1>11, <3>1, <3>2 DEF Caller
      <4>2. x <= nSess'
        BY <1>t, <4>1, NamesAssumption DEF Ids
      <4> QED BY <1>10, <4>1, <4>2
    <3> QED BY <3>1, <3>2, <3>3 DEF Caller
  <2> QED BY <2>1, <2>2
<1>13. \A p, k \in Callers : Apart(p, k)'
  <2> SUFFICES ASSUME NEW p \in Callers, NEW k \in Callers, p # k PROVE Apart(p, k)'
    BY DEF Apart
  <2>0. ASSUME NEW x \in Callers, x # q PROVE (Making(x)' => creq'[x].op # o) /\ (creq'[x].pc = "journal" => creq'[x].t # n)
    <3>1. creq'[x] = creq[x] /\ (Making(x)' <=> Making(x))
      BY <1>5, <2>0 DEF Making
    <3> QED BY <1>1, <1>11, <2>0, <3>1
  <2>1. CASE p = q
    <3>1. creq'[p].op = o /\ creq'[p].t = n /\ k # q
      BY <1>3, <1>5, <2>1
    <3> QED BY <2>0, <3>1 DEF Apart
  <2>2. CASE k = q
    <3>1. creq'[k].op = o /\ creq'[k].t = n /\ p # q
      BY <1>3, <1>5, <2>2
    <3> QED BY <2>0, <3>1 DEF Apart
  <2>3. CASE p # q /\ k # q
    BY <1>5, <2>3 DEF NmInv, MakersInv, Apart, Making
  <2> QED BY <2>1, <2>2, <2>3
<1>14. \A i \in Ids : Backed(i)'
  <2> SUFFICES ASSUME NEW i \in Ids PROVE Backed(i)'
    OBVIOUS
  <2>0. i \in Nat /\ Backed(i)
    BY NamesAssumption DEF Ids, NmInv, MakersInv
  <2>1. CASE i = n
    <3>1. Makes(q, i)'
      BY <1>3, <1>5, <1>7, <1>8, <2>1 DEF Makes
    <3> QED BY <1>t, <1>1, <1>n, <1>7, <1>8, <2>1, <3>1 DEF Backed
  <2>2. CASE i # n
    <3>1. sess'[i] = sess[i] /\ (Now(i)' <=> Now(i))
      BY <1>8, <2>2 DEF Now, Running
    <3>2. \A p \in Callers : Makes(p, i) => Makes(p, i)'
      <4> SUFFICES ASSUME NEW p \in Callers, Makes(p, i) PROVE Makes(p, i)'
        OBVIOUS
      <4>1. p # q
        BY DEF Makes
      <4> QED BY <1>5, <3>1, <4>1 DEF Makes
    <3> QED BY <1>t, <2>0, <3>1, <3>2 DEF Backed
  <2> QED BY <2>1, <2>2
<1>15. CreateOnce'
  <2> SUFFICES ASSUME NEW i \in Ids, NEW k \in Ids, Running(i)', Running(k)', sess'[i].op = sess'[k].op, sess'[i].serve = sess'[k].serve PROVE i = k
    BY DEF CreateOnce
  <2>1. ASSUME NEW x \in Ids, x # n, Running(x)', sess'[x].op = o, sess'[x].serve = serveNo PROVE FALSE
    <3>1. Now(x) /\ sess[x].op = o
      BY <1>8, <2>1 DEF Now, Running
    <3> QED BY <1>1, <3>1
  <2>2. CASE i = n
    BY <1>7, <1>8, <2>1, <2>2
  <2>3. CASE k = n
    BY <1>7, <1>8, <2>1, <2>3
  <2>4. CASE i # n /\ k # n
    BY <1>8, <2>4 DEF NmInv, MakersInv, CreateOnce, Running
  <2> QED BY <2>2, <2>3, <2>4
<1>16. JournalInv'
  <2>1. Written'
    <3>1. Written
      BY DEF NmInv, JournalInv
    <3>2. ASSUME NEW k \in Lines, IsCreate(k) PROVE jrnl[k].s <= nSess'
      <4>1. jrnl[k].s <= nSess /\ jrnl[k].s \in Ids
        BY <1>t, <3>1, <3>2, LineTypes DEF Written
      <4> QED BY <1>t, <4>1, NamesAssumption DEF Ids
    <3> QED BY <3>1, <3>2 DEF Written, IsCreate, Lines
  <2>2. Settled' /\ ToDo'
    BY DEF NmInv, JournalInv, Settled, ToDo, Owed, Closed, IsEnd, IsCreate, Lines
  <2> QED BY <2>1, <2>2 DEF JournalInv
<1>17. NmTypes'
  BY <1>t, <1>n, <1>5, <1>8 DEF NmTypes
<1> QED BY <1>12, <1>13, <1>14, <1>15, <1>16, <1>17 DEF NmInv, MakersInv

LEMMA StartProgramKeeps == ASSUME NmInv, NEW q \in Callers, StartProgram(q) PROVE NmInv'
<1>1. serving = "up" /\ creq[q].pc = "start" /\ UNCHANGED <<serving, serveNo, todo, named, jrnl>>
  BY DEF StartProgram, At
<1>2. CASE /\ nSess < MaxSess /\ nSess' = nSess + 1
           /\ sess' = [sess EXCEPT ![nSess + 1] = [op |-> creq[q].op, serve |-> serveNo, st |-> "running", named |-> FALSE]]
           /\ creq' = [creq EXCEPT ![q].pc = "journal", ![q].t = nSess + 1] /\ UNCHANGED hostOps
  BY <1>1, <1>2, StartMakes
<1>3. CASE hostOps' = [hostOps EXCEPT ![creq[q].op] = 0] /\ Answered(q, FALSE) /\ UNCHANGED <<nSess, sess>>
  <2>1. CMoved(q, IdleCreate)
    BY <1>3 DEF Answered, CMoved
  <2> QED BY <1>1, <1>3, <2>1, StartFails
<1> QED BY <1>2, <1>3 DEF StartProgram

\* The program's create is journaled, and the host remembers the session from here on.
LEMMA JournalCreateKeeps == ASSUME NmInv, NEW q \in Callers, JournalCreate(q) PROVE NmInv'
<1>t. NmTypes
  BY DEF NmInv
<1>d. PICK d \in CReq : d = creq[q]
  BY <1>t DEF NmTypes
<1>0. serving = "up" /\ d.pc = "journal" /\ Making(q) /\ UNCHANGED <<serving, serveNo, todo, sess, nSess, named>>
  BY <1>d DEF JournalCreate, At, Making
<1>o. PICK o \in CreateOps : o = creq[q].op /\ o = d.op
  BY <1>d, <1>0, CallerAt
<1>n. PICK n \in Ids : n = creq[q].t /\ n = d.t /\ n # 0
  BY <1>d, <1>0, CallerAt
<1>1. n <= nSess /\ ~HasCreate(n) /\ hostOps[o] = -1
  <2>1. Caller(q)
    BY DEF NmInv, MakersInv
  <2> QED BY <1>d, <1>0, <1>o, <1>n, <2>1 DEF Caller
<1>2. PICK w \in JRec : w = [kind |-> "create", s |-> n, serve |-> serveNo]
  BY <1>t DEF JRec, NmTypes
<1>3. w.kind = "create" /\ w.s = n /\ w.serve = serveNo /\ AddsLine(w)
  BY <1>n, <1>2 DEF AddsLine, JournalCreate, Journaled
<1>4. JournalInv'
  BY <1>t, <1>0, <1>1, <1>3, ServingAdds DEF NmInv
<1>5. \A s \in Ids : HasCreate(s)' => (HasCreate(s) \/ s = n)
  BY <1>t, <1>3, LineAdded DEF HasCreate, IsCreate
<1>6. PICK r : r = [d EXCEPT !.pc = "made"]
  OBVIOUS
<1>7. r \in CReq /\ r.pc = "made" /\ r.op = o /\ r.t = n
  BY <1>d, <1>o, <1>n, <1>6 DEF CReq, CSteps
<1>8. CMoved(q, r)
  BY <1>d, <1>6 DEF CMoved, JournalCreate
<1>9. creq' \in [Callers -> CReq] /\ creq'[q] = r /\ \A p \in Callers : p # q => creq'[p] = creq[p]
  BY <1>t, <1>7, <1>8, CMove
<1>10. hostOps' \in [CreateOps -> Int] /\ hostOps'[o] = n /\ \A x \in CreateOps : x # o => hostOps'[x] = hostOps[x]
  <2>1. hostOps' = [hostOps EXCEPT ![o] = n]
    BY <1>o, <1>n DEF JournalCreate
  <2>2. n \in Int
    BY NamesAssumption DEF Ids
  <2> QED BY <1>t, <2>1, <2>2 DEF NmTypes
<1>11. \A p \in Callers : Caller(p)'
  <2> SUFFICES ASSUME NEW p \in Callers PROVE Caller(p)'
    OBVIOUS
  <2>1. CASE p = q
    BY <1>0, <1>n, <1>7, <1>9, <2>1 DEF Caller, Making
  <2>2. CASE p # q
    <3>1. Caller(p) /\ Apart(p, q) /\ creq'[p] = creq[p] /\ (Making(p)' <=> Making(p))
      BY <1>9, <2>2 DEF NmInv, MakersInv, Making
    <3>2. PICK x : x = creq[p].t
      OBVIOUS
    <3>3. creq[p].pc = "journal" => (x <= nSess' /\ ~HasCreate(x)')
      <4> SUFFICES ASSUME creq[p].pc = "journal" PROVE x <= nSess' /\ ~HasCreate(x)'
        OBVIOUS
      <4>1. x \in Ids /\ x <= nSess /\ ~HasCreate(x)
        BY <3>1, <3>2, CallerAt DEF Caller
      <4>2. x # n
        BY <1>d, <1>0, <1>n, <2>2, <3>1, <3>2 DEF Apart
      <4> QED BY <1>0, <1>5, <4>1, <4>2
    <3>4. Making(p) => (creq[p].op \in CreateOps /\ creq[p].op # o)
      BY <1>0, <1>o, <2>2, <3>1 DEF Apart, Caller, Making
    <3>5. Making(p) => hostOps'[creq[p].op] = -1
      BY <1>10, <3>1, <3>4 DEF Caller
    <3> QED BY <1>0, <3>1, <3>2, <3>3, <3>5 DEF Caller
  <2> QED BY <2>1, <2>2
<1>12. \A p, k \in Callers : Apart(p, k)'
  <2> SUFFICES ASSUME NEW p \in Callers, NEW k \in Callers PROVE Apart(p, k)'
    OBVIOUS
  <2>1. ASSUME NEW x \in Callers, Making(x)' PROVE creq'[x] = creq[x] /\ Making(x)
    BY <1>7, <1>9, <2>1 DEF Making
  <2>2. (creq'[p].pc = "journal" => Making(p)') /\ (creq'[k].pc = "journal" => Making(k)')
    BY DEF Making
  <2>3. Apart(p, k)
    BY DEF NmInv, MakersInv
  <2> QED BY <2>1, <2>2, <2>3 DEF Apart
<1>13. \A i \in Ids : Backed(i)'
  <2> SUFFICES ASSUME NEW i \in Ids PROVE Backed(i)'
    OBVIOUS
  <2>1. Backed(i) /\ (Now(i)' <=> Now(i))
    BY <1>0 DEF NmInv, MakersInv, Now, Running
  <2>2. i # -1
    BY NamesAssumption DEF Ids
  <2>3. Now(i) => (hostOps'[sess[i].op] = i \/ \E p \in Callers : Makes(p, i)')
    <3> SUFFICES ASSUME Now(i) PROVE hostOps'[sess[i].op] = i \/ \E p \in Callers : Makes(p, i)'
      OBVIOUS
    <3>1. CASE hostOps[sess[i].op] = i
      BY <1>1, <1>10, <2>1, <2>2, <3>1 DEF Backed
    <3>2. CASE \E p \in Callers : Makes(p, i)
      <4>1. PICK p \in Callers : Makes(p, i)
        BY <3>2
      <4>2. CASE p = q
        BY <1>o, <1>n, <1>10, <4>1, <4>2 DEF Makes
      <4>3. CASE p # q
        BY <1>0, <1>9, <4>1, <4>3 DEF Makes
      <4> QED BY <4>2, <4>3
    <3> QED BY <2>1, <3>1, <3>2 DEF Backed
  <2> QED BY <1>0, <2>1, <2>3 DEF Backed
<1>14. CreateOnce'
  BY <1>0 DEF NmInv, MakersInv, CreateOnce, Running
<1>15. NmTypes'
  <2>1. jrnl' \in Seq(JRec)
    BY <1>t, <1>3, LineAdded
  <2> QED BY <1>t, <1>0, <1>9, <1>10, <2>1 DEF NmTypes
<1> QED BY <1>4, <1>11, <1>12, <1>13, <1>14, <1>15 DEF NmInv, MakersInv

\* An operation is forgotten only when its session runs no longer.
LEMMA PruneOpsKeeps == ASSUME NmInv, NEW o \in CreateOps, PruneOps(o) PROVE NmInv'
<1>0. NmTypes /\ UNCHANGED <<serving, serveNo, todo, sess, nSess, named, creq, jrnl>> /\ hostOps[o] > 0 /\ ~Running(hostOps[o])
  BY DEF NmInv, PruneOps, Prunable
<1>1. hostOps' \in [CreateOps -> Int] /\ \A x \in CreateOps : x # o => hostOps'[x] = hostOps[x]
  BY <1>0 DEF NmTypes, PruneOps
<1>2. hostOps[o] # -1
  BY <1>0 DEF NmTypes
<1>3. \A p \in Callers : Caller(p)'
  <2> SUFFICES ASSUME NEW p \in Callers PROVE Caller(p)'
    OBVIOUS
  <2>1. Caller(p) /\ (Making(p)' <=> Making(p)) /\ (HasCreate(creq[p].t)' <=> HasCreate(creq[p].t))
    BY <1>0 DEF NmInv, MakersInv, Making, HasCreate, IsCreate, Lines
  <2>2. Making(p) => (creq[p].op \in CreateOps /\ creq[p].op # o)
    BY <1>2, <2>1 DEF Caller, Making
  <2> QED BY <1>0, <1>1, <2>1, <2>2 DEF Caller
<1>4. \A p, k \in Callers : Apart(p, k)'
  BY <1>0 DEF NmInv, MakersInv, Apart, Making
<1>5. \A i \in Ids : Backed(i)'
  <2> SUFFICES ASSUME NEW i \in Ids PROVE Backed(i)'
    OBVIOUS
  <2>1. Backed(i) /\ (Now(i)' <=> Now(i)) /\ \A p \in Callers : Makes(p, i)' <=> Makes(p, i)
    BY <1>0 DEF NmInv, MakersInv, Now, Running, Makes
  <2>2. (Now(i) /\ hostOps[sess[i].op] = i) => sess[i].op # o
    BY <1>0 DEF Now
  <2> QED BY <1>0, <1>1, <2>1, <2>2 DEF Backed
<1>6. CreateOnce'
  BY <1>0 DEF NmInv, MakersInv, CreateOnce, Running
<1>7. JournalInv' /\ NmTypes'
  BY <1>0, <1>1, JournalRests DEF NmInv, NmTypes
<1> QED BY <1>3, <1>4, <1>5, <1>6, <1>7 DEF NmInv, MakersInv

LEMMA NamesStep == ASSUME NmInv, NamesNext PROVE NmInv'
<1>1. ASSUME NEW q \in Callers, NEW o \in CreateOps, ReserveName(q, o) PROVE NmInv'
  BY <1>1, QuietSteps
<1>2. ASSUME NEW q \in Callers,
             ListenState(q) \/ HostCreate(q) \/ StartProgram(q) \/ JournalCreate(q) \/ CheckName(q) \/ Publish(q) \/ StopBegin(q) \/ StopEnd(q)
      PROVE  NmInv'
  BY <1>2, QuietSteps, HostCreateKeeps, StartProgramKeeps, JournalCreateKeeps, PublishKeeps
<1> QED BY <1>1, <1>2, OpenKeeps, ReconcileKeeps, ServeKeeps, CrashKeeps, PruneExitedKeeps, PruneOpsKeeps, EndsKeep DEF NamesNext

LEMMA NamesTold == ASSUME NmInv PROVE NamesTrue
<1>1. CreateOnce
  BY DEF NmInv, MakersInv
<1>2. DOMAIN jrnl = Lines
  BY DEF NmInv, NmTypes, Lines
<1>3. ASSUME serving = "up", NEW k \in Lines, IsCreate(k), jrnl[k].serve < serveNo
      PROVE  /\ \E m \in Lines : jrnl[m].s = jrnl[k].s /\ jrnl[m].kind \in {"exit", "reconcile"}
             /\ Cardinality({m \in Lines : jrnl[m].s = jrnl[k].s /\ jrnl[m].kind = "reconcile"}) <= 1
  <2>1. \E m \in Lines : jrnl[m].s = jrnl[k].s /\ jrnl[m].kind \in {"exit", "reconcile"}
    BY <1>3 DEF NmInv, JournalInv, Settled, Owed, Closed, IsEnd
  <2>2. PICK R : R = {m \in Lines : jrnl[m].s = jrnl[k].s /\ jrnl[m].kind = "reconcile"}
    OBVIOUS
  <2>3. \A x, y \in R : x = y
    BY <2>2 DEF NmInv, JournalInv, Written
  <2>4. Cardinality(R) <= 1
    <3>1. CASE R = {}
      BY <3>1, FS_EmptySet
    <3>2. CASE R # {}
      <4>1. PICK x : R = {x}
        BY <2>3, <3>2
      <4>2. Cardinality({x}) = 1
        BY FS_Singleton
      <4> QED BY <4>1, <4>2
    <3> QED BY <3>1, <3>2
  <2> QED BY <2>1, <2>2, <2>4
<1>4. Accounted
  BY <1>2, <1>3 DEF Accounted, IsCreate
<1> QED BY <1>1, <1>4 DEF NamesTrue

\* One create operation never has two programs running under one service, however its retries
\* interleave with failures, evictions, stops and other creates of the name; and once a service
\* serves, every session an earlier one journaled as created is closed in the journal, by an exit
\* or by one reconcile record, whichever services crashed while they reconciled; for any number of
\* operations, requests, programs and restarts (create, SessionHost.Create, reconcile).
THEOREM NamesAreTrue == Spec => []NamesTrue
<1>1. Init => NmInv
  <2> SUFFICES ASSUME Init PROVE NmInv
    OBVIOUS
  <2>1. /\ serving = "down" /\ serveNo = 0 /\ todo = <<>> /\ nSess = 0 /\ named = 0 /\ hostOps = [o \in CreateOps |-> 0] /\ jrnl = <<>>
        /\ creq = [q \in Callers |-> IdleCreate]
        /\ sess = [i \in Ids |-> [op |-> NoOp, serve |-> 0, st |-> "none", named |-> FALSE]]
    BY DEF Init, NamesInit
  <2>2. NmTypes
    <3>1. sess \in [Ids -> SRec]
      BY <2>1 DEF SRec
    <3>2. creq \in [Callers -> CReq]
      BY <2>1, IdleCaller
    <3>3. jrnl \in Seq(JRec) /\ todo \in Seq(Ids)
      BY <2>1
    <3>4. hostOps \in [CreateOps -> Int] /\ 0 \in 0 .. MaxSess
      BY <2>1, NamesAssumption
    <3> QED BY <2>1, <3>1, <3>2, <3>3, <3>4 DEF NmTypes
  <2>3. JournalInv
    <3>1. Lines = {}
      BY <2>1 DEF Lines
    <3> QED BY <2>1, <3>1 DEF JournalInv, Written, Settled, ToDo
  <2>4. MakersInv
    <3>1. \A q \in Callers : creq[q].pc = "idle"
      BY <2>1, IdleCaller
    <3>2. \A i \in Ids : sess[i].st = "none"
      BY <2>1
    <3> QED BY <3>1, <3>2 DEF MakersInv, Caller, Apart, Making, Backed, Now, Running, CreateOnce
  <2> QED BY <2>2, <2>3, <2>4 DEF NmInv
<1>2. NmInv /\ [Next]_vars => NmInv'
  <2>1. ASSUME NmInv, UNCHANGED nvars PROVE NmInv'
    <3>1. UNCHANGED <<serving, serveNo, todo, sess, nSess, named, hostOps, creq, jrnl>>
      BY <2>1 DEF nvars
    <3>2. MakersInv' /\ JournalInv'
      BY <2>1, <3>1, SameCreates, MakersRest, JournalRests DEF NmInv
    <3> QED BY <2>1, <3>1, <3>2 DEF NmInv, NmTypes
  <2> QED BY <2>1, Parts, NamesStep
<1>3. NmInv => NamesTrue
  BY NamesTold
<1> QED BY <1>1, <1>2, <1>3, PTL DEF Spec

(***************************** induction over data ***********************************)
\* A set of natural numbers that is not empty has a least one.
LEMMA LeastNat ==
    ASSUME NEW T, T \subseteq Nat, T # {}
    PROVE  \E x \in T : \A y \in T : x <= y
<1> DEFINE R == OpToRel(<, Nat)
<1>1. IsWellFoundedOn(R, Nat)
  BY NatLessThanWellFounded
<1>2. \A a, b \in Nat : <<a, b>> \in R <=> a < b
  BY DEF OpToRel
<1> HIDE DEF R
<1>3. PICK x \in T : \A y \in T : <<y, x>> \notin R
  BY <1>1, WFMin
<1>4. \A y \in T : x <= y
  <2> SUFFICES ASSUME NEW y \in T PROVE x <= y
    OBVIOUS
  <2>1. x \in Nat /\ y \in Nat
    OBVIOUS
  <2>2. ~(y < x)
    BY <1>2, <1>3, <2>1
  <2> QED BY <2>1, <2>2
<1> QED BY <1>4

\* A set that has zero and with each number the next one has them all.
LEMMA AllNats ==
    ASSUME NEW P, 0 \in P, \A n \in Nat : n \in P => n + 1 \in P
    PROVE  Nat \subseteq P
<1> DEFINE T == {n \in Nat : n \notin P}
<1> SUFFICES ASSUME T # {} PROVE FALSE
  OBVIOUS
<1>1. PICK x \in T : \A y \in T : x <= y
  <2> HIDE DEF T
  <2>1. T \subseteq Nat
    BY DEF T
  <2> QED BY <2>1, LeastNat
<1>2. x # 0 /\ x \in Nat
  OBVIOUS
<1>3. x - 1 \in Nat /\ x - 1 \notin T
  BY <1>1, <1>2
<1> QED BY <1>2, <1>3

\* A set of natural numbers up to some n that is not empty has a greatest one.
LEMMA GreatestNat ==
    ASSUME NEW n \in Nat, NEW T, T \subseteq 0 .. n, T # {}
    PROVE  \E x \in T : \A y \in T : y <= x
<1> DEFINE D == {k \in 0 .. n : n - k \in T}
<1>1. D \subseteq Nat /\ D # {}
  <2>1. PICK t : t \in T
    OBVIOUS
  <2>2. n - t \in D
    BY <2>1
  <2> QED BY <2>2
<1>2. PICK k \in D : \A j \in D : k <= j
  <2> HIDE DEF D
  <2> QED BY <1>1, LeastNat
<1>3. ASSUME NEW y \in T PROVE y <= n - k
  <2>1. y \in 0 .. n /\ k \in 0 .. n
    OBVIOUS
  <2>2. n - y \in D
    BY <2>1
  <2>3. k <= n - y
    BY <1>2, <2>2
  <2> QED BY <2>1, <2>3
<1> QED BY <1>2, <1>3

(************************** the journal of operations ********************************)
\* A line of the file is an operation's, or torn at the end.
Line == [id : OpIDs, d : {"pending", "sent", "unknown"}] \cup {Torn}

\* The loops of the journal, each a step at a time: what a replay has met after i lines.
MetAt(f, c, i) ==
    IF i = 0 THEN <<>>
    ELSE IF f[i].id \in OpIDs \ ToSet(c[i - 1]) THEN Append(c[i - 1], f[i].id)
    ELSE c[i - 1]
LEMMA MetIs ==
    ASSUME NEW f, Len(f) \in Nat
    PROVE  \E c : c = [i \in 0 .. Len(f) |-> MetAt(f, c, i)] /\ Met(f) = c[Len(f)]
<1> DEFINE P == {n \in Nat : \E c : c = [i \in 0 .. n |-> MetAt(f, c, i)]}
<1>1. 0 \in P
  <2> DEFINE d == [i \in 0 .. 0 |-> <<>>]
  <2>1. d = [i \in 0 .. 0 |-> MetAt(f, d, i)]
    BY DEF MetAt
  <2> QED BY <2>1
<1>2. ASSUME NEW n \in Nat, n \in P PROVE n + 1 \in P
  <2>1. PICK c : c = [i \in 0 .. n |-> MetAt(f, c, i)]
    BY <1>2
  <2> DEFINE d == [i \in 0 .. n + 1 |-> IF i = n + 1 THEN MetAt(f, c, i) ELSE c[i]]
  <2>2. ASSUME NEW i \in 0 .. n + 1 PROVE MetAt(f, d, i) = MetAt(f, c, i)
    <3>1. i # 0 => i - 1 \in 0 .. n + 1 /\ i - 1 # n + 1
      OBVIOUS
    <3>2. i # 0 => d[i - 1] = c[i - 1]
      BY <3>1
    <3> HIDE DEF d
    <3> QED BY <3>2 DEF MetAt
  <2>3. \A i \in 0 .. n + 1 : d[i] = MetAt(f, c, i)
    BY <2>1
  <2>4. d = [i \in 0 .. n + 1 |-> MetAt(f, d, i)]
    BY <2>2, <2>3
  <2> HIDE DEF d
  <2>5. \E e : e = [i \in 0 .. n + 1 |-> MetAt(f, e, i)]
    BY <2>4
  <2> QED BY <2>5
<1>3. Len(f) \in P
  <2> HIDE DEF P
  <2> QED BY <1>1, <1>2, AllNats
<1>4. \E c : c = [i \in 0 .. Len(f) |-> MetAt(f, c, i)]
  BY <1>3
<1>5. Met(f) = (CHOOSE c : c = [i \in 0 .. Len(f) |-> MetAt(f, c, i)])[Len(f)]
  BY DEF Met, MetAt
<1> QED BY <1>4, <1>5

\* The file after i operations of the order were looked at.
ConvertedAt(f, order, m, c, i) ==
    IF i = 0 THEN f
    ELSE IF m[order[i]] = "pending" THEN AppendLine(c[i - 1], [id |-> order[i], d |-> "unknown"])
    ELSE c[i - 1]
LEMMA ConvertedIs ==
    ASSUME NEW f, NEW order, NEW m, Len(order) \in Nat
    PROVE  \E c : c = [i \in 0 .. Len(order) |-> ConvertedAt(f, order, m, c, i)] /\ Converted(f, order, m) = c[Len(order)]
<1> DEFINE P == {n \in Nat : \E c : c = [i \in 0 .. n |-> ConvertedAt(f, order, m, c, i)]}
<1>1. 0 \in P
  <2> DEFINE d == [i \in 0 .. 0 |-> f]
  <2>1. d = [i \in 0 .. 0 |-> ConvertedAt(f, order, m, d, i)]
    BY DEF ConvertedAt
  <2> QED BY <2>1
<1>2. ASSUME NEW n \in Nat, n \in P PROVE n + 1 \in P
  <2>1. PICK c : c = [i \in 0 .. n |-> ConvertedAt(f, order, m, c, i)]
    BY <1>2
  <2> DEFINE d == [i \in 0 .. n + 1 |-> IF i = n + 1 THEN ConvertedAt(f, order, m, c, i) ELSE c[i]]
  <2>2. ASSUME NEW i \in 0 .. n + 1 PROVE ConvertedAt(f, order, m, d, i) = ConvertedAt(f, order, m, c, i)
    <3>1. i # 0 => i - 1 \in 0 .. n + 1 /\ i - 1 # n + 1
      OBVIOUS
    <3>2. i # 0 => d[i - 1] = c[i - 1]
      BY <3>1
    <3> HIDE DEF d
    <3> QED BY <3>2 DEF ConvertedAt
  <2>3. \A i \in 0 .. n + 1 : d[i] = ConvertedAt(f, order, m, c, i)
    BY <2>1
  <2>4. d = [i \in 0 .. n + 1 |-> ConvertedAt(f, order, m, d, i)]
    BY <2>2, <2>3
  <2> HIDE DEF d
  <2>5. \E e : e = [i \in 0 .. n + 1 |-> ConvertedAt(f, order, m, e, i)]
    BY <2>4
  <2> QED BY <2>5
<1>3. Len(order) \in P
  <2> HIDE DEF P
  <2> QED BY <1>1, <1>2, AllNats
<1>4. \E c : c = [i \in 0 .. Len(order) |-> ConvertedAt(f, order, m, c, i)]
  BY <1>3
<1>5. Converted(f, order, m) = (CHOOSE c : c = [i \in 0 .. Len(order) |-> ConvertedAt(f, order, m, c, i)])[Len(order)]
  BY DEF Converted, ConvertedAt
<1> QED BY <1>4, <1>5

\* What is kept and forgotten of the first i operations of the order.
EvictAt(order, m, c, i) ==
    IF i = 0 THEN [kept |-> <<>>, out |-> {}]
    ELSE IF m[order[i]] = "sent" /\ Cardinality(c[i - 1].out) + OpBound < Len(order)
    THEN [c[i - 1] EXCEPT !.out = @ \cup {order[i]}]
    ELSE [c[i - 1] EXCEPT !.kept = Append(@, order[i])]
LEMMA EvictIs ==
    ASSUME NEW order, NEW m, Len(order) \in Nat
    PROVE  \E c : c = [i \in 0 .. Len(order) |-> EvictAt(order, m, c, i)] /\ Evict(order, m) = c[Len(order)]
<1> DEFINE P == {n \in Nat : \E c : c = [i \in 0 .. n |-> EvictAt(order, m, c, i)]}
<1>1. 0 \in P
  <2> DEFINE d == [i \in 0 .. 0 |-> [kept |-> <<>>, out |-> {}]]
  <2>1. d = [i \in 0 .. 0 |-> EvictAt(order, m, d, i)]
    BY DEF EvictAt
  <2> QED BY <2>1
<1>2. ASSUME NEW n \in Nat, n \in P PROVE n + 1 \in P
  <2>1. PICK c : c = [i \in 0 .. n |-> EvictAt(order, m, c, i)]
    BY <1>2
  <2> DEFINE d == [i \in 0 .. n + 1 |-> IF i = n + 1 THEN EvictAt(order, m, c, i) ELSE c[i]]
  <2>2. ASSUME NEW i \in 0 .. n + 1 PROVE EvictAt(order, m, d, i) = EvictAt(order, m, c, i)
    <3>1. i # 0 => i - 1 \in 0 .. n + 1 /\ i - 1 # n + 1
      OBVIOUS
    <3>2. i # 0 => d[i - 1] = c[i - 1]
      BY <3>1
    <3> HIDE DEF d
    <3> QED BY <3>2 DEF EvictAt
  <2>3. \A i \in 0 .. n + 1 : d[i] = EvictAt(order, m, c, i)
    BY <2>1
  <2>4. d = [i \in 0 .. n + 1 |-> EvictAt(order, m, d, i)]
    BY <2>2, <2>3
  <2> HIDE DEF d
  <2>5. \E e : e = [i \in 0 .. n + 1 |-> EvictAt(order, m, e, i)]
    BY <2>4
  <2> QED BY <2>5
<1>3. Len(order) \in P
  <2> HIDE DEF P
  <2> QED BY <1>1, <1>2, AllNats
<1>4. \E c : c = [i \in 0 .. Len(order) |-> EvictAt(order, m, c, i)]
  BY <1>3
<1>5. Evict(order, m) = (CHOOSE c : c = [i \in 0 .. Len(order) |-> EvictAt(order, m, c, i)])[Len(order)]
  BY DEF Evict, EvictAt
<1> QED BY <1>4, <1>5

Done == [id : OpIDs, d : {"pending", "sent", "unknown"}]
LEMMA LinesAre ==
    /\ Torn \notin Done /\ Done \subseteq Line /\ Torn.id \notin OpIDs /\ Torn.d = "none"
    /\ \A l \in Line : l \in Done \/ l = Torn
  BY OpsAssumption DEF Torn, Line, Done

LEMMA AppendSet == ASSUME NEW S, NEW s \in Seq(S), NEW x \in S PROVE ToSet(Append(s, x)) = ToSet(s) \cup {x}
<1>1. PICK t : t = Append(s, x)
  OBVIOUS
<1>2. /\ t \in Seq(S) /\ Len(t) = Len(s) + 1 /\ t[Len(s) + 1] = x /\ Len(s) \in Nat
      /\ \A i \in 1 .. Len(s) : t[i] = s[i]
  BY <1>1
<1>3. DOMAIN t = 1 .. Len(s) + 1 /\ DOMAIN s = 1 .. Len(s)
  BY <1>2
<1>4. ToSet(t) = ToSet(s) \cup {x}
  BY <1>2, <1>3 DEF ToSet
<1> QED BY <1>1, <1>4

LEMMA MetAll == ASSUME NEW f \in Seq(Done) PROVE Met(f) \in Seq(OpIDs) /\ \A i \in 1 .. Len(f) : f[i].id \in ToSet(Met(f))
<1>1. PICK c : c = [i \in 0 .. Len(f) |-> MetAt(f, c, i)] /\ Met(f) = c[Len(f)]
  BY MetIs
<1> DEFINE P == {n \in Nat : n <= Len(f) => c[n] \in Seq(OpIDs) /\ \A i \in 1 .. n : f[i].id \in ToSet(c[n])}
<1>2. 0 \in P
  BY <1>1 DEF MetAt
<1>3. ASSUME NEW n \in Nat, n \in P PROVE n + 1 \in P
  <2> SUFFICES ASSUME n + 1 <= Len(f)
               PROVE  c[n + 1] \in Seq(OpIDs) /\ \A i \in 1 .. n + 1 : f[i].id \in ToSet(c[n + 1])
    OBVIOUS
  <2>1. PICK s \in Seq(OpIDs) : s = c[n] /\ \A i \in 1 .. n : f[i].id \in ToSet(s)
    BY <1>3
  <2>a. n + 1 \in 0 .. Len(f) /\ (n + 1) - 1 = n /\ n + 1 # 0
    OBVIOUS
  <2>2. c[n + 1] = MetAt(f, c, n + 1)
    BY <1>1, <2>a
  <2>3. PICK x \in OpIDs : x = f[n + 1].id
    <3>1. f[n + 1] \in Done
      BY <2>a
    <3> QED BY <3>1 DEF Done
  <2>4. CASE x \in ToSet(s)
    <3>1. c[n + 1] = s
      BY <2>1, <2>2, <2>3, <2>4, <2>a DEF MetAt
    <3> QED BY <2>1, <2>3, <2>4, <3>1
  <2>5. CASE x \notin ToSet(s)
    <3>1. c[n + 1] = Append(s, x)
      BY <2>1, <2>2, <2>3, <2>5, <2>a DEF MetAt
    <3>2. PICK t : t = Append(s, x)
      OBVIOUS
    <3>a. t \in Seq(OpIDs)
      BY <3>2, AppendProperties
    <3>3. x \in ToSet(t) /\ ToSet(s) \subseteq ToSet(t)
      BY <3>2, AppendSet
    <3> QED BY <2>1, <2>3, <3>1, <3>2, <3>3, <3>a
  <2> QED BY <2>4, <2>5
<1>4. Len(f) \in P
  <2> HIDE DEF P
  <2> QED BY <1>2, <1>3, AllNats
<1> QED BY <1>1, <1>4

\* What is forgotten was sent, and what is not forgotten is kept.
LEMMA EvictKeeps ==
    ASSUME NEW order \in Seq(OpIDs), NEW m
    PROVE  /\ Evict(order, m).kept \in Seq(OpIDs) /\ \A x \in Evict(order, m).out : m[x] = "sent"
           /\ \A i \in 1 .. Len(order) : order[i] \in Evict(order, m).out \cup ToSet(Evict(order, m).kept)
<1>1. PICK c : c = [i \in 0 .. Len(order) |-> EvictAt(order, m, c, i)] /\ Evict(order, m) = c[Len(order)]
  <2>1. Len(order) \in Nat
    OBVIOUS
  <2> QED BY <2>1, EvictIs
<1> DEFINE R == [kept : Seq(OpIDs), out : SUBSET OpIDs]
<1> DEFINE Good(e, n) == /\ e \in R /\ \A x \in e.out : m[x] = "sent"
                         /\ \A i \in 1 .. n : order[i] \in e.out \cup ToSet(e.kept)
<1> DEFINE P == {n \in Nat : n <= Len(order) => Good(c[n], n)}
<1>2. 0 \in P
  BY <1>1 DEF EvictAt
<1>3. ASSUME NEW n \in Nat, n \in P PROVE n + 1 \in P
  <2> SUFFICES ASSUME n + 1 <= Len(order) PROVE Good(c[n + 1], n + 1)
    OBVIOUS
  <2>1. PICK e \in R : e = c[n] /\ Good(e, n)
    BY <1>3
  <2>a. n + 1 \in 0 .. Len(order) /\ (n + 1) - 1 = n /\ n + 1 # 0
    OBVIOUS
  <2>2. c[n + 1] = EvictAt(order, m, c, n + 1)
    BY <1>1, <2>a
  <2>3. PICK x \in OpIDs : x = order[n + 1]
    OBVIOUS
  <2>4. e.kept \in Seq(OpIDs) /\ e.out \in SUBSET OpIDs
    OBVIOUS
  <2>5. CASE m[x] = "sent" /\ Cardinality(e.out) + OpBound < Len(order)
    <3>1. c[n + 1] = [e EXCEPT !.out = e.out \cup {x}]
      BY <2>1, <2>2, <2>3, <2>5, <2>a DEF EvictAt
    <3>2. PICK h : h = [e EXCEPT !.out = e.out \cup {x}]
      OBVIOUS
    <3>3. h \in R /\ h.out = e.out \cup {x} /\ h.kept = e.kept
      BY <2>4, <3>2
    <3> HIDE DEF R
    <3> QED BY <2>1, <2>3, <2>5, <3>1, <3>2, <3>3
  <2>6. CASE ~(m[x] = "sent" /\ Cardinality(e.out) + OpBound < Len(order))
    <3>1. c[n + 1] = [e EXCEPT !.kept = Append(e.kept, x)]
      BY <2>1, <2>2, <2>3, <2>6, <2>a DEF EvictAt
    <3>2. PICK h : h = [e EXCEPT !.kept = Append(e.kept, x)]
      OBVIOUS
    <3>3. h.kept = Append(e.kept, x) /\ h.out = e.out
      BY <2>4, <3>2
    <3>4. h \in R
      <4>1. Append(e.kept, x) \in Seq(OpIDs)
        BY <2>4
      <4> QED BY <2>4, <3>2, <4>1
    <3>5. ToSet(h.kept) = ToSet(e.kept) \cup {x}
      BY <2>4, <3>3, AppendSet
    <3> HIDE DEF R
    <3> QED BY <2>1, <2>3, <3>1, <3>2, <3>3, <3>4, <3>5
  <2> QED BY <2>5, <2>6
<1>4. Len(order) \in P
  <2> HIDE DEF P
  <2> QED BY <1>2, <1>3, AllNats
<1>5. Good(c[Len(order)], Len(order))
  BY <1>4
<1> QED BY <1>1, <1>5

\* A file with lines of unknown outcome added at its end, for operations m has pending.
Grown(f, h, m) ==
    /\ h \in Seq(Done) /\ Len(f) <= Len(h) /\ \A i \in 1 .. Len(f) : h[i] = f[i]
    /\ \A i \in 1 .. Len(h) : i > Len(f) => h[i].d = "unknown" /\ m[h[i].id] = "pending"
Added(f, h, x) == \E i \in 1 .. Len(h) : i > Len(f) /\ h[i].id = x
LEMMA AppendLineIs ==
    ASSUME NEW f \in Seq(Done), NEW l \in Done
    PROVE  /\ AppendLine(f, l) \in Seq(Done) /\ Len(AppendLine(f, l)) = Len(f) + 1
           /\ AppendLine(f, l)[Len(f) + 1] = l /\ \A i \in 1 .. Len(f) : AppendLine(f, l)[i] = f[i]
<1>1. AppendLine(f, l) = Append(f, l)
  <2>1. f # <<>> => f[Len(f)] # Torn
    BY LinesAre
  <2> QED BY <2>1 DEF AppendLine, Last
<1> QED BY <1>1

LEMMA GrowsOn ==
    ASSUME NEW f \in Seq(Done), NEW m, NEW h, Grown(f, h, m), NEW x \in OpIDs, m[x] = "pending",
           NEW t, t = AppendLine(h, [id |-> x, d |-> "unknown"])
    PROVE  Grown(f, t, m) /\ Added(f, t, x) /\ \A y : Added(f, h, y) => Added(f, t, y)
<1>1. PICK l \in Done : l = [id |-> x, d |-> "unknown"]
  BY DEF Done
<1>2. l.id = x /\ l.d = "unknown"
  BY <1>1
<1>3. h \in Seq(Done) /\ Len(f) \in Nat /\ Len(h) \in Nat /\ Len(f) <= Len(h)
  BY DEF Grown
<1>4. t \in Seq(Done) /\ Len(t) = Len(h) + 1 /\ t[Len(h) + 1] = l /\ \A i \in 1 .. Len(h) : t[i] = h[i]
  BY <1>1, <1>3, AppendLineIs
<1>5. Grown(f, t, m)
  <2>1. \A i \in 1 .. Len(f) : t[i] = f[i]
    BY <1>3, <1>4 DEF Grown
  <2>2. ASSUME NEW i \in 1 .. Len(t), i > Len(f) PROVE t[i].d = "unknown" /\ m[t[i].id] = "pending"
    <3>1. CASE i = Len(h) + 1
      BY <1>2, <1>4, <3>1
    <3>2. CASE i \in 1 .. Len(h)
      BY <1>4, <2>2, <3>2 DEF Grown
    <3> QED BY <1>3, <1>4, <3>1, <3>2
  <2> QED BY <1>3, <1>4, <2>1, <2>2 DEF Grown
<1>6. Added(f, t, x)
  BY <1>2, <1>3, <1>4 DEF Added
<1>7. ASSUME NEW y, Added(f, h, y) PROVE Added(f, t, y)
  <2>1. PICK i \in 1 .. Len(h) : i > Len(f) /\ h[i].id = y
    BY <1>7 DEF Added
  <2>2. i \in 1 .. Len(t) /\ t[i] = h[i]
    BY <1>3, <1>4
  <2> QED BY <2>1, <2>2 DEF Added
<1> QED BY <1>5, <1>6, <1>7

LEMMA ConvertedGrows ==
    ASSUME NEW f \in Seq(Done), NEW order \in Seq(OpIDs), NEW m
    PROVE  /\ Grown(f, Converted(f, order, m), m)
           /\ \A i \in 1 .. Len(order) : m[order[i]] = "pending" => Added(f, Converted(f, order, m), order[i])
<1>1. PICK c : c = [i \in 0 .. Len(order) |-> ConvertedAt(f, order, m, c, i)] /\ Converted(f, order, m) = c[Len(order)]
  BY ConvertedIs
<1> DEFINE Good(h, n) == Grown(f, h, m) /\ \A i \in 1 .. n : m[order[i]] = "pending" => Added(f, h, order[i])
<1> DEFINE P == {n \in Nat : n <= Len(order) => Good(c[n], n)}
<1>2. 0 \in P
  <2>1. c[0] = f
    BY <1>1 DEF ConvertedAt
  <2>2. Grown(f, f, m)
    BY DEF Grown
  <2> QED BY <2>1, <2>2
<1>3. ASSUME NEW n \in Nat, n \in P PROVE n + 1 \in P
  <2> SUFFICES ASSUME n + 1 <= Len(order) PROVE Good(c[n + 1], n + 1)
    OBVIOUS
  <2>1. PICK h : h = c[n] /\ Good(h, n)
    BY <1>3
  <2>a. n + 1 \in 0 .. Len(order) /\ (n + 1) - 1 = n /\ n + 1 # 0
    OBVIOUS
  <2>2. c[n + 1] = ConvertedAt(f, order, m, c, n + 1)
    BY <1>1, <2>a
  <2>3. PICK x \in OpIDs : x = order[n + 1]
    OBVIOUS
  <2>4. CASE m[x] = "pending"
    <3>1. PICK t : t = AppendLine(h, [id |-> x, d |-> "unknown"])
      OBVIOUS
    <3>2. c[n + 1] = t
      BY <2>1, <2>2, <2>3, <2>4, <2>a, <3>1 DEF ConvertedAt
    <3>3. Grown(f, t, m) /\ Added(f, t, x) /\ \A y : Added(f, h, y) => Added(f, t, y)
      BY <2>1, <2>4, <3>1, GrowsOn
    <3> QED BY <2>1, <2>3, <3>2, <3>3
  <2>5. CASE m[x] # "pending"
    <3>1. c[n + 1] = h
      BY <2>1, <2>2, <2>3, <2>5, <2>a DEF ConvertedAt
    <3> QED BY <2>1, <2>3, <2>5, <3>1
  <2> QED BY <2>4, <2>5
<1>4. Len(order) \in P
  <2> HIDE DEF P
  <2> QED BY <1>2, <1>3, AllNats
<1>5. Good(c[Len(order)], Len(order))
  BY <1>4
<1> QED BY <1>1, <1>5

\* A replay finds the last line of an operation.
LastAt(f, x, i) == i \in 1 .. Len(f) /\ f[i].id = x /\ \A k \in 1 .. Len(f) : f[k].id = x => k <= i
LEMMA ReplayLast ==
    ASSUME NEW f \in Seq(Done), NEW x, NEW i, LastAt(f, x, i)
    PROVE  Replay(f, x) = f[i].d
<1> DEFINE found == {k \in DOMAIN f : f[k].id = x}
<1>1. DOMAIN f = 1 .. Len(f) /\ Len(f) \in Nat
  OBVIOUS
<1>2. i \in found /\ \A k \in found : k <= i
  BY <1>1 DEF LastAt
<1> DEFINE last == CHOOSE n \in found : \A k \in found : k <= n
<1>3. last \in found /\ \A k \in found : k <= last
  BY <1>2
<1>4. Replay(f, x) = f[last].d
  BY <1>2 DEF Replay
<1>5. found \subseteq Nat
  BY <1>1
<1> HIDE DEF last, found
<1>6. last = i
  BY <1>2, <1>3, <1>5
<1> QED BY <1>4, <1>6

LEMMA ReplayIs ==
    ASSUME NEW f \in Seq(Done), NEW x
    PROVE  \/ Replay(f, x) = "none" /\ \A i \in 1 .. Len(f) : f[i].id # x
           \/ \E i : LastAt(f, x, i) /\ Replay(f, x) = f[i].d /\ f[i].d \in {"pending", "sent", "unknown"}
<1> DEFINE found == {i \in DOMAIN f : f[i].id = x}
<1>1. DOMAIN f = 1 .. Len(f) /\ Len(f) \in Nat
  OBVIOUS
<1>2. CASE found = {}
  BY <1>1, <1>2 DEF Replay
<1>3. CASE found # {}
  <2>1. found \subseteq 0 .. Len(f)
    BY <1>1
  <2>2. PICK i \in found : \A k \in found : k <= i
    <3> HIDE DEF found
    <3> QED BY <1>1, <1>3, <2>1, GreatestNat
  <2>3. LastAt(f, x, i)
    BY <1>1, <2>2 DEF LastAt
  <2>4. f[i] \in Done
    BY <1>1, <2>2
  <2> QED BY <2>3, <2>4, ReplayLast DEF Done
<1> QED BY <1>2, <1>3

\* One more line is what a replay finds of its operation; it finds of the others what it did.
LEMMA ReplayLine ==
    ASSUME NEW f \in Seq(Done), NEW l \in Done, NEW x
    PROVE  Replay(AppendLine(f, l), x) = IF l.id = x THEN l.d ELSE Replay(f, x)
<1>1. PICK h : h = AppendLine(f, l)
  OBVIOUS
<1>2. h \in Seq(Done) /\ Len(h) = Len(f) + 1 /\ h[Len(f) + 1] = l /\ \A i \in 1 .. Len(f) : h[i] = f[i]
  BY <1>1, AppendLineIs
<1>3. Len(f) \in Nat
  OBVIOUS
<1>4. CASE l.id = x
  <2>1. LastAt(h, x, Len(f) + 1)
    BY <1>2, <1>3, <1>4 DEF LastAt
  <2> QED BY <1>1, <1>2, <1>4, <2>1, ReplayLast
<1>5. CASE l.id # x
  <2>1. CASE \A i \in 1 .. Len(f) : f[i].id # x
    <3>1. \A i \in 1 .. Len(h) : h[i].id # x
      BY <1>2, <1>3, <1>5, <2>1
    <3>2. Replay(h, x) = "none"
      BY <1>2, <3>1, ReplayIs DEF LastAt
    <3>3. Replay(f, x) = "none"
      BY <2>1, ReplayIs DEF LastAt
    <3> QED BY <1>1, <1>5, <3>2, <3>3
  <2>2. CASE ~ \A i \in 1 .. Len(f) : f[i].id # x
    <3>1. PICK i : LastAt(f, x, i) /\ Replay(f, x) = f[i].d
      BY <2>2, ReplayIs
    <3>2. LastAt(h, x, i) /\ h[i] = f[i]
      BY <1>2, <1>3, <1>5, <3>1 DEF LastAt
    <3> QED BY <1>1, <1>2, <1>5, <3>1, <3>2, ReplayLast
  <2> QED BY <2>1, <2>2
<1> QED BY <1>4, <1>5

\* What was added for an operation is unknown, and of the others a replay finds what it did.
LEMMA ReplayGrown ==
    ASSUME NEW f \in Seq(Done), NEW h, NEW m, Grown(f, h, m), NEW x
    PROVE  Replay(h, x) = IF Added(f, h, x) THEN "unknown" ELSE Replay(f, x)
<1>1. /\ h \in Seq(Done) /\ Len(f) <= Len(h) /\ Len(f) \in Nat /\ Len(h) \in Nat
      /\ \A i \in 1 .. Len(f) : h[i] = f[i]
  BY DEF Grown
<1>2. CASE Added(f, h, x)
  <2>1. PICK i \in 1 .. Len(h) : i > Len(f) /\ h[i].id = x
    BY <1>2 DEF Added
  <2>2. PICK k : LastAt(h, x, k) /\ Replay(h, x) = h[k].d
    BY <1>1, <2>1, ReplayIs
  <2>3. k \in 1 .. Len(h) /\ k > Len(f)
    BY <1>1, <2>1, <2>2 DEF LastAt
  <2> QED BY <1>2, <2>2, <2>3 DEF Grown
<1>3. CASE ~Added(f, h, x)
  <2>0. \A i \in 1 .. Len(h) : h[i].id = x => i \in 1 .. Len(f)
    BY <1>1, <1>3 DEF Added
  <2>1. CASE \A i \in 1 .. Len(f) : f[i].id # x
    <3>1. \A i \in 1 .. Len(h) : h[i].id # x
      BY <1>1, <2>0, <2>1
    <3>2. Replay(h, x) = "none"
      BY <1>1, <3>1, ReplayIs DEF LastAt
    <3>3. Replay(f, x) = "none"
      BY <2>1, ReplayIs DEF LastAt
    <3> QED BY <1>3, <3>2, <3>3
  <2>2. CASE ~ \A i \in 1 .. Len(f) : f[i].id # x
    <3>1. PICK i : LastAt(f, x, i) /\ Replay(f, x) = f[i].d
      BY <2>2, ReplayIs
    <3>2. LastAt(h, x, i) /\ h[i] = f[i]
      BY <1>1, <2>0, <3>1 DEF LastAt
    <3> QED BY <1>1, <1>3, <3>1, <3>2, ReplayLast
  <2> QED BY <2>1, <2>2
<1> QED BY <1>2, <1>3

\* What a replay of the file may be read for: its lines are of operations, none is sent that
\* was not finished as known, and every operation acknowledged has one.
FileTrue(f, asked, known) ==
    /\ f \in Seq(Done)
    /\ \A i \in 1 .. Len(f) : f[i].d = "sent" => f[i].id \in known
    /\ \A x \in asked : \E i \in 1 .. Len(f) : f[i].id = x
Writing == \E g \in Gens : gst[g] \in {"open", "exited"}
FileNow(f) == opLines = f \/ (opLines = Append(f, Torn) /\ ~Writing)
OpTypes ==
    /\ gst \in [Gens -> {"none", "open", "exited", "closed", "lost"}]
    /\ memo \in [Gens -> [OpIDs -> {"none", "pending", "sent", "unknown"}]]
    /\ memOrder \in [Gens -> Seq(OpIDs)] /\ mine \in [Gens -> SUBSET OpIDs] /\ acked \subseteq OpIDs
\* What a generation has pending it began, and has in its order, so that its close finds it.
Ordered == \A g \in Gens, x \in OpIDs : memo[g][x] = "pending" => x \in mine[g] /\ x \in ToSet(memOrder[g])
\* What the file has pending a generation that writes has pending.
PendingHeld(f) ==
    Writing => \A x \in OpIDs : Replay(f, x) = "pending" =>
                   \E g \in Gens : gst[g] \in {"open", "exited"} /\ memo[g][x] = "pending"
\* Torn bytes are there only while no generation writes, and what is before them is true.
OpInv ==
    /\ OpTypes /\ Ordered
    /\ \E f : FileTrue(f, acked, committed) /\ FileNow(f) /\ PendingHeld(f)

LEMMA TruncatedIs == ASSUME NEW f \in Seq(Done) PROVE Truncated(f) = f /\ Truncated(Append(f, Torn)) = f
<1>1. f # <<>> => f[Len(f)] # Torn
  BY LinesAre
<1>2. f \in Seq(Line) /\ Torn \in Line
  BY SeqMonotonic, LinesAre DEF Line
<1>3. PICK h : h = Append(f, Torn)
  OBVIOUS
<1>4. h \in Seq(Line) /\ Len(h) = Len(f) + 1 /\ h[Len(h)] = Torn /\ h # <<>> /\ SubSeq(h, 1, Len(h) - 1) = f
  BY <1>2, <1>3
<1>5. Truncated(f) = f
  BY <1>1 DEF Truncated, Last
<1>6. Truncated(h) = f
  BY <1>4 DEF Truncated, Last, Front
<1> QED BY <1>3, <1>5, <1>6

LEMMA OpsTold == ASSUME OpInv PROVE OpsTrue
<1>1. PICK f : FileTrue(f, acked, committed) /\ FileNow(f) /\ PendingHeld(f)
  BY DEF OpInv
<1>2. f \in Seq(Done)
  BY <1>1 DEF FileTrue
<1>3. Truncated(opLines) = f
  BY <1>1, <1>2, TruncatedIs DEF FileNow
<1>4. ASSUME NEW x \in acked PROVE Replay(f, x) # "none"
  <2>1. PICK i \in 1 .. Len(f) : f[i].id = x
    BY <1>1 DEF FileTrue
  <2> QED BY <1>2, <2>1, ReplayIs
<1>5. ASSUME NEW x \in OpIDs, Replay(f, x) = "sent" PROVE x \in committed
  <2>1. PICK k : LastAt(f, x, k) /\ f[k].d = "sent"
    BY <1>2, <1>5, ReplayIs
  <2> QED BY <1>1, <2>1 DEF FileTrue, LastAt
<1>6. ASSUME NEW x \in OpIDs, Replay(f, x) = "pending", Writing
      PROVE  \E g \in {h \in Gens : gst[h] \in {"open", "exited"}} : memo[g][x] = "pending"
  BY <1>1, <1>6 DEF PendingHeld
<1>7. \A g \in Gens, x \in OpIDs : memo[g][x] = "pending" => x \in mine[g]
  BY DEF OpInv, Ordered
<1> QED BY <1>3, <1>4, <1>5, <1>6, <1>7 DEF OpsTrue, Writing

\* A true file stays so with lines of unknown outcome, and with one more line.
LEMMA GrownTrue ==
    ASSUME NEW f, NEW h, NEW a, NEW k, FileTrue(f, a, k), NEW m, Grown(f, h, m)
    PROVE  FileTrue(h, a, k)
<1>1. h \in Seq(Done) /\ f \in Seq(Done) /\ Len(f) <= Len(h)
  BY DEF FileTrue, Grown
<1>2. ASSUME NEW i \in 1 .. Len(h), h[i].d = "sent" PROVE h[i].id \in k
  <2>1. i \in 1 .. Len(f) /\ h[i] = f[i]
    BY <1>1, <1>2 DEF Grown
  <2> QED BY <1>2, <2>1 DEF FileTrue
<1>3. ASSUME NEW x \in a PROVE \E i \in 1 .. Len(h) : h[i].id = x
  <2>1. PICK i \in 1 .. Len(f) : f[i].id = x
    BY DEF FileTrue
  <2>2. i \in 1 .. Len(h) /\ h[i] = f[i]
    BY <1>1 DEF Grown
  <2> QED BY <2>1, <2>2
<1> QED BY <1>1, <1>2, <1>3 DEF FileTrue
LEMMA LineTrue ==
    ASSUME NEW f, NEW a, NEW k, FileTrue(f, a, k), NEW x \in OpIDs, NEW d \in {"pending", "sent", "unknown"},
           NEW b, b \subseteq a \cup {x}, NEW j, k \subseteq j, d = "sent" => x \in j
    PROVE  FileTrue(AppendLine(f, [id |-> x, d |-> d]), b, j)
<1>1. PICK l \in Done : l = [id |-> x, d |-> d]
  BY DEF Done
<1>2. l.id = x /\ l.d = d
  BY <1>1
<1>3. f \in Seq(Done)
  BY DEF FileTrue
<1>4. PICK h : h = AppendLine(f, l)
  OBVIOUS
<1>6. h \in Seq(Done) /\ Len(h) = Len(f) + 1 /\ h[Len(f) + 1] = l /\ \A i \in 1 .. Len(f) : h[i] = f[i]
  BY <1>3, <1>4, AppendLineIs
<1>7. \A i \in 1 .. Len(h) : h[i].d = "sent" => h[i].id \in j
  BY <1>2, <1>3, <1>6 DEF FileTrue
<1>8. ASSUME NEW y \in b PROVE \E i \in 1 .. Len(h) : h[i].id = y
  <2>1. CASE y = x
    BY <1>2, <1>3, <1>6, <2>1
  <2>2. CASE y \in a
    <3>1. PICK i \in 1 .. Len(f) : f[i].id = y
      BY <2>2 DEF FileTrue
    <3> QED BY <1>3, <1>6, <3>1
  <2> QED BY <2>1, <2>2
<1> QED BY <1>1, <1>4, <1>6, <1>7, <1>8 DEF FileTrue

\* What the file h has pending a generation that writes has pending after the step.
HeldNext(h) ==
    \A x \in OpIDs : Replay(h, x) = "pending" => \E g \in Gens : gst'[g] \in {"open", "exited"} /\ memo'[g][x] = "pending"
LEMMA OpInvNext ==
    ASSUME NEW h, opLines' = h, FileTrue(h, acked', committed'), OpTypes', Ordered', HeldNext(h)
    PROVE  OpInv'
<1>1. FileTrue(h, acked, committed)' /\ FileNow(h)' /\ PendingHeld(h)'
  BY DEF FileTrue, FileNow, PendingHeld, HeldNext
<1> QED BY <1>1 DEF OpInv

LEMMA OpenOpsKeeps == ASSUME OpInv, NEW g \in Gens, OpenOpJournal(g) PROVE OpInv'
<1>1. PICK f : FileTrue(f, acked, committed) /\ FileNow(f) /\ PendingHeld(f)
  BY DEF OpInv
<1>2. f \in Seq(Done) /\ Truncated(opLines) = f
  BY <1>1, TruncatedIs DEF FileTrue, FileNow
<1>3. PICK m : m = [x \in OpIDs |-> Replay(f, x)]
  OBVIOUS
<1>4. /\ opLines' = Converted(f, Met(f), m)
      /\ memo' = [memo EXCEPT ![g] = Held(m)] /\ memOrder' = [memOrder EXCEPT ![g] = Met(f)]
      /\ gst' = [gst EXCEPT ![g] = "open"] /\ UNCHANGED <<mine, acked, committed>>
  BY <1>2, <1>3 DEF OpenOpJournal
<1>5. PICK order \in Seq(OpIDs) : order = Met(f) /\ \A i \in 1 .. Len(f) : f[i].id \in ToSet(order)
  BY <1>2, MetAll
<1>a. PICK h : h = Converted(f, order, m)
  OBVIOUS
<1>b. Grown(f, h, m) /\ \A i \in 1 .. Len(order) : m[order[i]] = "pending" => Added(f, h, order[i])
  BY <1>2, <1>5, <1>a, ConvertedGrows
<1>6. FileTrue(h, acked', committed')
  BY <1>1, <1>4, <1>b, GrownTrue
<1>c. ASSUME NEW x \in OpIDs PROVE Replay(h, x) # "pending"
  <2> SUFFICES ASSUME Replay(h, x) = "pending" PROVE FALSE
    OBVIOUS
  <2>1. ~Added(f, h, x) /\ Replay(f, x) = "pending"
    BY <1>2, <1>b, ReplayGrown
  <2>2. PICK k : LastAt(f, x, k)
    BY <1>2, <2>1, ReplayIs
  <2>3. x \in ToSet(order) /\ DOMAIN order = 1 .. Len(order)
    BY <1>5, <2>2 DEF LastAt
  <2>4. PICK i \in 1 .. Len(order) : order[i] = x
    BY <2>3 DEF ToSet
  <2> QED BY <1>3, <1>b, <2>1, <2>4
<1>8. Held(m) \in [OpIDs -> {"none", "pending", "sent", "unknown"}] /\ \A x \in OpIDs : Held(m)[x] # "pending"
  <2>1. ASSUME NEW x \in OpIDs PROVE m[x] \in {"none", "pending", "sent", "unknown"}
    <3>1. m[x] = Replay(f, x)
      BY <1>3
    <3>2. ASSUME NEW i \in 1 .. Len(f) PROVE f[i].d \in {"pending", "sent", "unknown"}
      <4>1. f[i] \in Done
        BY <1>2
      <4> QED BY <4>1 DEF Done
    <3> QED BY <1>2, <3>1, <3>2, ReplayIs
  <2> QED BY <2>1 DEF Held
<1>9. OpTypes'
  BY <1>4, <1>5, <1>8 DEF OpInv, OpTypes
<1>10. Ordered'
  BY <1>4, <1>8 DEF OpInv, OpTypes, Ordered
<1> QED BY <1>4, <1>5, <1>6, <1>9, <1>10, <1>a, <1>c, OpInvNext DEF HeldNext

LEMMA BeginOpKeeps == ASSUME OpInv, NEW g \in Gens, NEW x \in OpIDs, BeginOp(g, x) PROVE OpInv'
<1>1. PICK f : FileTrue(f, acked, committed) /\ FileNow(f) /\ PendingHeld(f)
  BY DEF OpInv
<1>2. opLines = f
  BY <1>1 DEF FileNow, Writing, BeginOp
<1>3. PICK m : m = [memo[g] EXCEPT ![x] = "pending"]
  OBVIOUS
<1>4. PICK order : order = Append(memOrder[g], x)
  OBVIOUS
<1>5. /\ opLines' = AppendLine(f, [id |-> x, d |-> "pending"])
      /\ memo' = [memo EXCEPT ![g] = [y \in OpIDs |-> IF y \in Evict(order, m).out THEN "none" ELSE m[y]]]
      /\ memOrder' = [memOrder EXCEPT ![g] = Evict(order, m).kept]
      /\ mine' = [mine EXCEPT ![g] = @ \cup {x}] /\ acked' = acked \cup {x} /\ UNCHANGED <<gst, committed>>
  BY <1>2, <1>3, <1>4 DEF BeginOp
<1>a. PICK h : h = AppendLine(f, [id |-> x, d |-> "pending"])
  OBVIOUS
<1>6. FileTrue(h, acked', committed')
  BY <1>1, <1>5, <1>a, LineTrue
<1>7. ASSUME NEW y \in OpIDs, y # x PROVE Replay(h, y) = Replay(f, y)
  <2>1. PICK l \in Done : l = [id |-> x, d |-> "pending"]
    BY DEF Done
  <2>2. l.id = x /\ f \in Seq(Done)
    BY <1>1, <2>1 DEF FileTrue
  <2> QED BY <1>7, <1>a, <2>1, <2>2, ReplayLine
<1>8. order \in Seq(OpIDs) /\ m \in [OpIDs -> {"none", "pending", "sent", "unknown"}]
  BY <1>3, <1>4 DEF OpInv, OpTypes
<1>9. PICK rest : rest = Evict(order, m)
  OBVIOUS
<1>b. /\ rest.kept \in Seq(OpIDs) /\ \A y \in rest.out : m[y] = "sent"
      /\ \A i \in 1 .. Len(order) : order[i] \in rest.out \cup ToSet(rest.kept)
  BY <1>8, <1>9, EvictKeeps
<1>10. PICK n : n = [y \in OpIDs |-> IF y \in rest.out THEN "none" ELSE m[y]]
  OBVIOUS
<1>11. /\ n \in [OpIDs -> {"none", "pending", "sent", "unknown"}]
       /\ \A y \in OpIDs : n[y] = "pending" <=> y = x \/ memo[g][y] = "pending"
  <2>1. \A y \in OpIDs : m[y] = "pending" <=> y = x \/ memo[g][y] = "pending"
    BY <1>3 DEF OpInv, OpTypes
  <2>2. n \in [OpIDs -> {"none", "pending", "sent", "unknown"}]
    BY <1>8, <1>10
  <2> QED BY <1>10, <1>b, <2>1, <2>2
<1>12. /\ opLines' = h /\ memo' = [memo EXCEPT ![g] = n] /\ memOrder' = [memOrder EXCEPT ![g] = rest.kept]
       /\ mine' = [mine EXCEPT ![g] = @ \cup {x}] /\ acked' = acked \cup {x} /\ UNCHANGED <<gst, committed>>
  BY <1>5, <1>9, <1>10, <1>a
<1>13. OpTypes'
  BY <1>12, <1>b, <1>11 DEF OpInv, OpTypes
<1>14. ASSUME NEW y \in OpIDs, n[y] = "pending" PROVE y \in ToSet(rest.kept)
  <2>1. y \in ToSet(memOrder[g]) \/ y = x
    BY <1>11, <1>14 DEF OpInv, Ordered
  <2>2. y \in ToSet(order) /\ DOMAIN order = 1 .. Len(order)
    <3>1. memOrder[g] \in Seq(OpIDs)
      BY DEF OpInv, OpTypes
    <3> QED BY <1>4, <1>8, <2>1, <3>1, AppendSet
  <2>3. PICK i \in 1 .. Len(order) : order[i] = y
    BY <2>2 DEF ToSet
  <2>4. y \notin rest.out
    BY <1>10, <1>14
  <2> QED BY <1>b, <2>3, <2>4
<1>15. Ordered'
  <2>1. ASSUME NEW k \in Gens, NEW y \in OpIDs, memo'[k][y] = "pending"
        PROVE  y \in mine'[k] /\ y \in ToSet(memOrder'[k])
    <3>1. CASE k = g
      <4>1. memo'[k] = n /\ memOrder'[k] = rest.kept /\ mine'[k] = mine[g] \cup {x}
        BY <1>12, <3>1 DEF OpInv, OpTypes
      <4> QED BY <1>11, <1>14, <2>1, <4>1 DEF OpInv, Ordered
    <3>2. CASE k # g
      <4>1. memo'[k] = memo[k] /\ memOrder'[k] = memOrder[k] /\ mine'[k] = mine[k]
        BY <1>12, <3>2 DEF OpInv, OpTypes
      <4> QED BY <2>1, <4>1 DEF OpInv, Ordered
    <3> QED BY <3>1, <3>2
  <2> QED BY <2>1 DEF Ordered
<1>16. HeldNext(h)
  <2>1. \A k \in Gens : memo'[k] = IF k = g THEN n ELSE memo[k]
    BY <1>12 DEF OpInv, OpTypes
  <2>2. gst' = gst /\ gst[g] \in {"open", "exited"} /\ Writing
    BY <1>12 DEF BeginOp, Writing
  <2>3. ASSUME NEW y \in OpIDs, Replay(h, y) = "pending"
        PROVE  \E k \in Gens : gst'[k] \in {"open", "exited"} /\ memo'[k][y] = "pending"
    <3>1. CASE y = x
      BY <1>11, <2>1, <2>2, <3>1
    <3>2. CASE y # x
      <4>1. PICK k \in Gens : gst[k] \in {"open", "exited"} /\ memo[k][y] = "pending"
        BY <1>1, <1>7, <2>2, <2>3, <3>2 DEF PendingHeld
      <4> QED BY <1>11, <2>1, <2>2, <4>1
    <3> QED BY <3>1, <3>2
  <2> QED BY <2>3 DEF HeldNext
<1> QED BY <1>6, <1>12, <1>13, <1>15, <1>16, OpInvNext

LEMMA FinishOpKeeps == ASSUME OpInv, NEW g \in Gens, NEW x \in OpIDs, NEW known \in BOOLEAN, FinishOp(g, x, known) PROVE OpInv'
<1>1. PICK f : FileTrue(f, acked, committed) /\ FileNow(f) /\ PendingHeld(f)
  BY DEF OpInv
<1>2. opLines = f
  BY <1>1 DEF FileNow, Writing, FinishOp
<1>3. PICK d \in {"sent", "unknown"} : d = IF known THEN "sent" ELSE "unknown"
  OBVIOUS
<1>4. /\ opLines' = AppendLine(f, [id |-> x, d |-> d]) /\ memo' = [memo EXCEPT ![g][x] = d]
      /\ committed' = IF known THEN committed \cup {x} ELSE committed
      /\ memo[g][x] = "pending" /\ UNCHANGED <<gst, memOrder, mine, acked>>
  BY <1>2, <1>3 DEF FinishOp
<1>a. PICK h : h = AppendLine(f, [id |-> x, d |-> d])
  OBVIOUS
<1>5. FileTrue(h, acked', committed')
  <2>1. committed \subseteq committed' /\ (d = "sent" => x \in committed') /\ acked' \subseteq acked \cup {x}
    BY <1>3, <1>4
  <2> QED BY <1>1, <1>a, <2>1, LineTrue
<1>6. ASSUME NEW y \in OpIDs PROVE Replay(h, y) = IF y = x THEN d ELSE Replay(f, y)
  <2>1. PICK l \in Done : l = [id |-> x, d |-> d]
    BY DEF Done
  <2>2. l.id = x /\ l.d = d /\ f \in Seq(Done)
    BY <1>1, <2>1 DEF FileTrue
  <2> QED BY <1>a, <2>1, <2>2, ReplayLine
<1>7. OpTypes' /\ Ordered'
  BY <1>4 DEF OpInv, OpTypes, Ordered
<1>8. HeldNext(h)
  <2>1. \A k \in Gens, y \in OpIDs : y # x => memo'[k][y] = memo[k][y]
    BY <1>4 DEF OpInv, OpTypes
  <2>2. gst' = gst /\ Writing
    BY <1>4 DEF FinishOp, Writing
  <2>3. ASSUME NEW y \in OpIDs, Replay(h, y) = "pending"
        PROVE  \E k \in Gens : gst'[k] \in {"open", "exited"} /\ memo'[k][y] = "pending"
    <3>1. y # x /\ Replay(f, y) = "pending"
      BY <1>6, <2>3
    <3>2. PICK k \in Gens : gst[k] \in {"open", "exited"} /\ memo[k][y] = "pending"
      BY <1>1, <2>2, <3>1 DEF PendingHeld
    <3> QED BY <2>1, <2>2, <3>1, <3>2
  <2> QED BY <2>3 DEF HeldNext
<1> QED BY <1>4, <1>5, <1>7, <1>8, <1>a, OpInvNext

LEMMA CloseOpsKeeps == ASSUME OpInv, NEW g \in Gens, CloseOps(g) PROVE OpInv'
<1>1. PICK f : FileTrue(f, acked, committed) /\ FileNow(f) /\ PendingHeld(f)
  BY DEF OpInv
<1>2. opLines = f /\ f \in Seq(Done)
  BY <1>1 DEF FileNow, Writing, CloseOps, FileTrue
<1>3. /\ opLines' = Converted(f, memOrder[g], memo[g]) /\ memo' = [memo EXCEPT ![g] = Held(memo[g])]
      /\ gst' = [gst EXCEPT ![g] = "closed"] /\ UNCHANGED <<memOrder, mine, acked, committed>>
  BY <1>2 DEF CloseOps
<1>4. memOrder[g] \in Seq(OpIDs) /\ memo[g] \in [OpIDs -> {"none", "pending", "sent", "unknown"}]
  BY DEF OpInv, OpTypes
<1>a. PICK order, m : order = memOrder[g] /\ m = memo[g]
  OBVIOUS
<1>b. PICK h : h = Converted(f, order, m)
  OBVIOUS
<1>c. Grown(f, h, m) /\ \A i \in 1 .. Len(order) : m[order[i]] = "pending" => Added(f, h, order[i])
  BY <1>2, <1>4, <1>a, <1>b, ConvertedGrows
<1>5. FileTrue(h, acked', committed')
  BY <1>1, <1>3, <1>c, GrownTrue
<1>6. ASSUME NEW x \in OpIDs, m[x] = "pending" PROVE Added(f, h, x)
  <2>1. x \in ToSet(order) /\ DOMAIN order = 1 .. Len(order)
    BY <1>4, <1>6, <1>a DEF OpInv, Ordered
  <2>2. PICK i \in 1 .. Len(order) : order[i] = x
    BY <2>1 DEF ToSet
  <2> QED BY <1>6, <1>c, <2>2
<1>7. Held(memo[g]) \in [OpIDs -> {"none", "pending", "sent", "unknown"}] /\ \A x \in OpIDs : Held(memo[g])[x] # "pending"
  BY <1>4 DEF Held
<1>8. OpTypes' /\ Ordered'
  BY <1>3, <1>7 DEF OpInv, OpTypes, Ordered
<1>9. HeldNext(h)
  <2>1. \A k \in Gens : k # g => memo'[k] = memo[k] /\ gst'[k] = gst[k]
    BY <1>3 DEF OpInv, OpTypes
  <2>2. Writing
    BY DEF CloseOps, Writing
  <2>3. ASSUME NEW y \in OpIDs, Replay(h, y) = "pending"
        PROVE  \E k \in Gens : gst'[k] \in {"open", "exited"} /\ memo'[k][y] = "pending"
    <3>1. ~Added(f, h, y) /\ Replay(f, y) = "pending"
      BY <1>2, <1>c, <2>3, ReplayGrown
    <3>2. PICK k \in Gens : gst[k] \in {"open", "exited"} /\ memo[k][y] = "pending"
      BY <1>1, <2>2, <3>1 DEF PendingHeld
    <3>3. k # g
      BY <1>6, <1>a, <3>1, <3>2
    <3> QED BY <2>1, <3>2, <3>3
  <2> QED BY <2>3 DEF HeldNext
<1> QED BY <1>3, <1>5, <1>8, <1>9, <1>a, <1>b, OpInvNext

LEMMA OpsEndKeep == ASSUME OpInv, (\E g \in Gens : GenerationExits(g)) \/ ServiceCrash PROVE OpInv'
<1>1. PICK f : FileTrue(f, acked, committed) /\ FileNow(f) /\ PendingHeld(f)
  BY DEF OpInv
<1>2. Writing
  BY DEF Writing, GenerationExits, ServiceCrash
<1>3. opLines = f /\ UNCHANGED <<memo, memOrder, mine, acked, committed>>
  BY <1>1, <1>2 DEF FileNow, GenerationExits, ServiceCrash
<1>4. gst' \in [Gens -> {"none", "open", "exited", "closed", "lost"}]
  BY DEF OpInv, OpTypes, GenerationExits, ServiceCrash
<1>5. FileNow(f)'
  <2>1. CASE opLines' = opLines
    BY <1>3, <2>1 DEF FileNow
  <2>2. CASE ServiceCrash
    <3>1. ~Writing'
      BY <2>2 DEF ServiceCrash, Writing, OpInv, OpTypes
    <3> QED BY <1>3, <2>2, <3>1 DEF ServiceCrash, FileNow
  <2> QED BY <2>1, <2>2 DEF GenerationExits
<1>6. PendingHeld(f)'
  <2>1. CASE ServiceCrash
    <3>1. ~Writing'
      BY <2>1 DEF ServiceCrash, Writing, OpInv, OpTypes
    <3> QED BY <3>1 DEF PendingHeld
  <2>2. CASE \E g \in Gens : GenerationExits(g)
    <3>1. \A k \in Gens : gst[k] \in {"open", "exited"} => gst'[k] \in {"open", "exited"}
      BY <2>2 DEF GenerationExits, OpInv, OpTypes
    <3>2. \A x \in OpIDs : Replay(f, x) = "pending" => \E k \in Gens : gst[k] \in {"open", "exited"} /\ memo[k][x] = "pending"
      BY <1>1, <1>2 DEF PendingHeld
    <3> QED BY <1>3, <3>1, <3>2 DEF PendingHeld
  <2> QED BY <2>1, <2>2
<1> QED BY <1>1, <1>3, <1>4, <1>5, <1>6 DEF OpInv, OpTypes, Ordered

\* Across crashes within a line, any number of generations and whatever an adapter retries or
\* leaves open, a replay of the operations' file knows every operation whose begin was answered
\* and calls none sent that was not finished as known; while a generation writes, the file has
\* nothing pending that no such generation may finish, so that nothing is left pending by a close
\* or a crash; and what a generation has pending its own adapter began (openOpJournal,
\* convertPending, begin, finish).
THEOREM OperationsAreTrue == Spec => []OpsTrue
<1>1. Init => OpInv
  <2> SUFFICES ASSUME Init PROVE OpInv
    OBVIOUS
  <2>1. OpsInit
    BY DEF Init
  <2>2. FileTrue(<<>>, acked, committed) /\ FileNow(<<>>) /\ PendingHeld(<<>>)
    BY <2>1 DEF OpsInit, FileTrue, FileNow, PendingHeld, Writing
  <2>3. OpTypes
    BY <2>1 DEF OpsInit, OpTypes
  <2>4. \A g \in Gens, x \in OpIDs : memo[g][x] # "pending"
    BY <2>1 DEF OpsInit
  <2> QED BY <2>2, <2>3, <2>4 DEF OpInv, Ordered
<1>2. OpInv /\ [Next]_vars => OpInv'
  <2>1. ASSUME OpInv, OpsNext PROVE OpInv'
    BY <2>1, OpenOpsKeeps, BeginOpKeeps, FinishOpKeeps, CloseOpsKeeps, OpsEndKeep DEF OpsNext
  <2>2. ASSUME OpInv, UNCHANGED jvars PROVE OpInv'
    BY <2>2 DEF jvars, OpInv, OpTypes, Ordered, FileNow, PendingHeld, Writing
  <2> QED BY <2>1, <2>2, Parts
<1> QED BY <1>1, <1>2, OpsTold, PTL DEF Spec

(**************************** what the program writes *********************************)
LEMMA ChunkIs ==
    ASSUME NEW o \in Int, NEW k \in Nat
    PROVE  /\ Chunk(o, k) \in Seq(Int) /\ Len(Chunk(o, k)) = k /\ DOMAIN Chunk(o, k) = 1 .. k
           /\ \A i \in 1 .. k : Chunk(o, k)[i] = o + i - 1
  BY DEF Chunk

\* A sequence is the chunk whose bytes it has.
LEMMA IsChunk ==
    ASSUME NEW o \in Int, NEW k \in Nat, NEW s \in Seq(Int), Len(s) = k, \A i \in 1 .. k : s[i] = o + i - 1
    PROVE  s = Chunk(o, k)
<1>1. DOMAIN s = 1 .. k /\ s = [i \in DOMAIN s |-> s[i]]
  OBVIOUS
<1>2. s = [i \in 1 .. k |-> s[i]]
  BY <1>1
<1> QED BY <1>2 DEF Chunk

LEMMA ChunksJoin ==
    ASSUME NEW o \in Int, NEW k \in Nat, NEW j \in Nat, NEW p, p = o + k
    PROVE  Chunk(o, k) \o Chunk(p, j) = Chunk(o, k + j)
<1>1. PICK s, t : s = Chunk(o, k) /\ t = Chunk(p, j)
  OBVIOUS
<1>2. s \in Seq(Int) /\ Len(s) = k /\ \A i \in 1 .. k : s[i] = o + i - 1
  BY <1>1, ChunkIs
<1>a. p \in Int
  OBVIOUS
<1>3. t \in Seq(Int) /\ Len(t) = j /\ \A i \in 1 .. j : t[i] = p + i - 1
  BY <1>1, <1>a, ChunkIs
<1>4. PICK h : h = s \o t
  OBVIOUS
<1>5. h \in Seq(Int) /\ Len(h) = k + j /\ \A i \in 1 .. k + j : h[i] = IF i <= k THEN s[i] ELSE t[i - k]
  BY <1>2, <1>3, <1>4, ConcatProperties
<1>6. \A i \in 1 .. k + j : h[i] = o + i - 1
  BY <1>2, <1>3, <1>5
<1>7. h = Chunk(o, k + j)
  BY <1>5, <1>6, IsChunk
<1> QED BY <1>1, <1>4, <1>7

LEMMA ChunkPart ==
    ASSUME NEW o \in Int, NEW k \in Nat, NEW x \in 1 .. k + 1, NEW y \in 0 .. k, x <= y + 1
    PROVE  SubSeq(Chunk(o, k), x, y) = Chunk(o + x - 1, y - x + 1)
<1>1. PICK s : s = Chunk(o, k)
  OBVIOUS
<1>2. s \in Seq(Int) /\ Len(s) = k /\ \A i \in 1 .. k : s[i] = o + i - 1
  BY <1>1, ChunkIs
<1>3. PICK h : h = SubSeq(s, x, y)
  OBVIOUS
<1>4. h \in Seq(Int) /\ Len(h) = y - x + 1 /\ \A i \in 1 .. y - x + 1 : h[i] = s[x + i - 1]
  BY <1>2, <1>3
<1>5. \A i \in 1 .. y - x + 1 : h[i] = (o + x - 1) + i - 1
  BY <1>2, <1>4
<1>6. h = Chunk(o + x - 1, y - x + 1)
  BY <1>4, <1>5, IsChunk
<1> QED BY <1>1, <1>3, <1>6

LEMMA Wraps ==
    ASSUME NEW x \in Nat, x < 2 * RetainBytes
    PROVE  x % RetainBytes = IF x < RetainBytes THEN x ELSE x - RetainBytes
<1>1. PICK r \in Nat : r = RetainBytes /\ r > 0
  BY TermOutputAssumption
<1>2. x % r = IF x < r THEN x ELSE x - r
  BY <1>1
<1> QED BY <1>1, <1>2

\* The buffer has, from start on and around its end, the bytes from the base on.
RingHolds(r, b, e) ==
    /\ r.start \in 0 .. RetainBytes - 1 /\ r.n \in 0 .. RetainBytes /\ b \in Nat /\ e = b + r.n
    /\ \A p \in 0 .. RetainBytes - 1 :
          LET j == IF p >= r.start THEN p - r.start ELSE p - r.start + RetainBytes
          IN  j < r.n => r.buf[p] = b + j

LEMMA RingRead == ASSUME NEW r, NEW b, NEW e, RingHolds(r, b, e) PROVE RingBytes(r) = Chunk(b, e - b)
<1>1. PICK R \in Nat : R = RetainBytes /\ R > 0
  BY TermOutputAssumption
<1>2. PICK s \in 0 .. R - 1, n \in 0 .. R : s = r.start /\ n = r.n
  BY <1>1 DEF RingHolds
<1>3. b \in Nat /\ e = b + n
  BY <1>2 DEF RingHolds
<1>4. \A p \in 0 .. R - 1 : (p >= s /\ p - s < n => r.buf[p] = b + (p - s)) /\ (p < s /\ p - s + R < n => r.buf[p] = b + (p - s + R))
  BY <1>1, <1>2 DEF RingHolds
<1>5. PICK k \in Nat : k = (IF n < R - s THEN n ELSE R - s) /\ k = Smaller(r.n, RetainBytes - r.start)
  BY <1>1, <1>2 DEF Smaller
<1>6. RingBytes(r) = [i \in 1 .. n |-> IF i <= k THEN r.buf[s + i - 1] ELSE r.buf[i - k - 1]]
  BY <1>1, <1>2, <1>5 DEF RingBytes
<1>7. ASSUME NEW i \in 1 .. n PROVE (IF i <= k THEN r.buf[s + i - 1] ELSE r.buf[i - k - 1]) = b + i - 1
  <2>1. CASE i <= k
    <3>1. s + i - 1 \in 0 .. R - 1 /\ s + i - 1 >= s /\ (s + i - 1) - s = i - 1 /\ i - 1 < n
      BY <1>5, <2>1
    <3>2. r.buf[s + i - 1] = b + ((s + i - 1) - s)
      BY <1>4, <3>1
    <3> QED BY <1>3, <2>1, <3>1, <3>2
  <2>2. CASE i > k
    <3>1. i - k - 1 \in 0 .. R - 1 /\ i - k - 1 < s /\ (i - k - 1) - s + R = i - 1 /\ i - 1 < n
      BY <1>5, <2>2
    <3>2. r.buf[i - k - 1] = b + ((i - k - 1) - s + R)
      BY <1>4, <3>1
    <3> QED BY <1>3, <1>5, <2>2, <3>1, <3>2
  <2> QED BY <1>5, <2>1, <2>2
<1>8. e - b = n
  BY <1>2, <1>3
<1> QED BY <1>6, <1>7, <1>8 DEF Chunk

\* A write at the end keeps what it does not drop.
LEMMA RingWritten ==
    ASSUME NEW r, NEW b, NEW e, RingHolds(r, b, e), NEW k \in Nat
    PROVE  RingHolds(RingWrite(r, Chunk(e, k)), b + Dropped(r, Chunk(e, k)), e + k)
<1>1. PICK R \in Nat : R = RetainBytes /\ R > 0
  BY TermOutputAssumption
<1>2. PICK s \in 0 .. R - 1, n \in 0 .. R : s = r.start /\ n = r.n
  BY <1>1 DEF RingHolds
<1>3. b \in Nat /\ e = b + n /\ e \in Nat
  BY <1>2 DEF RingHolds
<1>4. \A p \in 0 .. R - 1 : (p >= s /\ p - s < n => r.buf[p] = b + (p - s)) /\ (p < s /\ p - s + R < n => r.buf[p] = b + (p - s + R))
  BY <1>1, <1>2 DEF RingHolds
<1>5. PICK c : c = Chunk(e, k)
  OBVIOUS
<1>6. Len(c) = k /\ \A i \in 1 .. k : c[i] = e + i - 1
  <2>1. e \in Int
    BY <1>3
  <2> QED BY <1>5, <2>1, ChunkIs
<1>7. PICK d \in Nat : d = Dropped(r, c) /\ d = IF n + k > R THEN (n + k) - R ELSE 0
  BY <1>1, <1>2, <1>6 DEF Dropped
<1>8. PICK w : w = RingWrite(r, c)
  OBVIOUS
<1>9. CASE k >= R
  <2>1. w = [buf |-> [i \in 0 .. R - 1 |-> c[(k - R) + i + 1]], start |-> 0, n |-> R]
    BY <1>1, <1>6, <1>8, <1>9 DEF RingWrite
  <2>2. w.start = 0 /\ w.n = R /\ w.buf = [i \in 0 .. R - 1 |-> c[(k - R) + i + 1]]
    BY <2>1
  <2>3. e + k = (b + d) + R /\ b + d \in Nat
    BY <1>3, <1>7, <1>9
  <2>4. ASSUME NEW p \in 0 .. R - 1 PROVE w.buf[p] = (b + d) + p
    <3>1. (k - R) + p + 1 \in 1 .. k
      BY <1>1, <1>9
    <3>2. w.buf[p] = e + ((k - R) + p + 1) - 1
      BY <1>6, <2>2, <3>1
    <3> QED BY <1>1, <1>3, <1>7, <1>9, <3>2
  <2>a. \A p \in 0 .. R - 1 : p >= 0 /\ p - 0 = p
    OBVIOUS
  <2>5. RingHolds(w, b + d, e + k)
    <3>1. w.start \in 0 .. RetainBytes - 1 /\ w.n \in 0 .. RetainBytes /\ e + k = (b + d) + w.n
      BY <1>1, <2>2, <2>3
    <3>2. ASSUME NEW p \in 0 .. RetainBytes - 1
          PROVE  (IF p >= w.start THEN p - w.start ELSE p - w.start + RetainBytes) < w.n
                 => w.buf[p] = (b + d) + (IF p >= w.start THEN p - w.start ELSE p - w.start + RetainBytes)
      <4>1. (IF p >= w.start THEN p - w.start ELSE p - w.start + RetainBytes) = p
        BY <1>1, <2>2, <2>a
      <4> QED BY <1>1, <2>4, <4>1
    <3> QED BY <2>3, <3>1, <3>2 DEF RingHolds
  <2> QED BY <1>5, <1>7, <1>8, <2>5
<1>10. CASE k < R
  <2>1. PICK x \in 0 .. R - 1 : x = (r.start + r.n) % RetainBytes /\ x = IF s + n < R THEN s + n ELSE (s + n) - R
    <3>1. s + n \in Nat /\ s + n < 2 * RetainBytes
      BY <1>1
    <3>2. (s + n) % RetainBytes = IF s + n < RetainBytes THEN s + n ELSE (s + n) - RetainBytes
      BY <3>1, Wraps
    <3> QED BY <1>1, <1>2, <3>2
  <2>2. PICK t \in 0 .. R - 1 : /\ t = (IF n + k > R THEN IF s + d < R THEN s + d ELSE (s + d) - R ELSE s)
                                /\ t = IF (r.n + k) - RetainBytes > 0 THEN (r.start + ((r.n + k) - RetainBytes)) % RetainBytes ELSE r.start
    <3>1. s + d \in Nat /\ s + d < 2 * RetainBytes
      BY <1>1, <1>7, <1>10
    <3>2. (s + d) % RetainBytes = IF s + d < RetainBytes THEN s + d ELSE (s + d) - RetainBytes
      BY <3>1, Wraps
    <3>3. CASE n + k > R
      <4>1. d = (r.n + k) - RetainBytes /\ (r.n + k) - RetainBytes > 0
        BY <1>1, <1>2, <1>7, <3>3
      <4> QED BY <1>1, <1>2, <1>7, <1>10, <3>2, <3>3, <4>1
    <3>4. CASE n + k <= R
      BY <1>1, <1>2, <3>4
    <3> QED BY <1>1, <3>3, <3>4
  <2>3. PICK m \in 0 .. R : m = (IF n + k < R THEN n + k ELSE R) /\ m = Smaller(r.n + k, RetainBytes)
    BY <1>1, <1>2 DEF Smaller
  <2>4. PICK f : f = [i \in 0 .. R - 1 |-> LET j == ((i - x) + R) % R IN IF j < k THEN c[j + 1] ELSE r.buf[i]]
    OBVIOUS
  <2>a. CopyAt(r, x, c) = f
    BY <1>1, <1>6, <2>4 DEF CopyAt
  <2>5. w = [buf |-> f, start |-> t, n |-> m]
    <3>1. ~(Len(c) >= RetainBytes)
      BY <1>1, <1>6, <1>10
    <3>2. w = [buf |-> CopyAt(r, (r.start + r.n) % RetainBytes, c),
               start |-> IF (r.n + Len(c)) - RetainBytes > 0 THEN (r.start + ((r.n + Len(c)) - RetainBytes)) % RetainBytes ELSE r.start,
               n |-> Smaller(r.n + Len(c), RetainBytes)]
      BY <1>8, <3>1 DEF RingWrite
    <3>3. (IF (r.n + k) - RetainBytes > 0 THEN (r.start + ((r.n + k) - RetainBytes)) % RetainBytes ELSE r.start) = t
      BY <2>2
    <3> QED BY <1>6, <2>1, <2>3, <2>a, <3>2, <3>3
  <2>6. w.buf = f /\ w.start = t /\ w.n = m
    BY <2>5
  <2>7. ASSUME NEW p \in 0 .. R - 1
        PROVE  LET j == IF p >= x THEN p - x ELSE p - x + R
               IN  f[p] = IF j < k THEN e + j ELSE r.buf[p]
    <3> DEFINE j == IF p >= x THEN p - x ELSE p - x + R
    <3>1. (p - x) + R \in Nat /\ (p - x) + R < 2 * RetainBytes
      BY <1>1
    <3>2. ((p - x) + R) % R = j
      <4>1. ((p - x) + R) % RetainBytes = IF (p - x) + R < RetainBytes THEN (p - x) + R ELSE ((p - x) + R) - RetainBytes
        BY <3>1, Wraps
      <4> QED BY <1>1, <4>1
    <3>3. j \in Nat
      BY <1>1
    <3>4. f[p] = IF j < k THEN c[j + 1] ELSE r.buf[p]
      BY <2>4, <3>2
    <3> HIDE DEF j
    <3>5. j < k => c[j + 1] = e + j
      <4>1. j < k => j + 1 \in 1 .. k /\ e + (j + 1) - 1 = e + j
        BY <1>3, <3>3
      <4> QED BY <1>6, <4>1
    <3>6. f[p] = IF j < k THEN e + j ELSE r.buf[p]
      BY <3>4, <3>5
    <3> QED BY <3>6 DEF j
  <2>8. e + k = (b + d) + m /\ b + d \in Nat
    BY <1>3, <1>7, <2>3
  <2>9. ASSUME NEW p \in 0 .. R - 1
        PROVE  LET j == IF p >= t THEN p - t ELSE p - t + R IN j < m => f[p] = (b + d) + j
    <3>1. PICK y \in 0 .. R - 1 : y = (IF p >= x THEN p - x ELSE p - x + R)
      BY <1>1
    <3>2. f[p] = IF y < k THEN e + y ELSE r.buf[p]
      BY <2>7, <3>1
    <3>3. PICK j \in 0 .. R - 1 : j = (IF p >= t THEN p - t ELSE p - t + R)
      <4>1. CASE p >= t
        BY <4>1
      <4>2. CASE p < t
        <5>1. p - t + R \in 0 .. R - 1
          BY <4>2
        <5> QED BY <4>2, <5>1
      <4> QED BY <4>1, <4>2
    <3>4. PICK i \in 0 .. R - 1 : i = (IF p >= s THEN p - s ELSE p - s + R)
      <4>1. CASE p >= s
        BY <4>1
      <4>2. CASE p < s
        <5>1. p - s + R \in 0 .. R - 1
          BY <4>2
        <5> QED BY <4>2, <5>1
      <4> QED BY <4>1, <4>2
    <3>5. i < n => r.buf[p] = b + i
      BY <1>4, <3>4
    <3>6. ASSUME j < m PROVE f[p] = (b + d) + j
      <4>1. CASE y < k
        <5>1. e + y = (b + d) + j
          BY <1>1, <1>3, <1>7, <1>10, <2>1, <2>2, <2>3, <3>1, <3>3, <3>6, <4>1
        <5> QED BY <3>2, <4>1, <5>1
      <4>2. CASE y >= k
        <5>1. i < n /\ b + i = (b + d) + j
          <6>1. y = IF i >= n THEN i - n ELSE i - n + R
            BY <2>1, <3>1, <3>4
          <6>2. d <= R /\ j = IF i >= d THEN i - d ELSE i - d + R
            <7>1. CASE n + k <= R
              BY <1>7, <2>2, <3>3, <3>4, <7>1
            <7>2. CASE n + k > R
              <8>1. d \in 0 .. R - 1
                BY <1>7, <1>10, <7>2
              <8>2. t = IF s + d < R THEN s + d ELSE (s + d) - R
                BY <2>2, <7>2
              <8> QED BY <3>3, <3>4, <8>1, <8>2
            <7> QED BY <7>1, <7>2
          <6>3. CASE i >= n
            <7>1. i >= n + k /\ d = 0 /\ m = n + k
              BY <1>7, <2>3, <4>2, <6>1, <6>3
            <7> QED BY <3>6, <6>2, <7>1
          <6>4. CASE i < n
            <7>1. i >= d
              BY <1>7, <4>2, <6>1, <6>4
            <7> QED BY <1>3, <6>2, <6>4, <7>1
          <6> QED BY <6>3, <6>4
        <5> QED BY <3>2, <3>5, <4>2, <5>1
      <4> QED BY <4>1, <4>2
    <3> QED BY <3>3, <3>6
  <2>10. RingHolds(w, b + d, e + k)
    BY <1>1, <2>6, <2>8, <2>9 DEF RingHolds
  <2> QED BY <1>5, <1>7, <1>8, <2>10
<1> QED BY <1>1, <1>9, <1>10

\* The chunks of a queue follow one another: the i-th ends at pos[i], where the next begins.
Joined(q, pos) ==
    /\ pos \in [0 .. Len(q) -> Nat]
    /\ \A i \in 1 .. Len(q) : pos[i - 1] <= pos[i] /\ q[i] = Chunk(pos[i - 1], pos[i] - pos[i - 1])
\* A queue has the bytes from a on, up to u.
Runs(q, a, u) ==
    /\ q \in Seq(Seq(Int)) /\ \E pos : Joined(q, pos) /\ pos[0] = a /\ pos[Len(q)] = u

LEMMA RunsEmpty == ASSUME NEW a \in Nat PROVE Runs(<<>>, a, a)
<1>1. PICK pos : pos = [i \in 0 .. 0 |-> a]
  OBVIOUS
<1>2. Joined(<<>>, pos) /\ pos[0] = a /\ Len(<<>>) = 0
  BY <1>1 DEF Joined
<1> QED BY <1>2 DEF Runs

LEMMA RunsAre == ASSUME NEW q, NEW a, NEW u, Runs(q, a, u) PROVE a \in Nat /\ u \in Nat /\ (q = <<>> => a = u)
<1>1. PICK pos : Joined(q, pos) /\ pos[0] = a /\ pos[Len(q)] = u
  BY DEF Runs
<1>2. Len(q) \in Nat /\ pos \in [0 .. Len(q) -> Nat] /\ (q = <<>> => Len(q) = 0)
  BY <1>1 DEF Joined, Runs
<1> QED BY <1>1, <1>2

LEMMA RunsOn ==
    ASSUME NEW q, NEW a, NEW u, Runs(q, a, u), NEW k \in Nat
    PROVE  Runs(Append(q, Chunk(u, k)), a, u + k)
<1>1. PICK pos : Joined(q, pos) /\ pos[0] = a /\ pos[Len(q)] = u
  BY DEF Runs
<1>2. PICK n \in Nat : n = Len(q) /\ q \in Seq(Seq(Int))
  BY DEF Runs
<1>3. u \in Nat /\ pos \in [0 .. n -> Nat] /\ \A i \in 1 .. n : pos[i - 1] <= pos[i] /\ q[i] = Chunk(pos[i - 1], pos[i] - pos[i - 1])
  BY <1>1, <1>2 DEF Joined
<1>4. PICK c \in Seq(Int) : c = Chunk(u, k)
  <2>1. u \in Int
    BY <1>3
  <2> QED BY <2>1, ChunkIs
<1>5. PICK h : h = Append(q, c)
  OBVIOUS
<1>6. h \in Seq(Seq(Int)) /\ Len(h) = n + 1 /\ h[n + 1] = c /\ \A i \in 1 .. n : h[i] = q[i]
  BY <1>2, <1>5
<1>7. PICK to : to = [i \in 0 .. n + 1 |-> IF i = n + 1 THEN u + k ELSE pos[i]]
  OBVIOUS
<1>8. to \in [0 .. n + 1 -> Nat] /\ to[n + 1] = u + k /\ to[0] = a /\ \A i \in 0 .. n : to[i] = pos[i]
  BY <1>1, <1>3, <1>7
<1>9. ASSUME NEW i \in 1 .. n + 1 PROVE to[i - 1] <= to[i] /\ h[i] = Chunk(to[i - 1], to[i] - to[i - 1])
  <2>1. CASE i = n + 1
    <3>1. to[i - 1] = u /\ to[i] = u + k /\ (u + k) - u = k
      BY <1>1, <1>2, <1>3, <1>8, <2>1
    <3> QED BY <1>3, <1>4, <1>6, <2>1, <3>1
  <2>2. CASE i # n + 1
    <3>1. i \in 1 .. n /\ i - 1 \in 0 .. n /\ i \in 0 .. n
      BY <2>2
    <3> QED BY <1>3, <1>6, <1>8, <3>1
  <2> QED BY <2>1, <2>2
<1>10. Joined(h, to)
  BY <1>6, <1>8, <1>9 DEF Joined
<1>11. Runs(h, a, u + k)
  BY <1>6, <1>8, <1>10 DEF Runs
<1> QED BY <1>4, <1>5, <1>11

LEMMA RunsOff ==
    ASSUME NEW q, NEW a, NEW u, Runs(q, a, u), q # <<>>
    PROVE  \E k \in Nat : Head(q) = Chunk(a, k) /\ Len(Head(q)) = k /\ Runs(Tail(q), a + k, u)
<1>1. PICK pos : Joined(q, pos) /\ pos[0] = a /\ pos[Len(q)] = u
  BY DEF Runs
<1>2. PICK n \in Nat : n + 1 = Len(q) /\ q \in Seq(Seq(Int))
  <2>1. q \in Seq(Seq(Int)) /\ Len(q) \in Nat /\ Len(q) # 0
    BY DEF Runs
  <2>2. Len(q) - 1 \in Nat /\ (Len(q) - 1) + 1 = Len(q)
    BY <2>1
  <2> QED BY <2>1, <2>2
<1>3. pos \in [0 .. n + 1 -> Nat] /\ \A i \in 1 .. n + 1 : pos[i - 1] <= pos[i] /\ q[i] = Chunk(pos[i - 1], pos[i] - pos[i - 1])
  BY <1>1, <1>2 DEF Joined
<1>a. pos[0] \in Nat /\ pos[1] \in Nat /\ pos[0] <= pos[1] /\ q[1] = Chunk(pos[0], pos[1] - pos[0])
  <2>1. 1 \in 1 .. n + 1 /\ 1 - 1 = 0 /\ 1 \in 0 .. n + 1 /\ 0 \in 0 .. n + 1
    OBVIOUS
  <2> QED BY <1>3, <2>1
<1>4. PICK k \in Nat : k = pos[1] - pos[0]
  BY <1>a
<1>5. Head(q) = Chunk(a, k) /\ Len(Head(q)) = k
  <2>1. Head(q) = q[1] /\ a \in Int
    BY <1>1, <1>2, <1>a
  <2>2. Head(q) = Chunk(a, k)
    BY <1>1, <1>4, <1>a, <2>1
  <2> QED BY <2>1, <2>2, ChunkIs
<1>6. PICK h : h = Tail(q)
  OBVIOUS
<1>7. h \in Seq(Seq(Int)) /\ Len(h) = n /\ \A i \in 1 .. n : h[i] = q[i + 1]
  BY <1>2, <1>6
<1>8. PICK to : to = [i \in 0 .. n |-> pos[i + 1]]
  OBVIOUS
<1>9. to \in [0 .. n -> Nat] /\ to[0] = a + k /\ to[n] = u
  BY <1>1, <1>2, <1>3, <1>4, <1>8, <1>a
<1>10. ASSUME NEW i \in 1 .. n PROVE to[i - 1] <= to[i] /\ h[i] = Chunk(to[i - 1], to[i] - to[i - 1])
  <2>1. i + 1 \in 1 .. n + 1 /\ (i + 1) - 1 = i /\ i - 1 \in 0 .. n /\ (i - 1) + 1 = i /\ i \in 0 .. n
    OBVIOUS
  <2>2. to[i - 1] = pos[i] /\ to[i] = pos[i + 1]
    BY <1>8, <2>1
  <2> QED BY <1>3, <1>7, <2>1, <2>2
<1>11. Joined(h, to)
  BY <1>7, <1>9, <1>10 DEF Joined
<1>12. Runs(h, a + k, u)
  BY <1>7, <1>9, <1>11 DEF Runs
<1> QED BY <1>5, <1>6, <1>12

FlatAt(q, c, i) == IF i = 1 THEN q[i] ELSE c[i - 1] \o q[i]
LEMMA FlatIs ==
    ASSUME NEW q, Len(q) \in Nat, Len(q) # 0
    PROVE  \E c : c = [i \in 1 .. Len(q) |-> FlatAt(q, c, i)] /\ FlattenSeq(q) = c[Len(q)]
<1> DEFINE P == {n \in Nat : \E c : c = [i \in 1 .. n |-> FlatAt(q, c, i)]}
<1>1. 0 \in P
  <2> DEFINE d == [i \in 1 .. 0 |-> <<>>]
  <2>1. d = [i \in 1 .. 0 |-> FlatAt(q, d, i)]
    BY DEF FlatAt
  <2> QED BY <2>1
<1>2. ASSUME NEW n \in Nat, n \in P PROVE n + 1 \in P
  <2>1. PICK c : c = [i \in 1 .. n |-> FlatAt(q, c, i)]
    BY <1>2
  <2> DEFINE d == [i \in 1 .. n + 1 |-> IF i = n + 1 THEN FlatAt(q, c, i) ELSE c[i]]
  <2>2. ASSUME NEW i \in 1 .. n + 1 PROVE FlatAt(q, d, i) = FlatAt(q, c, i)
    <3>1. i # 1 => i - 1 \in 1 .. n + 1 /\ i - 1 # n + 1
      OBVIOUS
    <3>2. i # 1 => d[i - 1] = c[i - 1]
      BY <3>1
    <3> HIDE DEF d
    <3> QED BY <3>2 DEF FlatAt
  <2>3. \A i \in 1 .. n + 1 : d[i] = FlatAt(q, c, i)
    BY <2>1
  <2>4. d = [i \in 1 .. n + 1 |-> FlatAt(q, d, i)]
    BY <2>2, <2>3
  <2> HIDE DEF d
  <2>5. \E e : e = [i \in 1 .. n + 1 |-> FlatAt(q, e, i)]
    BY <2>4
  <2> QED BY <2>5
<1>3. Len(q) \in P
  <2> HIDE DEF P
  <2> QED BY <1>1, <1>2, AllNats
<1>4. \E c : c = [i \in 1 .. Len(q) |-> FlatAt(q, c, i)]
  BY <1>3
<1>5. FlattenSeq(q) = (CHOOSE c : c = [i \in 1 .. Len(q) |-> FlatAt(q, c, i)])[Len(q)]
  BY DEF FlattenSeq, FlatAt
<1> QED BY <1>4, <1>5

\* What waits for a client, read one chunk after the other, is one chunk of the stream.
LEMMA RunsFlat == ASSUME NEW q, NEW a, NEW u, Runs(q, a, u) PROVE FlattenSeq(q) = Chunk(a, u - a) /\ a <= u
<1>1. PICK pos : Joined(q, pos) /\ pos[0] = a /\ pos[Len(q)] = u
  BY DEF Runs
<1>2. PICK len \in Nat : len = Len(q) /\ q \in Seq(Seq(Int))
  BY DEF Runs
<1>3. pos \in [0 .. len -> Nat] /\ \A i \in 1 .. len : pos[i - 1] <= pos[i] /\ q[i] = Chunk(pos[i - 1], pos[i] - pos[i - 1])
  BY <1>1, <1>2 DEF Joined
<1>a. a \in Nat /\ u \in Nat
  <2>1. 0 \in 0 .. len /\ len \in 0 .. len
    OBVIOUS
  <2> QED BY <1>1, <1>2, <1>3, <2>1
<1>4. CASE len = 0
  <2>a. q = <<>>
    BY <1>2, <1>4, EmptySeq
  <2>b. u = a
    BY <1>1, <1>2, <1>4
  <2>1. q = <<>> /\ u = a /\ u - a = 0
    BY <1>a, <2>a, <2>b
  <2>2. Chunk(a, 0) = <<>>
    BY DEF Chunk
  <2> QED BY <1>2, <1>4, <1>a, <2>1, <2>2 DEF FlattenSeq
<1>5. CASE len # 0
  <2>1. PICK c : c = [i \in 1 .. len |-> FlatAt(q, c, i)] /\ FlattenSeq(q) = c[len]
    BY <1>2, <1>5, FlatIs
  <2> DEFINE P == {n \in Nat : n + 1 <= len => pos[n + 1] >= a /\ c[n + 1] = Chunk(a, pos[n + 1] - a)}
  <2>2. 0 \in P
    <3>1. 1 \in 1 .. len /\ 1 - 1 = 0 /\ 0 + 1 = 1
      BY <1>5
    <3>2. c[1] = q[1]
      BY <2>1, <3>1 DEF FlatAt
    <3> QED BY <1>1, <1>3, <3>1, <3>2
  <2>3. ASSUME NEW n \in Nat, n \in P PROVE n + 1 \in P
    <3> SUFFICES ASSUME (n + 1) + 1 <= len
                 PROVE  pos[(n + 1) + 1] >= a /\ c[(n + 1) + 1] = Chunk(a, pos[(n + 1) + 1] - a)
      OBVIOUS
    <3>1. n + 2 \in 1 .. len /\ n + 1 \in 0 .. len /\ (n + 2) - 1 = n + 1 /\ n + 2 # 1 /\ (n + 1) + 1 = n + 2 /\ n + 2 \in 0 .. len
      OBVIOUS
    <3>2. pos[n + 1] >= a /\ c[n + 1] = Chunk(a, pos[n + 1] - a)
      BY <2>3, <3>1
    <3>3. c[n + 2] = c[n + 1] \o q[n + 2]
      BY <2>1, <3>1 DEF FlatAt
    <3>4. q[n + 2] = Chunk(pos[n + 1], pos[n + 2] - pos[n + 1]) /\ pos[n + 1] <= pos[n + 2]
      BY <1>3, <3>1
    <3>5. PICK k \in Nat, j \in Nat : k = pos[n + 1] - a /\ j = pos[n + 2] - pos[n + 1]
      BY <1>1, <1>3, <3>1, <3>2, <3>4
    <3>6. a \in Int /\ pos[n + 1] = a + k /\ k + j = pos[n + 2] - a /\ pos[n + 2] >= a
      <4>1. pos[n + 1] \in Nat /\ pos[n + 2] \in Nat
        BY <1>3, <3>1
      <4> QED BY <1>a, <3>4, <3>5, <4>1
    <3>7. c[n + 2] = Chunk(a, k + j)
      <4>1. c[n + 2] = Chunk(a, k) \o Chunk(pos[n + 1], j)
        BY <3>2, <3>3, <3>4, <3>5
      <4> QED BY <3>6, <4>1, ChunksJoin
    <3> QED BY <3>1, <3>6, <3>7
  <2>4. len - 1 \in P
    <3> HIDE DEF P
    <3>1. len - 1 \in Nat
      BY <1>5
    <3> QED BY <2>2, <2>3, <3>1, AllNats
  <2>5. (len - 1) + 1 = len
    OBVIOUS
  <2>6. pos[len] >= a /\ c[len] = Chunk(a, pos[len] - a)
    BY <2>4, <2>5
  <2> QED BY <1>1, <1>2, <1>a, <2>1, <2>6
<1> QED BY <1>4, <1>5

\* The log file: the bytes before u in order and once, and from o on every one of them unless it
\* is gone or the file is full.
FileHolds(f, o, u, gone) ==
    /\ f \in Seq(Int) /\ Len(f) <= logBound /\ u \in Nat /\ o \in Nat
    /\ \A i \in 1 .. Len(f) : f[i] < u
    /\ \A i, j \in 1 .. Len(f) : i < j => f[i] < f[j]
    /\ \A x \in o .. u - 1 : x \in gone \/ Len(f) = logBound \/ \E i \in 1 .. Len(f) : f[i] = x

\* What is appended, up to the bound, is further on.
LEMMA LoggedHolds ==
    ASSUME NEW f, NEW o, NEW u, NEW gone, FileHolds(f, o, u, gone), NEW p \in Nat, u <= p, NEW k \in Nat,
           NEW b, b = Chunk(p, k), NEW more, gone \subseteq more, u .. p - 1 \subseteq more
    PROVE  FileHolds(Logged(f, b), o, p + k, more)
<1>1. /\ f \in Seq(Int) /\ Len(f) \in Nat /\ Len(f) <= logBound /\ logBound \in Nat /\ u \in Nat /\ o \in Nat
      /\ \A i \in 1 .. Len(f) : f[i] < u
  BY TermOutputAssumption DEF FileHolds
<1>2. Len(b) = k /\ p \in Int
  BY ChunkIs
<1>3. PICK m \in 0 .. k : m = Smaller(Len(b), logBound - Len(f)) /\ m = IF k < logBound - Len(f) THEN k ELSE logBound - Len(f)
  <2>1. CASE k < logBound - Len(f)
    BY <1>1, <1>2, <2>1 DEF Smaller
  <2>2. CASE ~(k < logBound - Len(f))
    <3>1. logBound - Len(f) \in 0 .. k
      BY <1>1, <2>2
    <3> QED BY <1>1, <1>2, <2>2, <3>1 DEF Smaller
  <2> QED BY <2>1, <2>2
<1>4. PICK c : c = Chunk(p, m)
  OBVIOUS
<1>5. SubSeq(b, 1, m) = c
  <2>1. 1 \in 1 .. k + 1 /\ 1 <= m + 1 /\ p + 1 - 1 = p /\ m - 1 + 1 = m
    OBVIOUS
  <2>2. SubSeq(Chunk(p, k), 1, m) = Chunk(p + 1 - 1, m - 1 + 1)
    BY <1>2, <2>1, ChunkPart
  <2> QED BY <1>4, <2>1, <2>2
<1>6. c \in Seq(Int) /\ Len(c) = m /\ \A i \in 1 .. m : c[i] = p + i - 1
  <2>1. m \in Nat
    OBVIOUS
  <2> QED BY <1>2, <1>4, <2>1, ChunkIs
<1>7. PICK h : h = Logged(f, b)
  OBVIOUS
<1>8. PICK n \in Nat : n = Len(f)
  BY <1>1
<1>9. h = f \o c
  BY <1>3, <1>5, <1>7 DEF Logged
<1>10. h \in Seq(Int) /\ Len(h) = n + m /\ \A i \in 1 .. n + m : h[i] = IF i <= n THEN f[i] ELSE c[i - n]
  BY <1>1, <1>6, <1>8, <1>9, ConcatProperties
<1>11. \A i \in 1 .. n : i \in 1 .. n + m /\ h[i] = f[i] /\ h[i] < u /\ f[i] \in Int
  BY <1>1, <1>8, <1>10
<1>12. ASSUME NEW i \in 1 .. n + m, i > n PROVE h[i] = p + (i - n) - 1
  <2>1. i - n \in 1 .. m
    BY <1>12
  <2> QED BY <1>6, <1>10, <1>12, <2>1
<1>13. \A i \in 1 .. Len(h) : h[i] < p + k
  <2> SUFFICES ASSUME NEW i \in 1 .. n + m PROVE h[i] < p + k
    BY <1>10
  <2>1. CASE i <= n
    <3>1. i \in 1 .. n
      BY <2>1
    <3>2. h[i] = f[i] /\ f[i] < u /\ f[i] \in Int
      BY <1>11, <3>1
    <3> QED BY <1>1, <3>2
  <2>2. CASE i > n
    BY <1>12, <2>2
  <2> QED BY <2>1, <2>2
<1>14. \A i, j \in 1 .. Len(h) : i < j => h[i] < h[j]
  <2> SUFFICES ASSUME NEW i \in 1 .. n + m, NEW j \in 1 .. n + m, i < j PROVE h[i] < h[j]
    BY <1>10
  <2>1. CASE j <= n
    <3>1. i \in 1 .. n /\ j \in 1 .. n
      BY <2>1
    <3>2. f[i] < f[j]
      BY <1>8, <3>1 DEF FileHolds
    <3> QED BY <1>11, <3>1, <3>2
  <2>2. CASE i <= n /\ j > n
    <3>1. i \in 1 .. n /\ h[j] = p + (j - n) - 1
      BY <1>12, <2>2
    <3>2. h[i] = f[i] /\ f[i] < u /\ f[i] \in Int
      BY <1>11, <3>1
    <3> QED BY <1>1, <2>2, <3>1, <3>2
  <2>3. CASE i > n
    <3>1. j > n
      BY <2>3
    <3> QED BY <1>12, <2>3, <3>1
  <2> QED BY <2>1, <2>2, <2>3
<1>15. ASSUME NEW x \in o .. (p + k) - 1
       PROVE  x \in more \/ Len(h) = logBound \/ \E i \in 1 .. Len(h) : h[i] = x
  <2>1. CASE x < u
    <3>1. x \in o .. u - 1
      BY <1>1, <2>1
    <3>2. x \in gone \/ Len(f) = logBound \/ \E i \in 1 .. Len(f) : f[i] = x
      BY <3>1 DEF FileHolds
    <3>3. CASE Len(f) = logBound
      BY <1>3, <1>8, <1>10, <3>3
    <3>4. CASE \E i \in 1 .. Len(f) : f[i] = x
      <4>1. PICK i \in 1 .. n : f[i] = x
        BY <1>8, <3>4
      <4>2. i \in 1 .. Len(h) /\ h[i] = x
        BY <1>10, <1>11, <4>1
      <4> QED BY <4>2
    <3> QED BY <3>2, <3>3, <3>4
  <2>2. CASE x >= u /\ x < p
    BY <1>1, <2>2
  <2>3. CASE x >= p
    <3>1. CASE x - p + 1 <= m
      <4>1. PICK i \in 1 .. n + m : i = n + (x - p + 1)
        BY <1>1, <2>3, <3>1
      <4>2. i > n /\ p + (i - n) - 1 = x
        BY <1>1, <2>3, <4>1
      <4>3. h[i] = x
        BY <1>12, <4>2
      <4> QED BY <1>10, <4>3
    <3>2. CASE x - p + 1 > m
      <4>1. m < k
        BY <1>1, <2>3, <3>2
      <4> QED BY <1>1, <1>3, <1>8, <1>10, <4>1
    <3> QED BY <1>1, <3>1, <3>2
  <2> QED BY <1>1, <2>1, <2>2, <2>3
<1>16. Len(h) <= logBound
  BY <1>1, <1>3, <1>8, <1>10
<1>17. FileHolds(h, o, p + k, more)
  BY <1>1, <1>10, <1>13, <1>14, <1>15, <1>16 DEF FileHolds
<1> QED BY <1>7, <1>17

\* Where what waits for a client ends: where it fell behind, or the end.
UpTo(c) == IF behind[c] THEN gapAt[c] ELSE end
OutTypes ==
    /\ ended \in BOOLEAN /\ events \in [Viewers -> Seq(Seq(Int))] /\ behind \in [Viewers -> BOOLEAN]
    /\ gapAt \in [Viewers -> Nat] /\ at \in [Viewers -> Int] /\ left \in [Viewers -> BOOLEAN]
\* A client that is not there yet has nothing waiting; one that is has the stream from where it is.
ClientHolds(c) ==
    /\ Len(events[c]) <= viewerQueue
    /\ left[c] => ended
    /\ at[c] = -1 => events[c] = <<>> /\ ~behind[c]
    /\ at[c] # -1 => Runs(events[c], at[c], UpTo(c)) /\ UpTo(c) <= end
LogHolds ==
    IF at["log"] = -1 THEN file = <<>> ELSE FileHolds(file, logFrom, at["log"], lost)
OutInv ==
    /\ OutTypes /\ RingHolds(ring, base, end) /\ LogHolds
    /\ \A c \in Viewers : ClientHolds(c)

LEMMA OutIs ==
    ASSUME OutInv
    PROVE  /\ base \in Nat /\ end \in Nat /\ base <= end /\ ring.n = end - base
           /\ RingBytes(ring) = Chunk(base, end - base)
           /\ \A c \in Viewers : at[c] # -1 => at[c] \in Nat /\ UpTo(c) \in Nat /\ at[c] <= UpTo(c) /\ UpTo(c) <= end
<1>1. RingHolds(ring, base, end)
  BY DEF OutInv
<1>2. base \in Nat /\ ring.n \in Nat /\ end = base + ring.n
  BY <1>1, TermOutputAssumption DEF RingHolds
<1>3. RingBytes(ring) = Chunk(base, end - base)
  BY <1>1, RingRead
<1>4. ASSUME NEW c \in Viewers, at[c] # -1 PROVE at[c] \in Nat /\ UpTo(c) \in Nat /\ at[c] <= UpTo(c) /\ UpTo(c) <= end
  <2>1. Runs(events[c], at[c], UpTo(c)) /\ UpTo(c) <= end
    BY <1>4 DEF OutInv, ClientHolds
  <2> QED BY <2>1, RunsAre, RunsFlat
<1> QED BY <1>2, <1>3, <1>4

LEMMA OutputTold == ASSUME OutInv PROVE OutputExact
<1>1. ASSUME NEW c \in Viewers, at[c] # -1 PROVE FlattenSeq(events[c]) = Chunk(at[c], UpTo(c) - at[c])
  BY <1>1, RunsFlat DEF OutInv, ClientHolds
<1>2. StreamExact
  BY <1>1, OutIs DEF StreamExact, UpTo
<1>3. LogExact
  <2>1. CASE at["log"] = -1
    <3>1. file = <<>> /\ Len(file) = 0
      BY <2>1 DEF OutInv, LogHolds
    <3> QED BY <2>1, <3>1 DEF LogExact
  <2>2. CASE at["log"] # -1
    <3>1. FileHolds(file, logFrom, at["log"], lost)
      BY <2>2 DEF OutInv, LogHolds
    <3>2. \A i \in 1 .. Len(file) - 1 : i \in 1 .. Len(file) /\ i + 1 \in 1 .. Len(file) /\ i < i + 1
      BY <3>1 DEF FileHolds
    <3> QED BY <3>1, <3>2 DEF FileHolds, LogExact
  <2> QED BY <2>1, <2>2
<1> QED BY <1>2, <1>3 DEF OutputExact

LEMMA OutputKeeps == ASSUME OutInv, NEW k \in 1 .. MaxChunk, Output(k) PROVE OutInv'
<1> DEFINE present == {c \in Viewers : at[c] # -1 /\ ~left[c]}
           takes == {c \in present : ~behind[c] /\ Len(events[c]) < viewerQueue}
           misses == {c \in present : ~behind[c] /\ Len(events[c]) = viewerQueue}
<1>1. PICK b, e, n : b = Chunk(end, k) /\ e = end /\ n = end + k /\ e \in Nat /\ n \in Nat /\ k \in Nat /\ e <= n
  BY OutIs
<1>2. /\ ~ended /\ ring' = RingWrite(ring, b) /\ base' = base + Dropped(ring, b) /\ end' = n
      /\ events' = [c \in Viewers |-> IF c \in takes THEN Append(events[c], b) ELSE events[c]]
      /\ behind' = [c \in Viewers |-> behind[c] \/ c \in misses]
      /\ gapAt' = [c \in Viewers |-> IF c \in misses THEN e ELSE gapAt[c]]
      /\ UNCHANGED <<ended, at, left, file, logFrom, lost>>
  BY <1>1 DEF Output, logFile
<1>3. RingHolds(ring', base', end')
  BY <1>1, <1>2, RingWritten DEF OutInv
<1>4. LogHolds'
  BY <1>2 DEF OutInv, LogHolds
<1>5. b \in Seq(Int)
  <2>1. end \in Int
    BY OutIs
  <2> QED BY <1>1, <2>1, ChunkIs
<1>6. OutTypes'
  <2>1. \A c \in Viewers : Append(events[c], b) \in Seq(Seq(Int)) /\ events[c] \in Seq(Seq(Int))
    BY <1>5 DEF OutInv, OutTypes
  <2>2. events' \in [Viewers -> Seq(Seq(Int))]
    BY <1>2, <2>1
  <2>3. gapAt' \in [Viewers -> Nat] /\ behind' \in [Viewers -> BOOLEAN]
    BY <1>1, <1>2 DEF OutInv, OutTypes
  <2> QED BY <1>2, <2>2, <2>3 DEF OutInv, OutTypes
<1>7. ASSUME NEW c \in Viewers PROVE ClientHolds(c)'
  <2>1. ClientHolds(c) /\ ~left[c]
    BY <1>2 DEF OutInv, ClientHolds
  <2>2. events[c] \in Seq(Seq(Int)) /\ Len(events[c]) \in Nat /\ viewerQueue \in Nat /\ behind[c] \in BOOLEAN
    BY TermOutputAssumption DEF OutInv, OutTypes
  <2>3. UNCHANGED <<at, left, ended>>
    BY <1>2
  <2>4. CASE at[c] = -1
    <3>1. c \notin takes /\ c \notin misses
      BY <2>4
    <3>2. events'[c] = events[c] /\ behind'[c] = behind[c]
      <4> HIDE DEF takes, misses
      <4> QED BY <1>2, <2>2, <3>1
    <3> QED BY <2>1, <2>3, <2>4, <3>2 DEF ClientHolds
  <2>5. CASE at[c] # -1 /\ behind[c]
    <3>1. c \notin takes /\ c \notin misses
      BY <2>5
    <3>2. events'[c] = events[c] /\ behind'[c] = behind[c] /\ gapAt'[c] = gapAt[c]
      <4> HIDE DEF takes, misses
      <4> QED BY <1>2, <2>2, <3>1
    <3>3. UpTo(c) = gapAt[c] /\ UpTo(c)' = gapAt[c] /\ Runs(events[c], at[c], gapAt[c]) /\ gapAt[c] <= end
      BY <2>1, <2>5, <3>2 DEF UpTo, ClientHolds
    <3>4. gapAt[c] <= n
      BY <1>1, <3>3 DEF OutInv, OutTypes
    <3>5. Runs(events'[c], at'[c], gapAt[c]) /\ gapAt[c] <= end'
      BY <1>2, <2>3, <3>2, <3>3, <3>4
    <3> QED BY <2>1, <2>3, <2>5, <3>2, <3>3, <3>5 DEF ClientHolds
  <2>6. CASE at[c] # -1 /\ ~behind[c] /\ Len(events[c]) < viewerQueue
    <3>1. c \in takes /\ c \notin misses
      BY <2>1, <2>2, <2>6
    <3>2. events'[c] = Append(events[c], b) /\ behind'[c] = behind[c]
      <4> HIDE DEF takes, misses
      <4> QED BY <1>2, <2>2, <3>1
    <3>3. UpTo(c) = e /\ UpTo(c)' = n /\ Runs(events[c], at[c], e)
      BY <1>1, <1>2, <2>1, <2>6, <3>2 DEF UpTo, ClientHolds
    <3>4. Runs(Append(events[c], b), at[c], n)
      BY <1>1, <3>3, RunsOn
    <3>5. Len(Append(events[c], b)) = Len(events[c]) + 1
      BY <1>5, <2>2
    <3>6. Len(events'[c]) <= viewerQueue
      BY <2>2, <2>6, <3>2, <3>5
    <3> QED BY <1>1, <1>2, <2>1, <2>3, <2>6, <3>2, <3>3, <3>4, <3>6 DEF ClientHolds
  <2>7. CASE at[c] # -1 /\ ~behind[c] /\ Len(events[c]) = viewerQueue
    <3>1. c \notin takes /\ c \in misses
      BY <2>1, <2>2, <2>7
    <3>2. events'[c] = events[c] /\ behind'[c] = TRUE /\ gapAt'[c] = e
      BY <1>2, <3>1
    <3>3. UpTo(c) = e /\ UpTo(c)' = e /\ Runs(events[c], at[c], e)
      BY <1>1, <1>2, <2>1, <2>7, <3>2 DEF UpTo, ClientHolds
    <3> QED BY <1>1, <1>2, <2>1, <2>3, <2>7, <3>2, <3>3 DEF ClientHolds
  <2> QED BY <2>1, <2>2, <2>4, <2>5, <2>6, <2>7 DEF ClientHolds
<1>8. (\A c \in Viewers : ClientHolds(c))'
  BY <1>7
<1> QED BY <1>3, <1>4, <1>6, <1>8 DEF OutInv

\* A step that moves one client only.
LEMMA OneClient ==
    ASSUME OutInv, NEW v \in Viewers, UNCHANGED <<ring, base, end>>, OutTypes', ClientHolds(v)', LogHolds',
           ended => ended',
           \A c \in Viewers \ {v} : events'[c] = events[c] /\ behind'[c] = behind[c] /\ gapAt'[c] = gapAt[c]
                                    /\ at'[c] = at[c] /\ left'[c] = left[c]
    PROVE  OutInv'
<1>1. ASSUME NEW c \in Viewers PROVE ClientHolds(c)'
  <2>1. CASE c = v
    BY <2>1
  <2>2. CASE c # v
    <3>1. events'[c] = events[c] /\ behind'[c] = behind[c] /\ gapAt'[c] = gapAt[c] /\ at'[c] = at[c] /\ left'[c] = left[c] /\ end' = end
      BY <2>2
    <3>2. UpTo(c)' = UpTo(c)
      BY <3>1 DEF UpTo
    <3> QED BY <3>1, <3>2 DEF ClientHolds, OutInv
  <2> QED BY <2>1, <2>2
<1>2. RingHolds(ring', base', end')
  BY DEF OutInv
<1>3. (\A c \in Viewers : ClientHolds(c))'
  BY <1>1
<1> QED BY <1>2, <1>3 DEF OutInv

LEMMA OutputEndKeeps == ASSUME OutInv, ProgramEnds PROVE OutInv'
<1>1. UNCHANGED <<ring, base, end, events, behind, gapAt, at, left, file, logFrom, lost>> /\ ended' = TRUE
  BY DEF ProgramEnds, logFile
<1>2. OutTypes' /\ LogHolds'
  BY <1>1 DEF OutInv, OutTypes, LogHolds
<1>3. ClientHolds("log")'
  BY <1>1 DEF OutInv, ClientHolds, UpTo, Viewers
<1> QED BY <1>1, <1>2, <1>3, OneClient DEF Viewers

LEMMA ReturnKeeps == ASSUME OutInv, NEW c \in Viewers, Return(c) PROVE OutInv'
<1>1. /\ UNCHANGED <<ring, base, end, ended, events, behind, gapAt, at, file, logFrom, lost>> /\ ended
      /\ left' = [left EXCEPT ![c] = TRUE]
  BY DEF Return, logFile
<1>2. OutTypes' /\ LogHolds'
  BY <1>1 DEF OutInv, OutTypes, LogHolds
<1>3. ClientHolds(c)'
  BY <1>1 DEF OutInv, ClientHolds, UpTo
<1>4. \A d \in Viewers \ {c} : left'[d] = left[d]
  BY <1>1 DEF OutInv, OutTypes
<1> QED BY <1>1, <1>2, <1>3, <1>4, OneClient

\* A client that begins has the snapshot and nothing waits for it.
LEMMA AttachHolds ==
    ASSUME OutInv, NEW c \in Viewers, at[c] = -1, at' = [at EXCEPT ![c] = end],
           UNCHANGED <<ring, base, end, ended, events, behind, gapAt, left>>
    PROVE  OutTypes' /\ ClientHolds(c)' /\ at'[c] = end /\ \A d \in Viewers \ {c} : at'[d] = at[d]
<1>1. end \in Nat
  BY OutIs
<1>2. at'[c] = end /\ \A d \in Viewers \ {c} : at'[d] = at[d]
  BY DEF OutInv, OutTypes
<1>3. OutTypes'
  BY <1>1 DEF OutInv, OutTypes
<1>4. events[c] = <<>> /\ ~behind[c]
  BY DEF OutInv, ClientHolds
<1>5. Runs(<<>>, end, end)
  BY <1>1, RunsEmpty
<1>6. UpTo(c)' = end
  BY <1>4 DEF UpTo
<1>7. ClientHolds(c)'
  BY <1>1, <1>2, <1>4, <1>5, <1>6 DEF OutInv, ClientHolds
<1> QED BY <1>2, <1>3, <1>7

LEMMA ViewAttachKeeps == ASSUME OutInv, ViewAttach PROVE OutInv'
<1>1. /\ at["attach"] = -1 /\ at' = [at EXCEPT !["attach"] = end] /\ "attach" \in Viewers /\ "log" \in Viewers \ {"attach"}
      /\ UNCHANGED <<ring, base, end, ended, events, behind, gapAt, left, file, logFrom, lost>>
  BY DEF ViewAttach, logFile, Viewers
<1>2. OutTypes' /\ ClientHolds("attach")' /\ \A d \in Viewers \ {"attach"} : at'[d] = at[d]
  BY <1>1, AttachHolds
<1>3. LogHolds'
  BY <1>1, <1>2 DEF OutInv, LogHolds
<1> QED BY <1>1, <1>2, <1>3, OneClient

\* Nothing logged yet is all of nothing.
LEMMA NothingLogged == ASSUME NEW o \in Nat, NEW gone PROVE FileHolds(<<>>, o, o, gone)
<1>1. <<>> \in Seq(Int) /\ Len(<<>>) = 0 /\ 0 <= logBound /\ o .. o - 1 = {}
  BY TermOutputAssumption
<1> QED BY <1>1 DEF FileHolds

LEMMA LogAttachKeeps == ASSUME OutInv, LogAttach PROVE OutInv'
<1>1. /\ at["log"] = -1 /\ at' = [at EXCEPT !["log"] = end] /\ "log" \in Viewers
      /\ UNCHANGED <<ring, base, end, ended, events, behind, gapAt, left, lost>>
      /\ logFrom' = base /\ file' = Logged(<<>>, RingBytes(ring))
  BY DEF LogAttach, Viewers
<1>2. OutTypes' /\ ClientHolds("log")' /\ at'["log"] = end /\ \A d \in Viewers \ {"log"} : at'[d] = at[d]
  BY <1>1, AttachHolds
<1>3. LogHolds'
  <2>1. PICK k \in Nat : k = end - base
    BY OutIs
  <2>2. base \in Nat /\ base + k = end /\ end # -1 /\ base .. base - 1 = {} /\ RingBytes(ring) = Chunk(base, k)
    BY <2>1, OutIs
  <2>3. FileHolds(<<>>, base, base, lost)
    BY <2>2, NothingLogged
  <2>4. FileHolds(Logged(<<>>, RingBytes(ring)), base, end, lost)
    <3>1. base <= base /\ base .. base - 1 \subseteq lost /\ lost \subseteq lost
      BY <2>2
    <3>2. FileHolds(Logged(<<>>, RingBytes(ring)), base, base + k, lost)
      BY <2>2, <2>3, <3>1, LoggedHolds
    <3> QED BY <2>2, <3>2
  <2> QED BY <1>1, <1>2, <2>2, <2>4 DEF LogHolds
<1> QED BY <1>1, <1>2, <1>3, OneClient

\* A client that is there takes the next chunk.
LEMMA EventHolds ==
    ASSUME OutInv, NEW c \in Viewers, events[c] # <<>>, at' = [at EXCEPT ![c] = @ + Len(Head(events[c]))],
           events' = [events EXCEPT ![c] = Tail(@)], UNCHANGED <<ring, base, end, ended, behind, gapAt, left>>
    PROVE  /\ OutTypes' /\ ClientHolds(c)' /\ \A d \in Viewers \ {c} : at'[d] = at[d] /\ events'[d] = events[d]
           /\ \E k \in Nat : at[c] \in Nat /\ Head(events[c]) = Chunk(at[c], k) /\ at'[c] = at[c] + k
<1>1. at[c] # -1 /\ Runs(events[c], at[c], UpTo(c)) /\ Len(events[c]) <= viewerQueue
  BY DEF OutInv, ClientHolds
<1>2. PICK k \in Nat : Head(events[c]) = Chunk(at[c], k) /\ Len(Head(events[c])) = k /\ Runs(Tail(events[c]), at[c] + k, UpTo(c))
  BY <1>1, RunsOff
<1>3. at[c] \in Nat /\ events[c] \in Seq(Seq(Int)) /\ viewerQueue \in Nat
  BY <1>1, OutIs, TermOutputAssumption DEF OutInv, OutTypes
<1>4. Tail(events[c]) \in Seq(Seq(Int)) /\ Len(Tail(events[c])) <= viewerQueue
  <2>1. Tail(events[c]) \in Seq(Seq(Int)) /\ Len(Tail(events[c])) = Len(events[c]) - 1 /\ Len(events[c]) \in Nat
    BY <1>3
  <2> QED BY <1>1, <1>3, <2>1
<1>5. at'[c] = at[c] + k /\ events'[c] = Tail(events[c])
  BY <1>2 DEF OutInv, OutTypes
<1>6. \A d \in Viewers \ {c} : at'[d] = at[d] /\ events'[d] = events[d]
  BY DEF OutInv, OutTypes
<1>7. OutTypes'
  <2>1. at[c] + k \in Int
    BY <1>3
  <2>2. at' \in [Viewers -> Int] /\ events' \in [Viewers -> Seq(Seq(Int))]
    BY <1>2, <1>4, <2>1 DEF OutInv, OutTypes
  <2> QED BY <2>2 DEF OutInv, OutTypes
<1>8. UpTo(c)' = UpTo(c)
  BY DEF UpTo
<1>9. ClientHolds(c)'
  <2>1. at'[c] # -1
    BY <1>3, <1>5
  <2> QED BY <1>1, <1>2, <1>4, <1>5, <1>8, <2>1 DEF OutInv, ClientHolds
<1> QED BY <1>2, <1>3, <1>5, <1>6, <1>7, <1>9

LEMMA ViewEventKeeps == ASSUME OutInv, ViewEvent PROVE OutInv'
<1>1. /\ "attach" \in Viewers /\ "log" \in Viewers \ {"attach"} /\ events["attach"] # <<>>
      /\ at' = [at EXCEPT !["attach"] = @ + Len(Head(events["attach"]))] /\ events' = [events EXCEPT !["attach"] = Tail(@)]
      /\ UNCHANGED <<ring, base, end, ended, behind, gapAt, left, file, logFrom, lost>>
  BY DEF ViewEvent, logFile, Viewers
<1>2. OutTypes' /\ ClientHolds("attach")' /\ \A d \in Viewers \ {"attach"} : at'[d] = at[d] /\ events'[d] = events[d]
  BY <1>1, EventHolds
<1>3. LogHolds'
  BY <1>1, <1>2 DEF OutInv, LogHolds
<1> QED BY <1>1, <1>2, <1>3, OneClient

LEMMA LogEventKeeps == ASSUME OutInv, LogEvent PROVE OutInv'
<1>1. /\ "log" \in Viewers /\ events["log"] # <<>>
      /\ at' = [at EXCEPT !["log"] = @ + Len(Head(events["log"]))] /\ events' = [events EXCEPT !["log"] = Tail(@)]
      /\ UNCHANGED <<ring, base, end, ended, behind, gapAt, left, logFrom, lost>>
      /\ file' = Logged(file, Head(events["log"]))
  BY DEF LogEvent, Viewers
<1>2. /\ OutTypes' /\ ClientHolds("log")' /\ \A d \in Viewers \ {"log"} : at'[d] = at[d] /\ events'[d] = events[d]
      /\ \E k \in Nat : at["log"] \in Nat /\ Head(events["log"]) = Chunk(at["log"], k) /\ at'["log"] = at["log"] + k
  BY <1>1, EventHolds
<1>3. LogHolds'
  <2>1. PICK k \in Nat : at["log"] \in Nat /\ Head(events["log"]) = Chunk(at["log"], k) /\ at'["log"] = at["log"] + k
    BY <1>2
  <2>2. at["log"] # -1 /\ at'["log"] # -1 /\ at["log"] .. at["log"] - 1 = {} /\ at["log"] <= at["log"]
    BY <2>1
  <2>3. FileHolds(file, logFrom, at["log"], lost)
    BY <2>2 DEF OutInv, LogHolds
  <2>4. FileHolds(Logged(file, Head(events["log"])), logFrom, at["log"] + k, lost)
    BY <2>1, <2>2, <2>3, LoggedHolds
  <2> QED BY <1>1, <2>1, <2>2, <2>4 DEF LogHolds
<1> QED BY <1>1, <1>2, <1>3, OneClient

\* A fresh cut: nothing waits, and the client is at the end.
LEMMA CutHolds ==
    ASSUME OutInv, NEW c \in Viewers, at[c] # -1, Resnapshot(c), UNCHANGED <<ring, base, end, ended, gapAt, left>>
    PROVE  /\ OutTypes' /\ ClientHolds(c)' /\ at'[c] = end
           /\ \A d \in Viewers \ {c} : at'[d] = at[d] /\ events'[d] = events[d] /\ behind'[d] = behind[d]
<1>1. end \in Nat /\ Runs(<<>>, end, end)
  BY OutIs, RunsEmpty
<1>2. /\ at'[c] = end /\ events'[c] = <<>> /\ behind'[c] = FALSE
      /\ \A d \in Viewers \ {c} : at'[d] = at[d] /\ events'[d] = events[d] /\ behind'[d] = behind[d]
  BY DEF Resnapshot, OutInv, OutTypes
<1>3. OutTypes'
  <2>1. <<>> \in Seq(Seq(Int)) /\ end \in Int
    BY <1>1
  <2> QED BY <2>1 DEF Resnapshot, OutInv, OutTypes
<1>4. UpTo(c)' = end
  BY <1>2 DEF UpTo
<1>5. ClientHolds(c)'
  BY <1>1, <1>2, <1>4, TermOutputAssumption DEF OutInv, ClientHolds
<1> QED BY <1>2, <1>3, <1>5

LEMMA ViewSignalKeeps == ASSUME OutInv, ViewSignal PROVE OutInv'
<1>1. /\ "attach" \in Viewers /\ "log" \in Viewers \ {"attach"}
      /\ UNCHANGED <<ring, base, end, ended, gapAt, left, file, logFrom, lost>>
  BY DEF ViewSignal, logFile, Viewers
<1>2. CASE behind["attach"]
  <2>1. at["attach"] # -1 /\ Resnapshot("attach")
    BY <1>1, <1>2 DEF ViewSignal, OutInv, ClientHolds
  <2>2. /\ OutTypes' /\ ClientHolds("attach")'
        /\ \A d \in Viewers \ {"attach"} : at'[d] = at[d] /\ events'[d] = events[d] /\ behind'[d] = behind[d]
    BY <1>1, <2>1, CutHolds
  <2>3. LogHolds'
    BY <1>1, <2>2 DEF OutInv, LogHolds
  <2> QED BY <1>1, <2>2, <2>3, OneClient
<1>3. CASE ~behind["attach"]
  <2>1. UNCHANGED <<events, behind, at>>
    BY <1>3 DEF ViewSignal
  <2>2. OutTypes' /\ LogHolds' /\ ClientHolds("attach")'
    BY <1>1, <2>1 DEF OutInv, OutTypes, LogHolds, ClientHolds, UpTo
  <2> QED BY <1>1, <2>1, <2>2, OneClient
<1> QED BY <1>2, <1>3

LEMMA LogSignalKeeps == ASSUME OutInv, LogSignal PROVE OutInv'
<1>1. "log" \in Viewers /\ UNCHANGED <<ring, base, end, ended, gapAt, left, logFrom>>
  BY DEF LogSignal, Viewers
<1>2. CASE behind["log"]
  <2>1. at["log"] # -1 /\ Resnapshot("log")
    BY <1>1, <1>2 DEF LogSignal, OutInv, ClientHolds
  <2>2. /\ OutTypes' /\ ClientHolds("log")' /\ at'["log"] = end
        /\ \A d \in Viewers \ {"log"} : at'[d] = at[d] /\ events'[d] = events[d] /\ behind'[d] = behind[d]
    BY <1>1, <2>1, CutHolds
  <2>3. file' = Logged(file, LogTail(at["log"])) /\ lost' = lost \cup (at["log"] .. base - 1)
    BY <1>2 DEF LogSignal
  <2>4. PICK a, b, e \in Nat : a = at["log"] /\ b = base /\ e = end /\ a <= e /\ b <= e
    BY <1>1, <2>1, OutIs
  <2>5. RingBytes(ring) = Chunk(b, e - b) /\ ring.n = e - b
    BY <2>4, OutIs
  <2>6. PICK p \in Nat : p = (IF a < b THEN b ELSE a) /\ a <= p /\ p <= e
    BY <2>4
  <2>7. PICK k \in Nat : k = e - p /\ p + k = e
    <3>1. e - p \in Nat /\ p + (e - p) = e
      BY <2>6
    <3> QED BY <3>1
  <2>8. LogTail(a) = Chunk(p, k)
    <3>1. CASE a < b
      BY <2>4, <2>5, <2>6, <2>7, <3>1 DEF LogTail
    <3>2. CASE ~(a < b) /\ a < e
      <4>1. LogTail(a) = SubSeq(Chunk(b, e - b), a - b + 1, e - b)
        BY <2>4, <2>5, <3>2 DEF LogTail
      <4>2. /\ e - b \in Nat /\ b \in Int /\ a - b + 1 \in 1 .. (e - b) + 1 /\ e - b \in 0 .. (e - b) /\ a - b + 1 <= (e - b) + 1
            /\ b + (a - b + 1) - 1 = p /\ (e - b) - (a - b + 1) + 1 = k
        BY <2>4, <2>6, <2>7, <3>2
      <4>3. SubSeq(Chunk(b, e - b), a - b + 1, e - b) = Chunk(b + (a - b + 1) - 1, (e - b) - (a - b + 1) + 1)
        BY <4>2, ChunkPart
      <4> QED BY <4>1, <4>2, <4>3
    <3>3. CASE ~(a < b) /\ ~(a < e)
      <4>1. LogTail(a) = <<>> /\ k = 0
        BY <2>4, <2>6, <2>7, <3>3 DEF LogTail
      <4> QED BY <4>1 DEF Chunk
    <3> QED BY <3>1, <3>2, <3>3
  <2>9. FileHolds(file, logFrom, a, lost)
    BY <2>1, <2>4 DEF OutInv, LogHolds
  <2>10. FileHolds(file', logFrom, e, lost')
    <3>1. a .. p - 1 \subseteq lost' /\ lost \subseteq lost'
      BY <2>3, <2>4, <2>6
    <3>2. FileHolds(Logged(file, LogTail(a)), logFrom, p + k, lost')
      BY <2>6, <2>8, <2>9, <3>1, LoggedHolds
    <3> QED BY <2>3, <2>4, <2>7, <3>2
  <2>11. LogHolds'
    <3>1. at'["log"] = e /\ e # -1 /\ logFrom' = logFrom
      BY <1>1, <2>2, <2>4
    <3> QED BY <2>10, <3>1 DEF LogHolds
  <2> QED BY <1>1, <2>2, <2>11, OneClient
<1>3. CASE ~behind["log"]
  <2>1. UNCHANGED <<events, behind, at, file, lost>>
    BY <1>3 DEF LogSignal
  <2>2. OutTypes' /\ LogHolds' /\ ClientHolds("log")'
    BY <1>1, <2>1 DEF OutInv, OutTypes, LogHolds, ClientHolds, UpTo
  <2> QED BY <1>1, <2>1, <2>2, OneClient
<1> QED BY <1>2, <1>3

\* Whatever is written, in chunks of any size, and however slow they are, what a viewer and the
\* log are given and what waits for them is the program's output without a hole, a repetition or
\* a byte out of order, up to the end or to where the client was told it fell behind; the ring has
\* exactly the bytes of its offsets; and the log file has each byte in order and once, from where it
\* began to where it has come, unless it recorded it as lost or is full (TermSession.output,
\* ring.write, ring.bytes, Resnapshot, logSession, sessionLog.append).
THEOREM OutputIsExact == Spec => []OutputExact
<1>1. Init => OutInv
  <2> SUFFICES ASSUME Init PROVE OutInv
    OBVIOUS
  <2>1. OutputInit
    BY DEF Init
  <2>2. OutTypes
    <3>1. <<>> \in Seq(Seq(Int)) /\ 0 \in Nat /\ -1 \in Int
      OBVIOUS
    <3> QED BY <2>1, <3>1 DEF OutputInit, OutTypes
  <2>3. RingHolds(ring, base, end)
    <3>1. ring.start = 0 /\ ring.n = 0 /\ base = 0 /\ end = 0
      BY <2>1 DEF OutputInit
    <3>2. \A p \in 0 .. RetainBytes - 1 : ~((IF p >= 0 THEN p - 0 ELSE p - 0 + RetainBytes) < 0)
      OBVIOUS
    <3> QED BY <3>1, <3>2, TermOutputAssumption DEF RingHolds
  <2>4. LogHolds /\ \A c \in Viewers : ClientHolds(c)
    <3>1. Len(<<>>) <= viewerQueue
      BY TermOutputAssumption
    <3> QED BY <2>1, <3>1 DEF OutputInit, LogHolds, ClientHolds, Viewers
  <2> QED BY <2>2, <2>3, <2>4 DEF OutInv
<1>2. OutInv /\ [Next]_vars => OutInv'
  <2>1. ASSUME OutInv, OutputNext PROVE OutInv'
    BY <2>1, OutputKeeps, OutputEndKeeps, LogAttachKeeps, LogEventKeeps, LogSignalKeeps, ViewAttachKeeps, ViewEventKeeps,
       ViewSignalKeeps, ReturnKeeps DEF OutputNext
  <2>2. ASSUME OutInv, UNCHANGED ovars PROVE OutInv'
    BY <2>2 DEF ovars, OutInv, OutTypes, LogHolds, ClientHolds, UpTo
  <2> QED BY <2>1, <2>2, Parts
<1> QED BY <1>1, <1>2, OutputTold, PTL DEF Spec
=============================================================================

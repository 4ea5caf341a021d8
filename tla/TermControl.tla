---------------------------- MODULE TermControl ----------------------------
(***************************************************************************)
(* Who may type into a session's terminal (internal/seatterm/host.go, with *)
(* the frames of internal/sessiond/attach.go).                             *)
(*                                                                         *)
(* Any number of clients view a session; at most one controls it.  A grant *)
(* is an epoch.  Input is queued under the client's epoch and reaches the  *)
(* terminal through one writer, which compares the epochs once more.  A    *)
(* write already at the terminal waits for the program to read it; a client*)
(* that asks for control waits, bounded, for such a write to end, and waits*)
(* without the session's lock.  Refusals change nothing and are no steps.  *)
(***************************************************************************)
EXTENDS Integers, Sequences, FiniteSets

CONSTANTS
    Clients,     \* attaches: one that detached never comes back
    Nobody,
    MaxViewers,  \* seatterm.MaxViewers
    inputQueue,  \* seatterm.inputQueue
    MaxEpoch     \* bound: changes of control

ASSUME TermControlAssumption ==
    /\ Nobody \notin Clients /\ MaxViewers \in Nat /\ inputQueue \in Nat /\ MaxEpoch \in Nat

VARIABLES
    epoch, controller, cepoch,
    here,      \* per client: "no", "viewing" or "gone"
    waiting,   \* per client, the epoch whose write it waits out in waitFenceLocked, or 0
    writes,    \* s.writes
    atPTY,     \* the write the writer has at the terminal; its epoch is s.inflight
    cut,       \* a fence set the write deadline
    landed,    \* the last write the program was given anything of
    programGone  \* s.exited

cvars == <<epoch, controller, cepoch, here, waiting, writes, atPTY, cut, landed, programGone>>
grants  == <<epoch, controller, cepoch>>
input   == <<writes, atPTY, cut, landed>>

NoWrite == [from |-> Nobody, epoch |-> 0]
Write   == [from : Clients, epoch : 1 .. MaxEpoch]
inflight == atPTY.epoch

ControlTypeOK ==
    /\ epoch \in 0 .. MaxEpoch + 1 /\ controller \in Clients \cup {Nobody}
    /\ cepoch \in [Clients -> 0 .. MaxEpoch]
    /\ here \in [Clients -> {"no", "viewing", "gone"}]
    /\ waiting \in [Clients -> -1 .. MaxEpoch]
    /\ writes \in Seq(Write) /\ Len(writes) <= inputQueue
    /\ atPTY \in Write \cup {NoWrite} /\ cut \in BOOLEAN /\ landed \in Write \cup {NoWrite}
    /\ programGone \in BOOLEAN

ControlInit ==
    /\ epoch = 0 /\ controller = Nobody
    /\ cepoch = [c \in Clients |-> 0] /\ here = [c \in Clients |-> "no"]
    /\ waiting = [c \in Clients |-> -1]
    /\ writes = <<>> /\ atPTY = NoWrite /\ cut = FALSE /\ landed = NoWrite /\ programGone = FALSE
-----------------------------------------------------------------------------
(* Clients and control.                                                    *)

Attach(c) ==
    /\ here[c] = "no"
    /\ Cardinality({d \in Clients : here[d] = "viewing"}) < MaxViewers
    /\ here' = [here EXCEPT ![c] = "viewing"]
    /\ UNCHANGED <<grants, waiting, input, programGone>>

\* The end of control(), with the lock held again: whoever took control meanwhile wins.
Granted(c, e) ==
    /\ epoch' = e + 1 /\ controller' = c
    /\ cepoch' = [d \in Clients |-> IF d = c THEN e + 1 ELSE IF d = controller THEN 0 ELSE cepoch[d]]

\* The fence an epoch old has to wait for: a write of that epoch or an earlier one.
Fenced(old) == inflight = 0 \/ inflight > old

\* Control asked for, or taken from whoever has it.  The old grant is revoked first.
Control(c, take) ==
    /\ here[c] = "viewing" /\ waiting[c] = -1 /\ ~programGone
    /\ controller # c /\ (controller # Nobody => take)
    /\ epoch + 2 <= MaxEpoch
    /\ \/ /\ Fenced(epoch)
          /\ Granted(c, epoch + 1)
          /\ UNCHANGED <<waiting, cut>>
       \/ /\ ~Fenced(epoch)
          /\ epoch' = epoch + 1 /\ controller' = Nobody
          /\ cepoch' = [d \in Clients |-> IF d = controller THEN 0 ELSE cepoch[d]]
          /\ waiting' = [waiting EXCEPT ![c] = epoch] /\ cut' = TRUE
    /\ UNCHANGED <<here, writes, atPTY, landed, programGone>>

\* The waiting client has the lock again.
FenceEnds(c) ==
    /\ waiting[c] # -1 /\ Fenced(waiting[c]) /\ epoch < MaxEpoch
    /\ waiting' = [waiting EXCEPT ![c] = -1]
    /\ IF controller # Nobody \/ programGone \/ here[c] = "gone"
       THEN UNCHANGED grants
       ELSE Granted(c, epoch)
    /\ UNCHANGED <<here, input, programGone>>

\* fenceBound passed: ErrFenceUncertain, and nobody controls the session.
FenceTimeout(c) ==
    /\ waiting[c] # -1 /\ ~Fenced(waiting[c])
    /\ waiting' = [waiting EXCEPT ![c] = -1]
    /\ UNCHANGED <<grants, here, input, programGone>>

Revoked(c) == IF controller = c
              THEN /\ epoch < MaxEpoch /\ epoch' = epoch + 1 /\ controller' = Nobody
                   /\ cepoch' = [cepoch EXCEPT ![c] = 0]
              ELSE UNCHANGED grants

Release(c) ==
    /\ controller = c /\ Revoked(c)
    /\ UNCHANGED <<here, waiting, input, programGone>>

Detach(c) ==
    /\ here[c] = "viewing"
    /\ Revoked(c) /\ here' = [here EXCEPT ![c] = "gone"]
    /\ UNCHANGED <<waiting, input, programGone>>
-----------------------------------------------------------------------------
(* Input.                                                                  *)

Input(c) ==
    /\ here[c] = "viewing" /\ controller = c /\ cepoch[c] = epoch /\ ~programGone
    /\ Len(writes) < inputQueue
    /\ writes' = Append(writes, [from |-> c, epoch |-> cepoch[c]])
    /\ UNCHANGED <<grants, here, waiting, atPTY, cut, landed, programGone>>

\* The writer takes the next write: a stale one is counted refused.
CurrentAny(w) == controller # Nobody /\ ~programGone
Current(w) == w.epoch = epoch /\ controller # Nobody /\ ~programGone
WriterTakes ==
    /\ atPTY = NoWrite /\ writes # <<>>
    /\ writes' = Tail(writes)
    /\ IF Current(Head(writes))
       THEN atPTY' = Head(writes) /\ cut' = FALSE
       ELSE UNCHANGED <<atPTY, cut>>
    /\ UNCHANGED <<grants, here, waiting, landed, programGone>>

\* The write ends: read by the program, whole or in part, or cut with nothing read.
WriterEnds ==
    /\ atPTY # NoWrite
    /\ \/ ~programGone /\ landed' = atPTY
       \/ (cut \/ programGone) /\ UNCHANGED landed
    /\ atPTY' = NoWrite /\ cut' = FALSE
    /\ UNCHANGED <<grants, here, waiting, writes, programGone>>
-----------------------------------------------------------------------------
\* pump, once the terminal has no process left: the grant ends with the program, and no
\* write of it is current any more.
ControlEnds ==
    /\ ~programGone
    /\ programGone' = TRUE /\ epoch' = epoch + 1
    /\ UNCHANGED <<controller, cepoch, here, waiting, input>>

\* What an attached client sends: a request, a take, a release, or input.
Frame(c) == (\E take \in BOOLEAN : Control(c, take)) \/ Release(c) \/ Input(c)

ControlNext ==
    \/ \E c \in Clients : Attach(c) \/ Frame(c) \/ FenceEnds(c) \/ FenceTimeout(c) \/ Detach(c)
    \/ WriterTakes \/ WriterEnds \/ ControlEnds
-----------------------------------------------------------------------------
(* Properties.                                                             *)

\* A detached client holds nothing: no grant lands on it, not even one it was waiting for
\* when it left.
GoneHoldsNothing == controller # Nobody => here[controller] = "viewing"

\* Only the client that controls the session now, and still views it, begins a write at
\* the terminal: the epoch a write was queued under stands for that very client's grant,
\* so a revoked, released or departed controller's queued input never lands, whatever was
\* granted since (writer compares epochs, not clients).
OnlyControllerTypes ==
    /\ []GoneHoldsNothing
    /\ [][(atPTY' # atPTY /\ atPTY' # NoWrite)
           => (atPTY'.from = controller /\ here[controller] = "viewing")]_cvars

\* docs/sessions-protocol.md:333: a take is granted only once the old controller's write
\* in flight is confirmed ended.  (Does not hold: a client that waited for one
\* controller's write is granted control while the write of the next one, who has released
\* it again, is still in flight.)
FenceHolds == (controller # Nobody /\ ~programGone) => inflight \in {0, epoch}
=============================================================================

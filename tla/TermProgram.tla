---------------------------- MODULE TermProgram ----------------------------
(***************************************************************************)
(* The programs of a session host (internal/seatterm/host.go: Create,      *)
(* startSession, pump's end, Stop; session.go and exec_darwin.go: the      *)
(* prepared executable).                                                   *)
(*                                                                         *)
(* A create reserves its operation under the host's lock, journals and     *)
(* starts the program without it, and takes the lock again to list the     *)
(* session, which may have ended meanwhile.  A prepared executable is a    *)
(* private copy of a pinned file that is good for one start; copies of its *)
(* value share that.  Pids are not modelled: a signal reaches the group it *)
(* is meant for.                                                           *)
(***************************************************************************)
EXTENDS Integers, Sequences, FiniteSets

CONSTANTS
    Operations,   \* create operations, each of one principal
    Prepares,     \* those whose spec carries the one prepared executable
    MaxSessions,  \* seatterm.MaxSessions
    maxOps,       \* seatterm.maxOps
    MaxStarts     \* bound: programs ever started

ASSUME TermProgramAssumption ==
    /\ Prepares \subseteq Operations
    /\ MaxSessions \in Nat /\ maxOps \in Nat /\ MaxStarts \in Nat

VARIABLES
    byOp,      \* h.byOp: "none", "creating" or "made"
    made,      \* per operation, the program its last start made, or 0
    opOrder, sessions, starting,
    op,        \* per program, its operation
    leader,    \* per program: "none", "running", "dead" or "reaped"
    member,    \* per program, another process of its group is there
    exited, done,
    stop,      \* per program, a Stop: its stage, then what it reports
    used, closed, copy   \* the prepared executable; copy: its file is there

pvars == <<byOp, made, opOrder, sessions, starting, op, leader, member, exited, done, stop,
           used, closed, copy>>
table == <<byOp, made, opOrder, sessions, starting>>
programs == <<op, leader, member, exited, done, stop>>
prepared == <<used, closed, copy>>

Programs == 1 .. MaxStarts
Stops == {"none", "hangup", "kill", "confirm", "stopped", "remaining", "uncertain"}
Started(i) == leader[i] # "none"

ProgramTypeOK ==
    /\ byOp \in [Operations -> {"none", "creating", "made"}]
    /\ made \in [Operations -> 0 .. MaxStarts]
    /\ opOrder \in Seq(Operations) /\ sessions \subseteq Programs /\ starting \in Nat
    /\ op \in [Programs -> Operations]
    /\ leader \in [Programs -> {"none", "running", "dead", "reaped"}]
    /\ member \in [Programs -> BOOLEAN] /\ exited \in [Programs -> BOOLEAN]
    /\ done \in [Programs -> BOOLEAN] /\ stop \in [Programs -> Stops]
    /\ used \in BOOLEAN /\ closed \in BOOLEAN /\ copy \in BOOLEAN

ProgramInit ==
    /\ byOp = [o \in Operations |-> "none"] /\ made = [o \in Operations |-> 0]
    /\ opOrder = <<>> /\ sessions = {} /\ starting = 0
    /\ op = [i \in Programs |-> CHOOSE o \in Operations : TRUE]
    /\ leader = [i \in Programs |-> "none"] /\ member = [i \in Programs |-> FALSE]
    /\ exited = [i \in Programs |-> FALSE] /\ done = [i \in Programs |-> FALSE]
    /\ stop = [i \in Programs |-> "none"]
    /\ used = FALSE /\ closed = FALSE /\ copy = TRUE
-----------------------------------------------------------------------------
(* The prepared executable.                                                *)

\* cleanup keeps what it finds changed; either way the preparation is over.
Abandon == used' = TRUE /\ closed' = TRUE /\ copy' \in {FALSE, copy}

\* consume: even a refused start uses the preparation up.
Consume(o) == o \in Prepares => (~used /\ ~closed)

CloseAlways ==
    /\ ~closed
    /\ closed' = TRUE /\ copy' \in {FALSE, copy}
    /\ UNCHANGED <<table, programs, used>>
ClosePrepared ==
    /\ ~closed /\ ~used
    /\ closed' = TRUE /\ copy' \in {FALSE, copy}
    /\ UNCHANGED <<table, programs, used>>
-----------------------------------------------------------------------------
(* Create.                                                                 *)

Reserve(o) ==
    /\ byOp[o] = "none" /\ Cardinality(sessions) + starting < MaxSessions
    /\ byOp' = [byOp EXCEPT ![o] = "creating"] /\ made' = [made EXCEPT ![o] = 0]
    /\ starting' = starting + 1
    /\ UNCHANGED <<opOrder, sessions, programs, prepared>>

\* The journal or the start fails: the operation is free for a retry.
CreateFails(o) ==
    /\ byOp[o] = "creating" /\ made[o] = 0
    /\ byOp' = [byOp EXCEPT ![o] = "none"] /\ starting' = starting - 1
    /\ \/ UNCHANGED prepared
       \/ o \in Prepares /\ Consume(o) /\ Abandon
    /\ UNCHANGED <<made, opOrder, sessions, programs>>

\* cmd.Start: the program runs, with or without other processes in its group.
StartSession(o) ==
    LET i == Cardinality({j \in Programs : Started(j)}) + 1 IN
    /\ byOp[o] = "creating" /\ made[o] = 0 /\ i \in Programs
    /\ Consume(o)
    /\ used' = (used \/ o \in Prepares)
    /\ made' = [made EXCEPT ![o] = i] /\ op' = [op EXCEPT ![i] = o]
    /\ leader' = [leader EXCEPT ![i] = "running"]
    /\ \E m \in BOOLEAN : member' = [member EXCEPT ![i] = m]
    /\ UNCHANGED <<byOp, opOrder, sessions, starting, exited, done, stop, closed, copy>>

\* pruneOps: beyond the bound, the oldest creations whose program has exited are dropped.
Pruned(order) ==
    LET over == {n \in 1 .. Len(order) : exited[made[order[n]]]}
    IN  {n \in over : Cardinality({m \in over : m < n}) < Len(order) - maxOps}

Listed(i) == IF exited[i] THEN {} ELSE {i}
CreateEnds(o) ==
    LET order == Append(opOrder, o)
        gone == {order[n] : n \in Pruned(order)}
    IN
    /\ byOp[o] = "creating" /\ made[o] # 0
    /\ starting' = starting - 1 /\ sessions' = sessions \cup Listed(made[o])
    /\ opOrder' = SelectSeq(order, LAMBDA p : p \notin gone)
    /\ byOp' = [p \in Operations |-> IF p \in gone THEN "none" ELSE IF p = o THEN "made" ELSE byOp[p]]
    /\ UNCHANGED <<made, programs, prepared>>
-----------------------------------------------------------------------------
(* A program's end.                                                        *)

LeaderExits(i) ==
    /\ leader[i] = "running" /\ leader' = [leader EXCEPT ![i] = "dead"]
    /\ UNCHANGED <<table, op, member, exited, done, stop, prepared>>
MemberEnds(i) ==
    /\ member[i] /\ member' = [member EXCEPT ![i] = FALSE]
    /\ UNCHANGED <<table, op, leader, exited, done, stop, prepared>>

\* The goroutine that waits for the leader kills what is left of its group (a process the
\* kernel keeps from dying stays) and then gives the prepared copy up.
Reap(i) ==
    /\ leader[i] = "dead" /\ leader' = [leader EXCEPT ![i] = "reaped"]
    /\ \E m \in {FALSE, member[i]} : member' = [member EXCEPT ![i] = m]
    /\ IF op[i] \in Prepares THEN Abandon ELSE UNCHANGED prepared
    /\ UNCHANGED <<table, op, exited, done, stop>>

\* pump: the terminal has no process left, and the leader is reaped.
Exit(i) ==
    /\ leader[i] = "reaped" /\ ~member[i] /\ ~exited[i]
    /\ exited' = [exited EXCEPT ![i] = TRUE]
    /\ UNCHANGED <<table, op, leader, member, done, stop, prepared>>
Forget(i) ==
    /\ exited[i] /\ ~done[i]
    /\ sessions' = sessions \ {i} /\ done' = [done EXCEPT ![i] = TRUE]
    /\ UNCHANGED <<byOp, made, opOrder, starting, op, leader, member, exited, stop, prepared>>
-----------------------------------------------------------------------------
(* Stop.                                                                   *)

StopBegins(i) ==
    /\ stop[i] = "none" /\ i \in sessions
    /\ stop' = [stop EXCEPT ![i] = "hangup"]
    /\ UNCHANGED <<table, op, leader, member, exited, done, prepared>>
\* The leader is reaped within the grace, or killed after it, or not seen to end.
StopWaits(i) ==
    /\ stop[i] \in {"hangup", "kill"}
    /\ \/ leader[i] = "reaped" /\ stop' = [stop EXCEPT ![i] = "confirm"]
       \/ leader[i] # "reaped"
          /\ stop' = [stop EXCEPT ![i] = IF @ = "hangup" THEN "kill" ELSE "uncertain"]
    /\ UNCHANGED <<table, op, leader, member, exited, done, prepared>>
\* groupGone, up to fenceBound.
StopConfirms(i) ==
    /\ stop[i] = "confirm"
    /\ stop' = [stop EXCEPT ![i] = IF member[i] THEN "remaining" ELSE "stopped"]
    /\ UNCHANGED <<table, op, leader, member, exited, done, prepared>>

ProgramNext ==
    \/ ClosePrepared
    \/ \E o \in Operations : Reserve(o) \/ CreateFails(o) \/ StartSession(o) \/ CreateEnds(o)
    \/ \E i \in Programs : LeaderExits(i) \/ MemberEnds(i) \/ Reap(i) \/ Exit(i) \/ Forget(i)
                           \/ StopBegins(i) \/ StopWaits(i) \/ StopConfirms(i)
-----------------------------------------------------------------------------
(* Properties.                                                             *)

\* One operation never has two programs that have not exited, however often it is retried
\* and although its creation may be dropped from memory; and one prepared executable never
\* started two programs, nor is its file removed under a program that runs it.
OneProgram ==
    /\ \A i, j \in Programs : (i # j /\ Started(i) /\ Started(j) /\ op[i] = op[j])
                                => (exited[i] \/ exited[j]) /\ op[i] \notin Prepares
    /\ \A i \in Programs : (leader[i] = "running" /\ op[i] \in Prepares) => copy

\* The live bound counts what lives: the programs that have not exited never exceed it,
\* and a session that is over is not listed for ever because it ended before its create did.
LiveCounted ==
    /\ Cardinality({i \in Programs : Started(i) /\ ~exited[i]}) <= MaxSessions
    /\ \A i \in sessions : ~done[i]

\* A stop that reports the leader reaped and the group gone is true of the processes.
StopTrue == \A i \in Programs : stop[i] = "stopped" => (leader[i] = "reaped" /\ ~member[i])

\* The host's account of its programs is true of the processes (Create, pump, Stop).
ProgramsTrue == OneProgram /\ LiveCounted /\ StopTrue
=============================================================================

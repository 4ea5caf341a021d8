----------------------------- MODULE TermOutput -----------------------------
(***************************************************************************)
(* What a session's program writes, and who gets it (internal/seatterm/    *)
(* host.go: output, ring, Resnapshot; internal/sessiond/logs.go and the    *)
(* event loop of attach.go).                                               *)
(*                                                                         *)
(* Output is a stream of bytes, each named by its offset.  The session     *)
(* keeps the last RetainBytes of it in a ring and hands every chunk to each*)
(* client's bounded queue; a client whose queue is full is marked behind   *)
(* and asks for a fresh cut when it sees the signal.  One client is the    *)
(* durable log, the other a person's attach.                               *)
(***************************************************************************)
EXTENDS Integers, Sequences, FiniteSets, SequencesExt

CONSTANTS
    RetainBytes,  \* seatterm.RetainBytes
    viewerQueue,  \* seatterm.viewerQueue
    logBound,     \* Server.logBound
    MaxChunk,     \* bound: bytes of one read of the terminal
    MaxOutput     \* bound: bytes the program writes

ASSUME TermOutputAssumption ==
    /\ RetainBytes \in Nat \ {0} /\ viewerQueue \in Nat \ {0}
    /\ logBound \in Nat /\ MaxChunk \in Nat /\ MaxOutput \in Nat

Viewers == {"log", "attach"}

VARIABLES
    ring,     \* [buf, start, n]
    base, end,
    ended,    \* exited: every Events channel is closed
    events,   \* per client, its queued chunks, each the offsets it holds
    behind, gapAt, signal,
    at,       \* per client, -1 before it attaches, then the offset its output has reached
    left,     \* per client, it has read the closed channel and returned
    file,     \* the log file, as the offsets of the bytes in it
    logFrom,  \* where the log's first snapshot began
    lost      \* offsets the log recorded as lost

ovars == <<ring, base, end, ended, events, behind, gapAt, signal, at, left, file, logFrom, lost>>
clients == <<events, behind, gapAt, signal, at, left>>
logFile == <<file, logFrom, lost>>

Offsets == 0 .. MaxOutput
OutputTypeOK ==
    /\ ring.start \in 0 .. RetainBytes - 1 /\ ring.n \in 0 .. RetainBytes
    /\ base \in Offsets /\ end \in Offsets /\ ended \in BOOLEAN
    /\ \A c \in Viewers : Len(events[c]) <= viewerQueue
    /\ behind \in [Viewers -> BOOLEAN] /\ signal \in [Viewers -> BOOLEAN]
    /\ gapAt \in [Viewers -> Offsets] /\ at \in [Viewers -> -1 .. MaxOutput]
    /\ left \in [Viewers -> BOOLEAN]
    /\ Len(file) <= logBound /\ logFrom \in Offsets /\ lost \subseteq Offsets

OutputInit ==
    /\ ring = [buf |-> [i \in 0 .. RetainBytes - 1 |-> -1], start |-> 0, n |-> 0]
    /\ base = 0 /\ end = 0 /\ ended = FALSE
    /\ events = [c \in Viewers |-> <<>>]
    /\ behind = [c \in Viewers |-> FALSE] /\ signal = [c \in Viewers |-> FALSE]
    /\ gapAt = [c \in Viewers |-> 0] /\ at = [c \in Viewers |-> -1]
    /\ left = [c \in Viewers |-> FALSE]
    /\ file = <<>> /\ logFrom = 0 /\ lost = {}
-----------------------------------------------------------------------------
(* The ring.                                                               *)

Chunk(from, k) == [i \in 1 .. k |-> from + i - 1]
Smaller(i, j) == IF i < j THEN i ELSE j

\* The buffer with b copied in at e, wrapping.
CopyAt(r, e, b) ==
    [i \in 0 .. RetainBytes - 1 |->
        LET j == ((i - e) + RetainBytes) % RetainBytes IN IF j < Len(b) THEN b[j + 1] ELSE r.buf[i]]
\* ring.write: b at the end, over the oldest bytes if there is no room.
RingWrite(r, b) ==
    LET over == (r.n + Len(b)) - RetainBytes IN
    IF Len(b) >= RetainBytes
    THEN [buf |-> [i \in 0 .. RetainBytes - 1 |-> b[(Len(b) - RetainBytes) + i + 1]],
          start |-> 0, n |-> RetainBytes]
    ELSE [buf |-> CopyAt(r, (r.start + r.n) % RetainBytes, b),
          start |-> IF over > 0 THEN (r.start + over) % RetainBytes ELSE r.start,
          n |-> Smaller(r.n + Len(b), RetainBytes)]
Dropped(r, b) == IF r.n + Len(b) > RetainBytes THEN r.n + Len(b) - RetainBytes ELSE 0
\* ring.bytes: the part up to the end of the buffer, then the part before start.
RingBytes(r) ==
    LET k == Smaller(r.n, RetainBytes - r.start)
    IN  [i \in 1 .. r.n |-> IF i <= k THEN r.buf[r.start + i - 1] ELSE r.buf[i - k - 1]]
-----------------------------------------------------------------------------
(* The session.                                                            *)

\* output: the clients that are behind get nothing, a full queue puts one behind.
Output(k) ==
    LET b == Chunk(end, k)
        present == {c \in Viewers : at[c] # -1 /\ ~left[c]}
        takes == {c \in present : ~behind[c] /\ Len(events[c]) < viewerQueue}
        misses == {c \in present : ~behind[c] /\ Len(events[c]) = viewerQueue}
    IN  /\ ~ended /\ end + k <= MaxOutput
        /\ ring' = RingWrite(ring, b) /\ base' = base + Dropped(ring, b) /\ end' = end + k
        /\ events' = [c \in Viewers |-> IF c \in takes THEN Append(events[c], b) ELSE events[c]]
        /\ behind' = [c \in Viewers |-> behind[c] \/ c \in misses]
        /\ gapAt' = [c \in Viewers |-> IF c \in misses THEN end ELSE gapAt[c]]
        /\ signal' = [c \in Viewers |-> signal[c] \/ c \in misses]
        /\ UNCHANGED <<ended, at, left, logFile>>

\* The end of pump: every client is told and its channel closed.
ProgramEnds ==
    /\ ~ended /\ ended' = TRUE
    /\ signal' = [c \in Viewers |-> signal[c] \/ (at[c] # -1 /\ ~left[c])]
    /\ UNCHANGED <<ring, base, end, events, behind, gapAt, at, left, logFile>>

\* Resnapshot: what was queued is discarded with the cut, and the output goes on after it.
Resnapshot(c) ==
    /\ events' = [events EXCEPT ![c] = <<>>] /\ behind' = [behind EXCEPT ![c] = FALSE]
    /\ at' = [at EXCEPT ![c] = end]
-----------------------------------------------------------------------------
(* The log.                                                                *)

\* sessionLog.append: up to the bound.
Logged(f, b) == f \o SubSeq(b, 1, Smaller(Len(b), logBound - Len(f)))

\* logSession, called once the program runs: the snapshot so far, then the events.
LogAttach ==
    /\ at["log"] = -1
    /\ at' = [at EXCEPT !["log"] = end]
    /\ logFrom' = base /\ file' = Logged(<<>>, RingBytes(ring))
    /\ UNCHANGED <<ring, base, end, ended, events, behind, gapAt, signal, left, lost>>

LogEvent ==
    /\ ~left["log"] /\ events["log"] # <<>>
    /\ file' = Logged(file, Head(events["log"]))
    /\ at' = [at EXCEPT !["log"] = @ + Len(Head(events["log"]))]
    /\ events' = [events EXCEPT !["log"] = Tail(@)]
    /\ UNCHANGED <<ring, base, end, ended, behind, gapAt, signal, left, logFrom, lost>>

\* What of a fresh cut the log has not yet: all of it past a gap, the new tail otherwise.
LogTailWhole(logged) == RingBytes(ring)
LogTail(logged) ==
    IF logged < base THEN RingBytes(ring)
    ELSE IF logged < end THEN SubSeq(RingBytes(ring), logged - base + 1, ring.n)
    ELSE <<>>
LogSignal ==
    /\ ~left["log"] /\ signal["log"]
    /\ signal' = [signal EXCEPT !["log"] = FALSE]
    /\ IF behind["log"]
       THEN /\ Resnapshot("log")
            /\ file' = Logged(file, LogTail(at["log"]))
            /\ lost' = lost \cup (at["log"] .. base - 1)
       ELSE UNCHANGED <<events, behind, at, file, lost>>
    /\ UNCHANGED <<ring, base, end, ended, gapAt, left, logFrom>>
-----------------------------------------------------------------------------
(* A person's attach, and the end of either client.                        *)

ViewAttach ==
    /\ at["attach"] = -1 /\ at' = [at EXCEPT !["attach"] = end]
    /\ UNCHANGED <<ring, base, end, ended, events, behind, gapAt, signal, left, logFile>>
ViewEvent ==
    /\ ~left["attach"] /\ events["attach"] # <<>>
    /\ at' = [at EXCEPT !["attach"] = @ + Len(Head(events["attach"]))]
    /\ events' = [events EXCEPT !["attach"] = Tail(@)]
    /\ UNCHANGED <<ring, base, end, ended, behind, gapAt, signal, left, logFile>>
ViewSignal ==
    /\ ~left["attach"] /\ signal["attach"]
    /\ signal' = [signal EXCEPT !["attach"] = FALSE]
    /\ IF behind["attach"] THEN Resnapshot("attach") ELSE UNCHANGED <<events, behind, at>>
    /\ UNCHANGED <<ring, base, end, ended, gapAt, left, logFile>>

\* Events is closed and drained: the loop returns, whatever signal is still waiting.
Return(c) ==
    /\ at[c] # -1 /\ ~left[c] /\ ended /\ events[c] = <<>>
    /\ left' = [left EXCEPT ![c] = TRUE]
    /\ UNCHANGED <<ring, base, end, ended, events, behind, gapAt, signal, at, logFile>>

OutputNext ==
    \/ \E k \in 1 .. MaxChunk : Output(k)
    \/ ProgramEnds \/ LogAttach \/ LogEvent \/ LogSignal \/ ViewAttach \/ ViewEvent \/ ViewSignal
    \/ \E c \in Viewers : Return(c)
-----------------------------------------------------------------------------
(* Properties.                                                             *)

\* What a client was given and what waits for it is the stream without a hole or a
\* repetition, up to the end or, for one that is behind, up to the first byte it missed;
\* and the ring a fresh cut is taken from holds exactly the bytes of its offsets.
StreamExact ==
    /\ RingBytes(ring) = Chunk(base, end - base)
    /\ \A c \in {d \in Viewers : at[d] # -1} :
          LET upTo == IF behind[c] THEN gapAt[c] ELSE end
          IN  FlattenSeq(events[c]) = Chunk(at[c], upTo - at[c])

\* The log file never holds a byte twice or out of order, and every byte from where it
\* began to where it has come is in it, recorded as lost, or past its bound.
LogExact ==
    /\ \A i \in 1 .. Len(file) - 1 : file[i] < file[i + 1]
    /\ at["log"] # -1 =>
        \A o \in logFrom .. at["log"] - 1 :
            o \in lost \/ Len(file) = logBound \/ \E i \in 1 .. Len(file) : file[i] = o

\* host.go:597-599: a client that is behind gets a new snapshot, "no byte is silently lost".
\* (Does not hold of a client that is behind when the program ends: both the closed channel
\* and the signal are ready, and the log may return on the first.)
LogWhole == left["log"] => (at["log"] = end \/ Len(file) = logBound)

\* Nobody reads the program's output twice, out of order or with a hole not told of,
\* neither a viewer nor the log (TermSession.output, Resnapshot, logSession).
OutputExact == StreamExact /\ LogExact
=============================================================================

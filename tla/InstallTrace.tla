---------------------------- MODULE InstallTrace ----------------------------
(* The npm registry of an attempt (internal/npmproxy, manager/npm.go) and the install    *)
(* stall report read from its trace (manager/progress.go, install_stall.go). A request's *)
(* events are stamped before the log's lock is taken, so that they may be written in     *)
(* another order; ids start over when a restarted manager reopens the registry; a report *)
(* reads the tail of the log at any time, with a clock taken before.                     *)
EXTENDS Integers, Sequences, FiniteSetsExt

CONSTANTS
    Threshold,      \* seconds of silence that are a stall
    Tolerance,      \* seconds an event may be behind the latest one
    Created,        \* when the attempt's entry was made
    MaxClock,       \* bound: seconds
    MaxTrace,       \* bound: events stamped and written
    MaxRequests     \* bound: requests

\* The tolerance is a second (outOfOrderTolerance), the threshold a minute by default.
ASSUME TraceBounds == Threshold \in Nat /\ Tolerance \in 0..Threshold /\ Created \in 1..MaxClock

VARIABLES
    clock,      \* the host's clock; zero stands for a time not recorded
    sequence,   \* the last request id the open registry gave
    requests,   \* requests so far
    handlers,   \* the requests in service: id, event, its stamp, zero once it is written
    trace,      \* npmproxy.log
    serving,    \* the registry is open
    ended       \* the entry's end, zero while it is live

traceVars == <<clock, sequence, requests, handlers, trace, serving, ended>>

\* The events of one request, in the order serve and sendFile may give them: "failed" is a
\* completion with an error's status, "miss" all that precedes the upstream's first byte.
Following(event) ==
    CASE event = "received" -> {"hit", "miss", "failed"}
      [] event = "hit" -> {"send_short", "completed"}
      [] event = "miss" -> {"first_byte", "failed"}
      [] event = "first_byte" -> {"send_short", "completed", "failed"}
      [] event = "send_short" -> {"completed"}
      [] OTHER -> {}
Events == {"received", "hit", "miss", "first_byte", "send_short", "completed", "failed"}

TraceTypeOK ==
    /\ clock \in 1..MaxClock /\ ended \in 0..clock /\ serving \in BOOLEAN
    /\ \A h \in handlers : h.event \in Events /\ h.at \in 0..clock /\ h.id \in 1..sequence
    /\ \A i \in DOMAIN trace : trace[i].event \in Events /\ trace[i].at \in 1..clock

TraceInit ==
    /\ clock = 1 /\ sequence = 0 /\ requests = 0 /\ handlers = {} /\ trace = <<>> /\ serving = TRUE /\ ended = 0

Tick == clock < MaxClock /\ clock' = clock + 1 /\ UNCHANGED <<sequence, requests, handlers, trace, serving, ended>>

\* Room, under the bound, for one more event.
Unbounded == Len(trace) + Cardinality({h \in handlers : h.at # 0}) < MaxTrace

\* Handler: a request takes its id and the time of its first event.
Receive ==
    /\ serving /\ requests < MaxRequests /\ Unbounded
    /\ sequence' = sequence + 1 /\ requests' = requests + 1
    /\ handlers' = handlers \cup {[use |-> requests', id |-> sequence', event |-> "received", at |-> clock]}
    /\ UNCHANGED <<clock, trace, serving, ended>>
\* writeEvent under logMu: the stamped event reaches the log.
WriteEvent(h) ==
    /\ h.at # 0
    /\ trace' = Append(trace, h)
    /\ handlers' = (handlers \ {h}) \cup (IF Following(h.event) = {} THEN {} ELSE {[h EXCEPT !.at = 0]})
    /\ UNCHANGED <<clock, sequence, requests, serving, ended>>
\* serve, sendFile: what comes next happens, and is stamped.
ServeNPM(h) ==
    /\ h.at = 0 /\ Unbounded
    /\ \E e \in Following(h.event) : handlers' = (handlers \ {h}) \cup {[h EXCEPT !.event = e, !.at = clock]}
    /\ UNCHANGED <<clock, sequence, requests, trace, serving, ended>>

\* finish: the end is recorded, the registry still open.
FinishEntry == serving /\ ended = 0 /\ clock > Created /\ ended' = clock /\ UNCHANGED <<clock, sequence, requests, handlers, trace, serving>>
\* closeNPM: the log is closed, requests in service write no more.
CloseNPM == serving /\ ended # 0 /\ serving' = FALSE /\ handlers' = {} /\ UNCHANGED <<clock, sequence, requests, trace, ended>>
\* The manager dies before the end is saved, and the next one reopens the registry.
ReopenNPM ==
    /\ serving /\ clock > Created
    /\ handlers' = {} /\ sequence' = 0 /\ ended' = 0
    /\ UNCHANGED <<clock, requests, trace, serving>>

TraceNext ==
    \/ Tick \/ Receive \/ FinishEntry \/ CloseNPM \/ ReopenNPM
    \/ \E h \in handlers : WriteEvent(h) \/ ServeNPM(h)

-----------------------------------------------------------------------------
(* A report. A read r looks the entry up, takes the clock and then the tail of the log,  *)
(* from its first whole line on; the log may change under it, and the guest's own log    *)
(* was last written at r.output. An entry whose end is not recorded ends the window now. *)
Ends(now) == {now} \cup (IF ended \in 1..now THEN {ended} ELSE {})
Reads(from, outputs) ==
    UNION {[now : {n}, from : from, end : Ends(n), output : {o \in outputs : o <= n}, changed : BOOLEAN] : n \in Created..clock}

NoProgress == [mark |-> 0, gap |-> 0, unbound |-> FALSE, states |-> <<>>, cut |-> {}, shorts |-> 0, transfer |-> 0, active |-> 0]
\* What the next event is measured from: the latest event accepted, never the one before.
MarkPrevious(p, e) == e.at
Mark(p, e) == IF e.at > p.mark THEN e.at ELSE p.mark
\* A request met first in another event than its first may have been cut short.
Uncovered(p, e) == e.event # "received" /\ e.id \notin DOMAIN p.states
Cut(p, e) == p.cut \cup (IF e.event = "send_short" \/ Uncovered(p, e) THEN {e.id} ELSE {})
Transferred(p, e) == e.event = "first_byte" \/ (e.event = "completed" /\ e.id \notin Cut(p, e))
Closed(p, id) == id \in DOMAIN p.states /\ p.states[id] \in {"completed", "failed"}
RegistryEvent(r, p, e) ==
    LET accepted == e.at \in Created..r.end /\ (p.mark = 0 \/ p.mark - e.at <= Tolerance)
    IN  IF e.at > r.now THEN [p EXCEPT !.unbound = TRUE]
        ELSE [mark |-> IF accepted THEN Mark(p, e) ELSE p.mark,
              gap |-> IF accepted /\ p.mark # 0 THEN Max({p.gap, e.at - p.mark}) ELSE p.gap,
              unbound |-> p.unbound \/ ~accepted,
              states |-> IF e.event # "received" /\ Closed(p, e.id) THEN p.states
                        ELSE [x \in DOMAIN p.states \cup {e.id} |-> IF x = e.id THEN e.event ELSE p.states[x]],
              cut |-> IF e.event = "received" THEN Cut(p, e) \ {e.id} ELSE Cut(p, e),
              shorts |-> IF e.event = "send_short" THEN p.shorts + 1 ELSE p.shorts,
              transfer |-> IF Transferred(p, e) THEN Max({p.transfer, e.at}) ELSE p.transfer,
              active |-> IF accepted /\ r.output # 0 /\ e.at >= r.output THEN p.active + 1 ELSE p.active]
\* What was read of the log up to its i-th event, event by event.
ProgressTo(r, i) ==
    LET p[k \in 0..i] == IF k < r.from THEN NoProgress ELSE RegistryEvent(r, p[k - 1], trace[k])
    IN  p[i]
RegistryProgress(r) == ProgressTo(r, Len(trace))

\* installStallDiagnostic: the attempt's interval is known, the log was read steadily and
\* whole; the longest gap between accepted events and the silence since the last; the
\* guest's own silence.
IntervalKnown(r) == r.end >= Created
SourceOK(r) == ~r.changed
Gaps(r, p) == (IF p.gap = 0 THEN {} ELSE {p.gap}) \cup (IF p.mark = 0 THEN {} ELSE {r.end - p.mark})
GuestQuiet(r) == r.output # 0 /\ r.output <= r.end /\ r.end - r.output >= Threshold

\* Within a fifth of a threshold that is only a default, nothing is said.
Near(gap) == 5 * gap \in 4 * Threshold .. 6 * Threshold
Insufficient(r, p) == ~SourceOK(r) \/ r.from > 1 \/ p.unbound \/ ~IntervalKnown(r) \/ \E g \in Gaps(r, p) : Near(g)
IndicationFor(r) ==
    LET p == RegistryProgress(r)
    IN  IF Insufficient(r, p) THEN "INSUFFICIENT_EVIDENCE"
        ELSE IF p.shorts > 0 THEN "PROXY_SHORT_DELIVERY_OBSERVED"
        ELSE IF \E g \in Gaps(r, p) : g > Threshold THEN "REGISTRY_GAP_OVER_THRESHOLD"
        ELSE IF GuestQuiet(r) /\ p.active > 0 THEN "GUEST_QUIET_WHILE_REGISTRY_ACTIVE" ELSE "NO_STALL_IN_WINDOW"

-----------------------------------------------------------------------------
\* The trace has a silence of more than d seconds after an event, up to the window's end.
Silence(r, d) ==
    LET stamps == {trace[i].at : i \in DOMAIN trace}
    IN  \E a \in stamps, b \in stamps \cup {r.end} : b - a > d /\ \A t \in stamps : t <= a \/ t >= b

\* A stall is reported only where the log has a silence of the threshold, less the order's
\* tolerance, and none is missed: whatever the order concurrent requests' events were
\* written in, and whenever the report is read (registryProgress, indicationFor).
StallTrue ==
    \A r \in Reads({1, Len(trace) + 1}, {Created}) :
        LET i == IndicationFor(r)
        IN  /\ i = "REGISTRY_GAP_OVER_THRESHOLD" => Silence(r, Threshold - Tolerance)
            /\ i \in {"GUEST_QUIET_WHILE_REGISTRY_ACTIVE", "NO_STALL_IN_WINDOW"} => ~Silence(r, Threshold)

\* A completion whose request sent less than the whole file never counts as a transfer,
\* wherever the tail that is read begins and however often its id was given
\* (registryProgress).
TransferTrue ==
    \A j, i \in DOMAIN trace :
        (/\ j < i /\ trace[j].use = trace[i].use
         /\ trace[j].event = "send_short" /\ trace[i].event = "completed") =>
            \A r \in Reads(1..i, {0}) : trace[i].at > r.now \/ ~Transferred(ProgressTo(r, i - 1), trace[i])

\* What the progress report says of the registry is true of its log.
ProgressTrue == StallTrue /\ TransferTrue
=============================================================================

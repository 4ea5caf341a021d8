----------------------------- MODULE OpJournal -----------------------------
(* The durable record of an adapter's operations (internal/sessiond/opjournal.go): one  *)
(* file for each session name, which every generation of the name opens in its turn     *)
(* with a memory of its own, and which a crash of the service may leave torn.            *)
EXTENDS Naturals, Sequences, FiniteSets, SequencesExt

CONSTANTS OpIDs,        \* IDs an adapter gives its operations
          Gens,         \* generations of the name, 1..n in the order they open
          OpBound,      \* remembered operations (maxOpsPerSession)
          MaxLines      \* bound: lines of the file
ASSUME OpsAssumption == OpIDs \cap {"torn", "garbled"} = {}

Torn == [id |-> "torn", d |-> "none"]         \* a line without its newline
Garbled == [id |-> "garbled", d |-> "none"]   \* a line a replay cannot parse

VARIABLES
    opLines,       \* the lines of ops/<name>.jsonl
    gst,        \* each generation: "none", "open", "exited" (its program), "closed", "lost"
    memo,       \* opJournal.ops of each generation
    memOrder,   \* opJournal.order of each generation
    mine,       \* operations each generation's adapter began (history)
    acked,      \* operations whose begin was answered (history)
    committed   \* operations an adapter finished as known (history)

jvars == <<opLines, gst, memo, memOrder, mine, acked, committed>>

OpsTypeOK ==
    /\ \A i \in DOMAIN opLines : opLines[i].id \in OpIDs \cup {"torn", "garbled"}
    /\ gst \in [Gens -> {"none", "open", "exited", "closed", "lost"}]
    /\ memo \in [Gens -> [OpIDs -> {"none", "pending", "sent", "unknown"}]]
    /\ mine \in [Gens -> SUBSET OpIDs] /\ acked \subseteq OpIDs /\ committed \subseteq OpIDs

OpsInit ==
    /\ opLines = <<>> /\ gst = [g \in Gens |-> "none"]
    /\ memo = [g \in Gens |-> [x \in OpIDs |-> "none"]] /\ memOrder = [g \in Gens |-> <<>>]
    /\ mine = [g \in Gens |-> {}] /\ acked = {} /\ committed = {}

\* appendLocked: a line after torn bytes is one garbled line with them.
AppendLine(f, line) == IF f # <<>> /\ Last(f) = Torn THEN Append(Front(f), Garbled) ELSE Append(f, line)

\* What a replay of the lines makes of an operation: its last line that parses.
Replay(f, x) ==
    LET at == {i \in DOMAIN f : f[i].id = x}
    IN IF at = {} THEN "none" ELSE f[CHOOSE i \in at : \A k \in at : k <= i].d

\* convertPending: a line for every pending operation, in the journal's order.
Converted(f, order, m) ==
    LET to[i \in 0..Len(order)] ==
            IF i = 0 THEN f
            ELSE IF m[order[i]] = "pending" THEN AppendLine(to[i - 1], [id |-> order[i], d |-> "unknown"])
            ELSE to[i - 1]
    IN to[Len(order)]
Held(m) == [x \in OpIDs |-> IF m[x] = "pending" THEN "unknown" ELSE m[x]]

\* Fault: torn bytes stay at the end of the file.
TruncatedNever(f) == f

\* openOpJournalBound: torn bytes at the end are cut off.
Truncated(f) == IF f # <<>> /\ Last(f) = Torn THEN Front(f) ELSE f

\* The operations in the order a replay meets them.
Met(f) ==
    LET to[i \in 0..Len(f)] ==
            IF i = 0 THEN <<>>
            ELSE IF f[i].id \in OpIDs \ ToSet(to[i - 1]) THEN Append(to[i - 1], f[i].id)
            ELSE to[i - 1]
    IN to[Len(f)]

\* openOpJournal, in adapter.start: the name is free once the program before it ended.
OpenOpJournal(g) ==
    /\ gst[g] = "none" /\ \A h \in Gens : h < g => gst[h] \notin {"none", "open"}
    /\ LET f == Truncated(opLines)
           m == [x \in OpIDs |-> Replay(f, x)]
       IN /\ opLines' = Converted(f, Met(f), m)
          /\ memo' = [memo EXCEPT ![g] = Held(m)]
          /\ memOrder' = [memOrder EXCEPT ![g] = Met(f)]
    /\ gst' = [gst EXCEPT ![g] = "open"]
    /\ UNCHANGED <<mine, acked, committed>>

\* evictLocked: the oldest sent operations beyond the bound are forgotten, no other.
Evict(order, m) ==
    LET to[i \in 0..Len(order)] ==
            IF i = 0 THEN [kept |-> <<>>, out |-> {}]
            ELSE IF m[order[i]] = "sent" /\ Cardinality(to[i - 1].out) + OpBound < Len(order)
            THEN [to[i - 1] EXCEPT !.out = @ \cup {order[i]}]
            ELSE [to[i - 1] EXCEPT !.kept = Append(@, order[i])]
    IN to[Len(order)]

\* begin: an operation the memory has is a retry, which does nothing.
BeginOp(g, x) ==
    /\ gst[g] \in {"open", "exited"} /\ memo[g][x] = "none" /\ Len(opLines) < MaxLines
    /\ opLines' = AppendLine(opLines, [id |-> x, d |-> "pending"])
    /\ LET m == [memo[g] EXCEPT ![x] = "pending"]
           order == Append(memOrder[g], x)
           rest == Evict(order, m)
       IN /\ memo' = [memo EXCEPT ![g] = [y \in OpIDs |-> IF y \in rest.out THEN "none" ELSE m[y]]]
          /\ memOrder' = [memOrder EXCEPT ![g] = rest.kept]
    /\ mine' = [mine EXCEPT ![g] = @ \cup {x}]
    /\ acked' = acked \cup {x}
    /\ UNCHANGED <<gst, committed>>

\* finish: once, and only while the memory has the operation pending.
FinishOp(g, x, known) ==
    /\ gst[g] \in {"open", "exited"} /\ memo[g][x] = "pending" /\ Len(opLines) < MaxLines
    /\ LET d == IF known THEN "sent" ELSE "unknown"
       IN /\ opLines' = AppendLine(opLines, [id |-> x, d |-> d])
          /\ memo' = [memo EXCEPT ![g][x] = d]
    /\ committed' = IF known THEN committed \cup {x} ELSE committed
    /\ UNCHANGED <<gst, memOrder, mine, acked>>

\* The program ends; its adapter's connection stays until adapter.close has run.
GenerationExits(g) == gst[g] = "open" /\ gst' = [gst EXCEPT ![g] = "exited"] /\ UNCHANGED <<opLines, memo, memOrder, mine, acked, committed>>

\* adapter.close: what is still pending is held, and the file is closed.
CloseOps(g) ==
    /\ gst[g] = "exited"
    /\ opLines' = Converted(opLines, memOrder[g], memo[g])
    /\ memo' = [memo EXCEPT ![g] = Held(@)]
    /\ gst' = [gst EXCEPT ![g] = "closed"]
    /\ UNCHANGED <<memOrder, mine, acked, committed>>

\* The service ends with every generation it has, perhaps in the middle of a line.
ServiceCrash ==
    /\ \E g \in Gens : gst[g] \in {"open", "exited"}
    /\ opLines' \in {opLines, Append(opLines, Torn)}
    /\ gst' = [g \in Gens |-> IF gst[g] \in {"open", "exited"} THEN "lost" ELSE gst[g]]
    /\ UNCHANGED <<memo, memOrder, mine, acked, committed>>

OpsNext ==
    \/ ServiceCrash
    \/ \E g \in Gens : \/ OpenOpJournal(g) \/ GenerationExits(g) \/ CloseOps(g)
                       \/ \E x \in OpIDs : BeginOp(g, x) \/ \E known \in BOOLEAN : FinishOp(g, x, known)

(********************************* properties ***************************************)
\* Across crashes, torn lines and generations, a replay of the file knows every operation
\* an adapter was told it began, calls none sent that no adapter finished as known, and,
\* while a generation writes, has none pending but what a generation that still may finish it
\* has; what a generation has pending its own adapter began (openOpJournal, begin, finish).
OpsTrue ==
    LET f == Truncated(opLines)
        live == {g \in Gens : gst[g] \in {"open", "exited"}}
    IN  /\ \A x \in acked : Replay(f, x) # "none"
        /\ \A x \in OpIDs : Replay(f, x) = "sent" => x \in committed
        /\ \A x \in OpIDs : Replay(f, x) = "pending" => live = {} \/ \E g \in live : memo[g][x] = "pending"
        /\ \A g \in Gens, x \in OpIDs : memo[g][x] = "pending" => x \in mine[g]

\* "not known, and this is permanent: never silently resolved" (opjournal.go:27): an
\* operation a replay finds acceptance_unknown stays so.
HoldPermanent ==
    [][\A x \in OpIDs : (Replay(Truncated(opLines), x) = "unknown") => (Replay(Truncated(opLines'), x) = "unknown")]_jvars
=============================================================================

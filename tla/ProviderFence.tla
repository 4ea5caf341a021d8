--------------------------- MODULE ProviderFence ----------------------------
(* The durable identity fence of the native provider (internal/providerfence): several   *)
(* handles, of one incarnation or of others, over one state file. An identity is         *)
(* reserved for a short lease, started or abandoned; what a save reports and what it     *)
(* leaves on disk may differ.                                                            *)
EXTENDS Naturals, FiniteSets

CONSTANTS Ids, Bindings, NoBinding, Incarnations, NoIncarnation, Handles,
          MaxRecords,   \* what the namespace may hold
          MaxFence      \* bound: operations on the fence

VARIABLES
    fence,      \* state.json: the incarnation, the retired ones, the records
    fenceLock,  \* the lock file exists
    handle,     \* each open handle's incarnation
    due,        \* identities whose lease is over
    held,       \* identities whose token some caller has
    firsts,     \* how often each identity's start was told it is the first
    abandoned,  \* identities a caller was told are abandoned
    fenceOps    \* operations so far, for MaxFence

fenceVars == <<fence, fenceLock, handle, due, held, firsts, abandoned, fenceOps>>

NoClaim == [phase |-> "none", binding |-> NoBinding, inc |-> NoIncarnation, token |-> FALSE]
Phases == {"none", "RESERVED", "STARTING", "UNKNOWN", "EXPIRED", "ABANDONED"}

FenceTypeOK ==
    /\ fence.inc \in Incarnations \cup {NoIncarnation} /\ fence.retired \subseteq Incarnations
    /\ \A i \in Ids : fence.recs[i].phase \in Phases
    /\ handle \in [Handles -> Incarnations \cup {NoIncarnation}] /\ fenceLock \in BOOLEAN
    /\ due \subseteq Ids /\ held \subseteq Ids /\ abandoned \subseteq Ids

FenceInit ==
    /\ fence = [inc |-> NoIncarnation, retired |-> {}, recs |-> [i \in Ids |-> NoClaim]] /\ fenceLock = FALSE
    /\ handle = [h \in Handles |-> NoIncarnation] /\ due = {} /\ held = {}
    /\ firsts = [i \in Ids |-> 0] /\ abandoned = {} /\ fenceOps = 0

\* Fault: a lease that is over frees whatever it was for.
SweptAll(st) ==
    [st EXCEPT !.recs = [i \in Ids |-> IF i \in due /\ st.recs[i].phase \in {"RESERVED", "STARTING"}
        THEN [st.recs[i] EXCEPT !.phase = "EXPIRED", !.token = FALSE] ELSE st.recs[i]]]

\* transaction: reservations whose lease is over are expired, whatever else is asked.
Swept(st) ==
    [st EXCEPT !.recs = [i \in Ids |-> IF i \in due /\ st.recs[i].phase = "RESERVED"
        THEN [st.recs[i] EXCEPT !.phase = "EXPIRED", !.token = FALSE] ELSE st.recs[i]]]

\* save: it succeeds, fails before the rename, or replaces the state and reports an error.
Saved(new, ok) == \/ fence' = new /\ ok = TRUE
                  \/ fence' \in {fence, new} /\ ok = FALSE

\* transaction: under the lock; the state must exist, be of this handle's incarnation.
Transaction(h) == fence.inc # NoIncarnation /\ handle[h] # NoIncarnation /\ fence.inc = handle[h]
Room(st) == Cardinality({i \in Ids : st.recs[i].phase # "none"}) < MaxRecords
Counted == fenceOps < MaxFence /\ fenceOps' = fenceOps + 1

\* Open: another incarnation retires the last, expires what was reserved and leaves what was
\* starting unknown; a retired one is refused. A first opening that fails leaves the lock alone.
OpenFence(h, inc) ==
    /\ Counted /\ handle[h] = NoIncarnation
    /\ fence.inc # NoIncarnation \/ ~fenceLock
    /\ fenceLock' = TRUE
    /\ LET st == Swept(fence)
           next == [inc |-> inc, retired |-> st.retired \cup ({st.inc} \ {NoIncarnation}),
                    recs |-> [i \in Ids |-> CASE st.recs[i].phase = "RESERVED" -> [st.recs[i] EXCEPT !.phase = "EXPIRED", !.token = FALSE]
                                              [] st.recs[i].phase = "STARTING" -> [st.recs[i] EXCEPT !.phase = "UNKNOWN"]
                                              [] OTHER -> st.recs[i]]]
       IN IF inc \in fence.retired
            THEN \E ok \in BOOLEAN : Saved(st, ok) /\ UNCHANGED handle
            ELSE \E ok \in BOOLEAN :
                    /\ Saved(IF inc = fence.inc THEN st ELSE next, ok)
                    /\ handle' = [handle EXCEPT ![h] = IF ok THEN inc ELSE @]
    /\ UNCHANGED <<due, held, firsts, abandoned>>

CloseFence(h) ==
    /\ handle[h] # NoIncarnation /\ handle' = [handle EXCEPT ![h] = NoIncarnation]
    /\ UNCHANGED <<fence, fenceLock, due, held, firsts, abandoned, fenceOps>>

\* Reserve: a new identity is reserved; an exact replay is told what there is.
Reserve(h, i, b) ==
    /\ Counted /\ Transaction(h)
    /\ LET st  == Swept(fence)
           new == st.recs[i].phase = "none" /\ Room(st)
           r   == IF new THEN [phase |-> "RESERVED", binding |-> b, inc |-> handle[h], token |-> TRUE] ELSE st.recs[i]
       IN \E ok \in BOOLEAN :
            /\ Saved([st EXCEPT !.recs[i] = r], ok)
            /\ held' = IF ok /\ r.binding = b /\ r.token THEN held \cup {i} ELSE held
    /\ UNCHANGED <<fenceLock, handle, due, firsts, abandoned>>

\* Start: a reservation becomes a start, durably, before the caller is told it is the first.
Start(h, i, b) ==
    /\ Counted /\ Transaction(h) /\ i \in held
    /\ LET st    == Swept(fence)
           r     == st.recs[i]
           valid == r.binding = b /\ r.token /\ r.inc = handle[h]
           first == valid /\ r.phase = "RESERVED"
       IN \E ok \in BOOLEAN :
            /\ Saved(IF first THEN [st EXCEPT !.recs[i].phase = "STARTING"] ELSE st, ok)
            /\ firsts' = [firsts EXCEPT ![i] = IF ok /\ first THEN @ + 1 ELSE @]
    /\ UNCHANGED <<fenceLock, handle, due, held, abandoned>>

\* Abandon: an identity, seen or not, that has not started is fenced for good.
Abandon(h, i, b) ==
    /\ Counted /\ Transaction(h)
    /\ LET st   == Swept(fence)
           r    == st.recs[i]
           may  == (r.phase = "none" /\ Room(st)) \/ (r.binding = b /\ r.phase \in {"RESERVED", "EXPIRED", "ABANDONED"})
           gone == [phase |-> "ABANDONED", binding |-> b, inc |-> IF r.phase = "none" THEN handle[h] ELSE r.inc, token |-> FALSE]
       IN \E ok \in BOOLEAN :
            /\ Saved(IF may THEN [st EXCEPT !.recs[i] = gone] ELSE st, ok)
            /\ abandoned' = IF ok /\ may THEN abandoned \cup {i} ELSE abandoned
    /\ UNCHANGED <<fenceLock, handle, due, held, firsts>>

\* Lookup: it changes nothing but what a lease's end changes.
Lookup(h) ==
    /\ Counted /\ Transaction(h)
    /\ \E ok \in BOOLEAN : Saved(Swept(fence), ok)
    /\ UNCHANGED <<fenceLock, handle, due, held, firsts, abandoned>>

LeaseEnds(i) ==
    /\ i \notin due /\ fence.recs[i].phase # "none" /\ due' = due \cup {i}
    /\ UNCHANGED <<fence, fenceLock, handle, held, firsts, abandoned, fenceOps>>

FenceNext ==
    \/ \E i \in Ids : LeaseEnds(i)
    \/ \E h \in Handles :
         \/ CloseFence(h) \/ Lookup(h) \/ \E inc \in Incarnations : OpenFence(h, inc)
         \/ \E i \in Ids, b \in Bindings : Reserve(h, i, b) \/ Start(h, i, b) \/ Abandon(h, i, b)

\* One identity is one execution: a start is told once that it is the first, whatever answers
\* were lost and whoever has taken over since, and an identity that is expired, abandoned or
\* was reported abandoned never had one ("STARTING and UNKNOWN cannot be declared never-started").
FirstOnce ==
    \A i \in Ids :
        /\ firsts[i] <= 1
        /\ (i \in abandoned \/ fence.recs[i].phase \in {"EXPIRED", "ABANDONED"}) => firsts[i] = 0
=============================================================================

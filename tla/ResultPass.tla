----------------------------- MODULE ResultPass -----------------------------
(* The bounded passes of the manager's poll over its table: recoverResults, which       *)
(* attempts at most sixteen due publications, and recoverClosures, which takes at most   *)
(* sixteen entries and settles them afterwards, each with a cursor into a list that is    *)
(* made anew for every pass while attempts are started, end and are removed.  What an    *)
(* attempt at one entry does is Publication's subject.                                  *)
EXTENDS Integers, Sequences, SequencesExt, FiniteSetsExt

CONSTANTS Ids,          \* attempt ids, numbered in the order of their names
          PassLimit,    \* entries attempted in one pass: sixteen
          MaxRestarts   \* bound: restarts of the manager

ASSUME PassAssumption == Ids \subseteq Nat /\ PassLimit \in Nat \ {0} /\ MaxRestarts \in Nat

VARIABLES
    pass,       \* which pass is explored: "results" or "closures"
    entries,    \* the table's entries in the order of Created, each its id and state
    cursor,     \* m.resultCursor or m.closureCursor, from 0
    taken,      \* the ids the last pass attempted (history)
    restarts    \* restarts so far, for MaxRestarts
vars == <<pass, entries, cursor, taken, restarts>>

\* "live": not terminal; "due"; "backoff": NextRetry is to come; "work": taken by a pass
\* over closures; "settled": published and saved, unavailable or corrupt.
EntryState == {"live", "due", "backoff", "work", "settled"}

TypeOK ==
    /\ pass \in {"results", "closures"}
    /\ entries \in Seq([id : Ids, st : EntryState])
    /\ cursor \in Nat
    /\ taken \subseteq Ids
    /\ restarts \in 0 .. MaxRestarts

Init ==
    /\ pass \in {"results", "closures"}
    /\ entries = <<>> /\ cursor = 0 /\ taken = {} /\ restarts = 0

\* The id of an attempt has an entry in this state.
In(i, st) == \E k \in DOMAIN entries : entries[k] = [id |-> i, st |-> st]
Becomes(i, from, to) ==
    /\ In(i, from)
    /\ entries' = [k \in DOMAIN entries |->
                     IF entries[k].id = i THEN [id |-> i, st |-> to] ELSE entries[k]]
    /\ UNCHANGED <<pass, cursor, taken, restarts>>

-----------------------------------------------------------------------------
(* The table between two passes.                                           *)

Start(i) ==
    /\ \A k \in DOMAIN entries : entries[k].id # i
    /\ entries' = Append(entries, [id |-> i, st |-> "live"])
    /\ UNCHANGED <<pass, cursor, taken, restarts>>
Finish(i) == Becomes(i, "live", "due")
RetryTime(i) == Becomes(i, "backoff", "due")
RemoveEntry(i) ==
    /\ In(i, "settled")
    /\ entries' = SelectSeq(entries, LAMBDA e : e.id # i)
    /\ UNCHANGED <<pass, cursor, taken, restarts>>

\* What was taken and not settled is taken again; the cursors are memory.
Restart ==
    /\ restarts < MaxRestarts /\ restarts' = restarts + 1
    /\ cursor' = 0
    /\ entries' = [k \in DOMAIN entries |->
                     IF entries[k].st = "work" THEN [entries[k] EXCEPT !.st = "due"] ELSE entries[k]]
    /\ UNCHANGED <<pass, taken>>

-----------------------------------------------------------------------------
(* A pass.                                                                 *)

\* A list ordered by the attempts' names.
ListByName == SortSeq(entries, LAMBDA d, e : d.id < e.id)
List == entries

\* The list from the cursor round to it again.
Scan(list) == [k \in DOMAIN list |-> list[((cursor + k - 1) % Len(list)) + 1]]
DueBefore(scan, k) == Cardinality({j \in 1 .. k - 1 : scan[j].st = "due"})

\* The places of the scan that move the cursor: before sixteen were attempted, every entry
\* with an unacknowledged result, due or not, and only the due ones among the closures.
Visited(scan) ==
    {k \in DOMAIN scan :
        /\ scan[k].st \in (IF pass = "results" THEN {"due", "backoff"} ELSE {"due"})
        /\ DueBefore(scan, k) < PassLimit}
Attempted(scan) == {scan[k].id : k \in {j \in Visited(scan) : scan[j].st = "due"}}
Moved(scan) == IF Visited(scan) = {} THEN cursor ELSE (cursor + Max(Visited(scan))) % Len(scan)

\* A result is attempted under the lock: it is settled, or fails and waits, or its
\* acknowledgement could not be saved, and it is due again at once.
RecoverResults ==
    /\ pass = "results"
    /\ LET scan == Scan(List)
       IN  \E to \in [Attempted(scan) -> {"settled", "backoff", "due"}] :
              /\ cursor' = Moved(scan) /\ taken' = Attempted(scan)
              /\ entries' = [k \in DOMAIN entries |->
                    IF entries[k].id \in taken' THEN [entries[k] EXCEPT !.st = to[entries[k].id]]
                                                ELSE entries[k]]
    /\ UNCHANGED <<pass, restarts>>

\* Closures are taken under the lock, observed without it and settled one by one.
TakeClosures ==
    /\ pass = "closures" /\ \A i \in Ids : ~In(i, "work")
    /\ LET scan == Scan(List)
       IN  /\ cursor' = Moved(scan) /\ taken' = Attempted(scan)
           /\ entries' = [k \in DOMAIN entries |->
                    IF entries[k].id \in taken' THEN [entries[k] EXCEPT !.st = "work"] ELSE entries[k]]
    /\ UNCHANGED <<pass, restarts>>
SettleClosure(i) == \E st \in {"settled", "backoff", "due"} : Becomes(i, "work", st)

-----------------------------------------------------------------------------

TableStep(i) == Start(i) \/ Finish(i) \/ RetryTime(i) \/ RemoveEntry(i)
Next == RecoverResults \/ TakeClosures \/ Restart \/ \E i \in Ids : TableStep(i) \/ SettleClosure(i)

\* The ticker fires for as long as the manager lives, and what a pass took it goes through.
Fairness ==
    /\ WF_vars(RecoverResults) /\ WF_vars(TakeClosures)
    /\ \A i \in Ids : WF_vars(SettleClosure(i))
Spec == Init /\ [][Next]_vars /\ Fairness

\* recoverResults and recoverClosures: an entry that stays due is attempted, however many
\* others are due at every pass and although every removal moves the list under the
\* cursor.  It rests on the order of the list: new attempts come after those that wait.
NoneStarved == \A i \in Ids : In(i, "due") ~> (i \in taken \/ ~In(i, "due"))
=============================================================================

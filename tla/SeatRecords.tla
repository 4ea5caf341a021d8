---------------------------- MODULE SeatRecords -----------------------------
(* The owner's records of one seat (internal/seatapi, internal/seatdecl/location.go): its *)
(* declarations and its locations, each a directory of numbered files that are only ever *)
(* added, changed by compare-and-set: a declaration on the digest of its predecessor, a   *)
(* location on its revision. Requests are served at the same time without a lock; the     *)
(* service may end at any step, and the machine may lose what was not synced.             *)
EXTENDS Naturals, Sequences

CONSTANTS
    Askers,        \* requests served at one time
    Bodies,        \* declarations, by digest
    NoBody,        \* no declaration
    Places,        \* locations
    MaxRevision,   \* bound: revisions of each record
    MaxChanges     \* bound: requests

ASSUME RecordAssumption == NoBody \notin Bodies /\ MaxRevision \in Nat /\ MaxChanges \in Nat

VARIABLES
    record,      \* the files of each directory: what was asked, how far the file is written
    entries,     \* each directory's entries that a power loss cannot take
    change,      \* each request and its step
    acknowledged,    \* revisions that were acknowledged, with their contents
    changes      \* requests so far

recordVars == <<record, entries, change, acknowledged, changes>>
Kinds == {"declaration", "location"}
\* What a request asks: a body on the digest it expects, or a place on the revision it expects.
Asked == [kind: {"declaration"}, body: Bodies, on: Bodies \cup {NoBody}]
    \cup [kind: {"location"}, body: Bodies, where: Places, evidence: BOOLEAN, on: 0..MaxRevision]
Serving == {"current", "list", "read", "create", "write", "sync", "answer"}
NoChange == [pc |-> "idle", ask |-> [kind |-> "declaration", body |-> NoBody, on |-> NoBody], rev |-> 0]
Top(kind) == Len(record[kind])

RecordTypeOK ==
    /\ \A t \in Kinds : Top(t) <= MaxRevision /\ entries[t] <= Top(t)
    /\ \A t \in Kinds, n \in 1..MaxRevision : n <= Top(t) => record[t][n].st \in {"part", "written", "synced"}
    /\ \A c \in Askers : change[c].pc \in Serving \cup {"idle"}
RecordInit ==
    /\ record = [t \in Kinds |-> <<>>] /\ entries = [t \in Kinds |-> 0]
    /\ change = [c \in Askers |-> NoChange] /\ acknowledged = {} /\ changes = 0

Kind(c) == change[c].ask.kind
ChangeAt(c, pc) == change[c].pc = pc
ChangeTo(c, pc) == change' = [change EXCEPT ![c].pc = pc]
ChangeEnds(c) == change' = [change EXCEPT ![c] = NoChange]

\* Handler: a request is decoded. A location is checked against the declaration first.
ReceiveChange(c, ask) ==
    /\ ChangeAt(c, "idle") /\ changes < MaxChanges /\ changes' = changes + 1
    /\ change' = [change EXCEPT ![c] = [pc |-> IF ask.kind = "location" THEN "current" ELSE "list", ask |-> ask, rev |-> 0]]
    /\ UNCHANGED <<record, entries, acknowledged>>

\* A file that is not written whole does not parse.
ReadableFile(kind, n) == record[kind][n].st # "part"

\* Store.Current for a location: the seat is declared, by the body that the location names.
\* The files are listed and the last is read; an add in between only makes it older.
CheckDeclared(c) ==
    /\ ChangeAt(c, "current")
    /\ \/ /\ Top("declaration") > 0 /\ ReadableFile("declaration", Top("declaration"))
          /\ record["declaration"][Top("declaration")].ask.body = change[c].ask.body
          /\ ChangeTo(c, "list")
       \/ ChangeEnds(c)
    /\ UNCHANGED <<record, entries, acknowledged, changes>>

\* Current: the directory is listed, and its last file is read later.
ListFiles(c) ==
    /\ ChangeAt(c, "list")
    /\ change' = [change EXCEPT ![c].pc = "read", ![c].rev = Top(Kind(c))]
    /\ UNCHANGED <<record, entries, acknowledged, changes>>

\* Declare: the current body has the digest expected. Move: the revision is the one
\* expected, and a change of place has both references.
Matches(ask, n) ==
    LET cur == record[ask.kind][n].ask
    IN  IF ask.kind = "declaration" THEN ask.on = (IF n = 0 THEN NoBody ELSE cur.body)
        ELSE ask.on = n /\ (n > 0 /\ cur.where # ask.where => ask.evidence)

\* The same bytes again make no new revision.
Same(ask, n) == ask.kind = "declaration" /\ n > 0 /\ record["declaration"][n].ask.body = ask.body

ReadCurrent(c) ==
    LET ask == change[c].ask
        n == change[c].rev
    IN  /\ ChangeAt(c, "read")
        /\ \/ /\ (n > 0 => ReadableFile(ask.kind, n)) /\ Matches(ask, n)
              /\ IF Same(ask, n) THEN ChangeEnds(c) ELSE ChangeTo(c, "create")
           \/ ChangeEnds(c)
        /\ UNCHANGED <<record, entries, acknowledged, changes>>

\* The exclusive create of the next number is the compare-and-set.
Create(c) ==
    LET ask == change[c].ask
        n == change[c].rev + 1
    IN  /\ ChangeAt(c, "create")
        /\ \/ /\ n = Top(ask.kind) + 1 /\ n <= MaxRevision
              /\ record' = [record EXCEPT ![ask.kind] = Append(@, [ask |-> ask, st |-> "part"])]
              /\ change' = [change EXCEPT ![c].pc = "write", ![c].rev = n]
           \/ ChangeEnds(c) /\ UNCHANGED record
        /\ UNCHANGED <<entries, acknowledged, changes>>

\* Write, which may fail half way; the file stays as it is.
WriteRecord(c) ==
    /\ ChangeAt(c, "write")
    /\ \/ record' = [record EXCEPT ![Kind(c)][change[c].rev].st = "written"] /\ ChangeTo(c, "sync")
       \/ ChangeEnds(c) /\ UNCHANGED record
    /\ UNCHANGED <<entries, acknowledged, changes>>
SyncRecord(c) ==
    /\ ChangeAt(c, "sync")
    /\ \/ record' = [record EXCEPT ![Kind(c)][change[c].rev].st = "synced"] /\ ChangeTo(c, "answer")
       \/ ChangeEnds(c) /\ UNCHANGED record
    /\ UNCHANGED <<entries, acknowledged, changes>>
\* calljournal.Sync of the directory, then the answer with the revision.
AnswerChange(c) ==
    /\ ChangeAt(c, "answer")
    /\ \/ /\ entries' = [entries EXCEPT ![Kind(c)] = Top(Kind(c))]
          /\ acknowledged' = acknowledged \cup {[rev |-> change[c].rev, ask |-> change[c].ask]}
       \/ UNCHANGED <<entries, acknowledged>>
    /\ ChangeEnds(c)
    /\ UNCHANGED <<record, changes>>

\* The service ends, or the machine does: files not synced lose their contents, and the
\* last entries of a directory not synced go.
ServiceEnds ==
    /\ \E c \in Askers : ~ChangeAt(c, "idle")
    /\ change' = [c \in Askers |-> NoChange]
    /\ UNCHANGED <<record, entries, acknowledged, changes>>
PowerLoss ==
    /\ \E t \in Kinds : Top(t) > 0
    /\ \E keep \in [Kinds -> 0..MaxRevision], whole \in BOOLEAN :
          /\ \A t \in Kinds : keep[t] \in entries[t]..Top(t)
          /\ record' = [t \in Kinds |-> [n \in 1..keep[t] |->
                           IF record[t][n].st = "written"
                             THEN [record[t][n] EXCEPT !.st = IF whole THEN "synced" ELSE "part"]
                             ELSE record[t][n]]]
          /\ entries' = keep
    /\ change' = [c \in Askers |-> NoChange]
    /\ UNCHANGED <<acknowledged, changes>>

RecordNext ==
    \/ ServiceEnds \/ PowerLoss
    \/ \E c \in Askers :
          \/ \E ask \in Asked : ReceiveChange(c, ask)
          \/ CheckDeclared(c) \/ ListFiles(c) \/ ReadCurrent(c) \/ Create(c)
          \/ WriteRecord(c) \/ SyncRecord(c) \/ AnswerChange(c)

(********************************* properties ***************************************)
\* An acknowledged revision is the file of its number for good, whole, whatever crashes
\* (Declare, Move: "Revisions are add-only ... none is ever rewritten", location.go:17).
AcknowledgedKept ==
    \A a \in acknowledged : /\ a.rev <= Top(a.ask.kind)
                        /\ record[a.ask.kind][a.rev] = [ask |-> a.ask, st |-> "synced"]

\* Every file extends the one its request had read: of several changes made on one
\* predecessor one is recorded, and no place changes without the references.
OnPredecessor ==
    \A t \in Kinds : \A n \in 1..Top(t) :
        LET ask == record[t][n].ask
        IN  IF t = "declaration" THEN ask.on = (IF n = 1 THEN NoBody ELSE record[t][n - 1].ask.body)
            ELSE /\ ask.on = n - 1
                 /\ n > 1 /\ record[t][n - 1].ask.where # ask.where => ask.evidence

RecordsTrue == AcknowledgedKept /\ OnPredecessor
=============================================================================

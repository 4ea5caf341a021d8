---------------------------- MODULE Publication ----------------------------
(***************************************************************************)
(* Publication of an attempt's result and of its closure proof             *)
(* (manager/result_recovery.go, manager/closure.go, internal/result).      *)
(*                                                                         *)
(* When an attempt ends, its exact result document is frozen in the table; *)
(* document and signature are then written once, each under a name that is *)
(* never overwritten, and the table acknowledges them.  The closure proof  *)
(* takes the same way after the manager has observed the VM's cleanup.     *)
(* Every step may fail, and the manager may die or the host lose power     *)
(* between any two.                                                        *)
(*                                                                         *)
(* A document is named by its number: the n-th one the manager composed    *)
(* for that attempt.  A file operation ends "ok", "lost" (an error, nothing*)
(* written) or "late" (an error from the final directory sync: visible,    *)
(* but a power loss may undo it).                                          *)
(***************************************************************************)
EXTENDS Naturals, FiniteSets

CONSTANTS
    Attempts,
    Keys,        \* signing keys
    Policy,      \* the ResultPolicy frozen at admission: a key, "unsigned",
                 \* or "legacy" for an attempt admitted before policies
    MaxDocs,     \* bound: documents composed of a kind for one attempt
    MaxMishaps,  \* bound: failed writes, deaths of the manager, power losses
    Faults,      \* which of "lost", "late", "list", "oversize" can happen
    Tampering    \* files the manager did not write can appear in a record

ASSUME PublicationAssumption ==
    /\ Policy \in [Attempts -> Keys \cup {"unsigned", "legacy"}]
    /\ {"unsigned", "legacy", "none", "foreign"} \cap Keys = {}
    /\ MaxDocs \in Nat /\ MaxMishaps \in Nat
    /\ Faults \subseteq {"lost", "late", "list", "oversize"}
    /\ Tampering \in BOOLEAN

VARIABLES
    up,         \* a manager runs
    mem,        \* m.t.entries
    vis, dur,   \* table.json as it can be read, and as it survives a power loss
    saved,      \* completionSaved and closureSaved, in memory only
    file,       \* the published files as they can be read
    fsync,      \* the published files that survive a power loss
    signer,     \* cfg.Signer's key, or "none"
    fact,       \* the helper's acknowledgement; helper, VM and object gone
    docs,       \* documents composed so far
    work,       \* the watcher's publication step
    removing,   \* the attempt whose record removeLocked has just torn down
    mishaps     \* failed writes, deaths and power losses so far

vars == <<up, mem, vis, dur, saved, file, fsync, signer, fact, docs, work, removing,
          mishaps>>

Kinds    == {"result", "closure"}
States   == {"none", "pending", "held", "published", "corrupt", "unknown", "unavailable"}
Foreign  == MaxDocs + 1
Publications == [state : States, doc : 0 .. MaxDocs]
Entry    == [here : BOOLEAN, ended : BOOLEAN, timed : BOOLEAN, pub : [Kinds -> Publications]]
Sig      == [key : Keys \cup {"none", "foreign"}, doc : 0 .. MaxDocs]
Pair     == [doc : 0 .. Foreign, sig : Sig]
Steps    == {"idle", "observed", "decide", "doc", "sig", "readback", "mark"}

NoSig    == [key |-> "none", doc |-> 0]
NoPair   == [doc |-> 0, sig |-> NoSig]
NoWork   == [step |-> "idle", at |-> CHOOSE a \in Attempts : TRUE, kind |-> "result", why |-> "none"]
Admitted == [here |-> TRUE, ended |-> FALSE, timed |-> FALSE,
             pub |-> [k \in Kinds |-> [state |-> "none", doc |-> 0]]]
NoEntry  == [Admitted EXCEPT !.here = FALSE]

TypeOK ==
    /\ up \in BOOLEAN
    /\ {mem, vis, dur} \subseteq [Attempts -> Entry]
    /\ saved \in [Attempts -> SUBSET Kinds]
    /\ {file, fsync} \subseteq [Attempts -> [Kinds -> Pair]]
    /\ signer \in Keys \cup {"none"}
    /\ fact \in [Attempts -> [ack : {"yes", "no", "corrupt"}, gone : BOOLEAN]]
    /\ docs \in [Attempts -> [Kinds -> 0 .. MaxDocs]]
    /\ work \in [step : Steps, at : Attempts, kind : Kinds,
                 why : {"none", "ok", "missing", "corrupt", "quiet"}]
    /\ removing \subseteq Attempts
    /\ mishaps \in 0 .. MaxMishaps

-----------------------------------------------------------------------------
Outcomes == {"ok"} \cup (IF mishaps < MaxMishaps THEN Faults \cap {"lost", "late"} ELSE {})

Count(r) == mishaps' = IF r = "ok" THEN mishaps ELSE mishaps + 1

\* table.save of t, with its outcome.
Save(t, r) ==
    /\ vis' = IF r = "lost" THEN vis ELSE t
    /\ dur' = IF r = "ok" THEN t ELSE dur
    /\ Count(r)

ClosureRequired(a) == Policy[a] # "legacy"
Signed(a)          == Policy[a] \in Keys
Pub(a, k)          == mem[a].pub[k]

\* The signature over document n that the admission's policy asks for.
Wanted(a, n) == IF Signed(a) THEN [key |-> Policy[a], doc |-> n] ELSE NoSig

\* The retained files judged against the frozen intent, as publicationRead
\* and closurePair both do: what is missing is pending, unless it was
\* acknowledged; what differs is a conflict.
Verdict(a, k) ==
    LET p == Pub(a, k)  f == file[a][k]
        missing == f.doc = 0 \/ (Signed(a) /\ f.sig = NoSig)
    IN  IF (f.doc # 0 /\ f.doc # p.doc)
           \/ (f.doc # 0 /\ f.sig # NoSig /\ f.sig # Wanted(a, p.doc))
        THEN "conflict"
        ELSE IF missing THEN IF p.state = "published" THEN "conflict" ELSE "pending"
        ELSE "ok"

\* publicationRead and closureRead: the answer to a reader, "ok" for 200,
\* "pending" for 503, "conflict" for 409.
Read(a, k) ==
    LET p == Pub(a, k) IN
    IF p.state \in {"corrupt", "unknown"} THEN "conflict"
    ELSE IF p.state = "unavailable" THEN IF k \in saved[a] THEN "conflict" ELSE "pending"
    ELSE IF p.doc = 0 THEN "pending"
    ELSE IF Verdict(a, k) # "ok" THEN Verdict(a, k)
    ELSE IF k \in saved[a] /\ (k = "closure" => p.state = "published") THEN "ok"
    ELSE "pending"

\* resultDisposable: both publications are resolved, durably.
Disposable(a) ==
    /\ mem[a].ended
    /\ ClosureRequired(a) =>
        \/ Pub(a, "closure").state = "unavailable" /\ "closure" \in saved[a]
        \/ Read(a, "closure") = "ok"
    /\ Pub(a, "result").doc # 0 => "result" \in saved[a] /\ Pub(a, "result").state = "published"
    /\ Read(a, "result") = "ok"

\* m.mu is free: the watcher holds it from "decide" to "mark".
LockFree == work.step \in {"idle", "observed"} /\ removing = {}

At(step, a, k, why) == work' = [step |-> step, at |-> a, kind |-> k, why |-> why]
Go(step)            == work' = [work EXCEPT !.step = step]
SetState(a, k, st)  == mem' = [mem EXCEPT ![a].pub[k].state = st]

Init ==
    /\ up = TRUE
    /\ mem = [a \in Attempts |-> Admitted] /\ vis = mem /\ dur = mem
    /\ saved = [a \in Attempts |-> {}]
    /\ file = [a \in Attempts |-> [k \in Kinds |-> NoPair]] /\ fsync = file
    /\ signer \in Keys
    /\ fact = [a \in Attempts |-> [ack |-> "no", gone |-> FALSE]]
    /\ docs = [a \in Attempts |-> [k \in Kinds |-> 0]]
    /\ work = NoWork /\ removing = {}
    /\ mishaps = 0

-----------------------------------------------------------------------------
(* The end of an attempt, and the result's publication.                    *)

\* finish: freezeResultWithRepository and the save that holds both the end
\* and the intent.  An attempt without an admission policy is unknown.
End(a) ==
    /\ up /\ work.step = "idle" /\ LockFree
    /\ mem[a].here /\ ~mem[a].ended
    /\ \E r \in Outcomes, ack \in {"yes", "no", "corrupt"}, frozen \in BOOLEAN :
        LET n == docs[a]["result"] + 1
            p == IF Policy[a] = "legacy" THEN [state |-> "unknown", doc |-> 0]
                 ELSE IF frozen THEN [state |-> "pending", doc |-> n]
                 ELSE [state |-> "corrupt", doc |-> 0]
        IN
        /\ frozen \/ "oversize" \in Faults
        /\ p.doc <= MaxDocs
        /\ mem' = [mem EXCEPT ![a].ended = TRUE, ![a].pub["result"] = p]
        /\ docs' = [docs EXCEPT ![a]["result"] = IF p.doc = 0 THEN @ ELSE n]
        /\ fact' = [fact EXCEPT ![a].ack = IF @ = "no" THEN ack ELSE @]
        /\ Save(mem', r)
        /\ saved' = [saved EXCEPT ![a] = IF r = "ok" THEN @ \cup {"result"} ELSE @]
    /\ UNCHANGED <<up, file, fsync, signer, work, removing>>

\* A recovery that gives a held result up.
PickResultUnheld(a) ==
    LET p == Pub(a, "result") IN
    /\ up /\ work.step = "idle" /\ LockFree
    /\ mem[a].ended /\ p.doc # 0 /\ p.state \notin {"corrupt", "unknown", "held"}
    /\ ~("result" \in saved[a] /\ p.state = "published")
    /\ \E r \in Outcomes :
        /\ Save(mem, r)
        /\ saved' = [saved EXCEPT ![a] = IF r = "ok" THEN @ \cup {"result"} ELSE @]
        /\ IF r = "ok" THEN At("decide", a, "result", "none") ELSE UNCHANGED work
    /\ UNCHANGED <<up, mem, file, fsync, signer, fact, docs, removing>>

\* recoverResults takes up an entry: its intent must be acknowledged by a
\* save of this manager's own before a result name is touched.
PickResult(a) ==
    LET p == Pub(a, "result") IN
    /\ up /\ work.step = "idle" /\ LockFree
    /\ mem[a].ended /\ p.doc # 0 /\ p.state \notin {"corrupt", "unknown"}
    /\ \/ /\ "result" \in saved[a] /\ p.state # "published"
          /\ At("decide", a, "result", "none")
          /\ UNCHANGED <<vis, dur, saved, mishaps>>
       \/ /\ "result" \notin saved[a]
          /\ \E r \in Outcomes :
              /\ Save(mem, r)
              /\ saved' = [saved EXCEPT ![a] = IF r = "ok" THEN @ \cup {"result"} ELSE @]
              /\ IF r = "ok" THEN At("decide", a, "result", "none") ELSE UNCHANGED work
    /\ UNCHANGED <<up, mem, file, fsync, signer, fact, docs, removing>>

\* What recoverResults and recoverClosures do with an acknowledged intent: complete files are only written again, byte for byte; incomplete
\* ones need the key of the admission, and are held without it.  Two of the
\* ends are saved without a look at the outcome ("quiet").
Decide ==
    LET a == work.at  k == work.kind  v == Verdict(a, k)
        reread == k = "result" /\ Pub(a, k).state = "published"
    IN
    /\ work.step = "decide"
    /\ IF v = "conflict"
       THEN SetState(a, k, "corrupt") /\ At("mark", a, k, IF reread THEN "quiet" ELSE "none")
       ELSE IF reread THEN work' = NoWork /\ UNCHANGED mem
       ELSE IF v = "pending" /\ Signed(a) /\ signer # Policy[a]
       THEN SetState(a, k, "held") /\ At("mark", a, k, IF k = "closure" THEN "quiet" ELSE "none")
       ELSE Go("doc") /\ UNCHANGED mem
    /\ UNCHANGED <<up, vis, dur, saved, file, fsync, signer, fact, docs, removing, mishaps>>

\* The signature publishPair is given: the file's own if the pair was
\* complete, otherwise one by the manager's key.
Given(a, k) ==
    IF ~Signed(a) THEN NoSig
    ELSE IF Verdict(a, k) = "ok" THEN file[a][k].sig
    ELSE [key |-> signer, doc |-> Pub(a, k).doc]

\* An immutable that does not sync the directory of a name it finds in place.
ImmutableSyncOnce(a, k, name, b, r, next) ==
    /\ file' = IF r = "lost" THEN file ELSE [file EXCEPT ![a][k][name] = b]
    /\ fsync' = IF r = "ok" /\ file[a][k][name] # b THEN [fsync EXCEPT ![a][k] = file'[a][k]] ELSE fsync
    /\ Count(r)
    /\ IF r = "ok" THEN Go(next) /\ UNCHANGED mem
       ELSE SetState(a, k, "pending") /\ Go("mark")

\* immutable: link the staged file under its name unless the same bytes are
\* there, then sync the directory.
Immutable(a, k, name, b, r, next) ==
    /\ file' = IF r = "lost" THEN file ELSE [file EXCEPT ![a][k][name] = b]
    /\ fsync' = IF r = "ok" THEN [fsync EXCEPT ![a][k] = file'[a][k]] ELSE fsync
    /\ Count(r)
    /\ IF r = "ok" THEN Go(next) /\ UNCHANGED mem
       ELSE SetState(a, k, "pending") /\ Go("mark")

\* publishPair up to the document: any other bytes under either name are a
\* conflict, and nothing is written.
PublishDoc ==
    LET a == work.at  k == work.kind  p == Pub(a, k)  f == file[a][k]
        clash == (f.doc \notin {0, p.doc}) \/ (f.sig \notin {NoSig, Given(a, k)})
    IN
    /\ work.step = "doc"
    /\ IF clash THEN SetState(a, k, "corrupt") /\ Go("mark") /\ UNCHANGED <<file, fsync, mishaps>>
       ELSE \E r \in Outcomes :
            Immutable(a, k, "doc", p.doc, r, IF Signed(a) THEN "sig" ELSE "readback")
    /\ UNCHANGED <<up, vis, dur, saved, signer, fact, docs, removing>>

\* publishPair's signature.
PublishSig ==
    LET a == work.at  k == work.kind IN
    /\ work.step = "sig"
    /\ IF file[a][k].sig \notin {NoSig, Given(a, k)}
       THEN SetState(a, k, "corrupt") /\ Go("mark") /\ UNCHANGED <<file, fsync, mishaps>>
       ELSE \E r \in Outcomes : Immutable(a, k, "sig", Given(a, k), r, "readback")
    /\ UNCHANGED <<up, vis, dur, saved, signer, fact, docs, removing>>

\* checkPublicationReadback, which may find the files unreadable for now; a
\* closure is not read back.
Readback ==
    LET a == work.at  k == work.kind IN
    /\ work.step = "readback"
    /\ \E r \in Outcomes \ {"late"} :
        /\ k = "closure" => r = "ok"
        /\ SetState(a, k, IF k = "result" /\ Verdict(a, k) = "conflict" THEN "corrupt"
                          ELSE IF r = "ok" THEN "published" ELSE "pending")
        /\ Count(r)
    /\ Go("mark")
    /\ UNCHANGED <<up, vis, dur, saved, file, fsync, signer, fact, docs, removing>>

\* The closing save, which acknowledges whatever state was reached.
Mark ==
    LET a == work.at  k == work.kind IN
    /\ work.step = "mark"
    /\ \E r \in Outcomes :
        /\ Save(mem, r)
        /\ saved' = IF work.why = "quiet" THEN saved
                    ELSE [saved EXCEPT ![a] = IF r = "ok" THEN @ \cup {k} ELSE @ \ {k}]
    /\ work' = NoWork
    /\ UNCHANGED <<up, mem, file, fsync, signer, fact, docs, removing>>

-----------------------------------------------------------------------------
(* The closure proof.                                                      *)

\* closureObservation: only positive acknowledgements bound to this attempt
\* and the departure of helper, VM and object make a closure document; files
\* no intent accounts for are never aged away.
Observation(a) ==
    IF mem[a].pub["result"].doc # 0 /\ fact[a] = [ack |-> "yes", gone |-> TRUE] THEN "ok"
    ELSE IF fact[a].ack = "corrupt" \/ file[a]["closure"].doc # 0 THEN "corrupt"
    ELSE "missing"

\* A snapshot that looks again at a closure found unavailable.
ObserveClosureAgain(a) ==
    LET p == Pub(a, "closure") IN
    /\ up /\ work.step = "idle" /\ LockFree
    /\ mem[a].ended /\ ClosureRequired(a) /\ p.state # "corrupt"
    /\ ~(p.state = "published" /\ "closure" \in saved[a])
    /\ IF p.doc # 0 THEN At("observed", a, "closure", "none")
       ELSE At("observed", a, "closure", Observation(a))
    /\ UNCHANGED <<up, mem, vis, dur, saved, file, fsync, signer, fact, docs, removing, mishaps>>

\* recoverClosures' snapshot, and the observation it makes without m.mu.
ObserveClosure(a) ==
    LET p == Pub(a, "closure") IN
    /\ up /\ work.step = "idle" /\ LockFree
    /\ mem[a].ended /\ ClosureRequired(a) /\ p.state # "corrupt"
    /\ ~(p.state \in {"published", "unavailable"} /\ "closure" \in saved[a])
    /\ IF p.doc # 0 \/ p.state = "unavailable" THEN At("observed", a, "closure", "none")
       ELSE \/ At("observed", a, "closure", Observation(a))
            \/ "list" \in Faults /\ file[a]["closure"].doc = 0 /\ At("observed", a, "closure", "missing")
    /\ UNCHANGED <<up, mem, vis, dur, saved, file, fsync, signer, fact, docs, removing, mishaps>>

\* recoverClosures without an observation to freeze: conflicting evidence is
\* corrupt; missing evidence is held until the window has passed.
HoldClosure ==
    LET a == work.at  p == Pub(a, "closure") IN
    /\ work.step = "observed" /\ LockFree
    /\ p.doc = 0
    /\ \/ /\ p.state = "unavailable"
          /\ UNCHANGED mem
       \/ /\ work.why = "corrupt"
          /\ SetState(a, "closure", "corrupt")
       \/ /\ work.why = "missing"
          /\ \E st \in {"held"} \cup (IF mem[a].timed THEN {"unavailable"} ELSE {}) :
              mem' = [mem EXCEPT ![a].timed = TRUE, ![a].pub["closure"].state = st]
    /\ Go("mark")
    /\ UNCHANGED <<up, vis, dur, saved, file, fsync, signer, fact, docs, removing, mishaps>>

\* recoverClosures with an intent, its own or just frozen: it is saved before
\* anything is signed.
FreezeClosure ==
    LET a == work.at  n == docs[a]["closure"] + 1 IN
    /\ work.step = "observed" /\ LockFree
    /\ work.why = "ok" \/ Pub(a, "closure").doc # 0
    /\ IF Pub(a, "closure").doc # 0 THEN UNCHANGED <<mem, docs>>
       ELSE /\ n <= MaxDocs
            /\ mem' = [mem EXCEPT ![a].pub["closure"] = [state |-> "pending", doc |-> n]]
            /\ docs' = [docs EXCEPT ![a]["closure"] = n]
    /\ \E r \in Outcomes :
        /\ Save(mem', r)
        /\ saved' = [saved EXCEPT ![a] = IF r = "ok" THEN @ ELSE @ \ {"closure"}]
        /\ IF r = "ok" THEN Go("decide") ELSE work' = NoWork
    /\ UNCHANGED <<up, file, fsync, signer, fact, removing>>

-----------------------------------------------------------------------------
(* Removal, and the world outside.                                         *)

\* removeLocked: the record's files go first (not synced), then the entry.
RemoveRecord(a) ==
    LET none == [k \in Kinds |-> NoPair] IN
    /\ up /\ LockFree /\ mem[a].here
    /\ Disposable(a)
    /\ file' = [file EXCEPT ![a] = none]
    /\ fsync' \in {[fsync EXCEPT ![a] = none], fsync}
    /\ removing' = {a}
    /\ UNCHANGED <<up, mem, vis, dur, saved, signer, fact, docs, work, mishaps>>

RemoveEntry(a) ==
    /\ a \in removing /\ removing' = {}
    /\ mem' = [mem EXCEPT ![a] = NoEntry]
    /\ \E r \in Outcomes : Save(mem', r)
    /\ saved' = [saved EXCEPT ![a] = {}]
    /\ UNCHANGED <<up, file, fsync, signer, fact, docs, work>>

\* Helper, VM service and VM object are gone.
Depart(a) ==
    /\ mem[a].ended /\ ~fact[a].gone
    /\ fact' = [fact EXCEPT ![a].gone = TRUE]
    /\ UNCHANGED <<up, mem, vis, dur, saved, file, fsync, signer, docs, work, removing, mishaps>>

\* A file the manager did not write appears under a free name.
Tamper(a, k) ==
    /\ Tampering /\ mem[a].here /\ removing = {}
    /\ \/ file[a][k].doc = 0 /\ file' = [file EXCEPT ![a][k].doc = Foreign]
       \/ file[a][k].sig = NoSig
          /\ file' = [file EXCEPT ![a][k].sig = [key |-> "foreign", doc |-> 0]]
    /\ fsync' = [fsync EXCEPT ![a][k] = file'[a][k]]
    /\ UNCHANGED <<up, mem, vis, dur, saved, signer, fact, docs, work, removing, mishaps>>

\* The manager dies, or the host loses power and what was not synced.
Crash ==
    /\ up /\ mishaps < MaxMishaps
    /\ up' = FALSE /\ mishaps' = mishaps + 1
    /\ \/ UNCHANGED <<vis, file>>
       \/ (vis # dur \/ file # fsync) /\ vis' = dur /\ file' = fsync
    /\ work' = NoWork /\ removing' = {}
    /\ UNCHANGED <<mem, dur, saved, fsync, signer, fact, docs>>

\* A load that takes what it can read for what was saved.
RestartTrusting ==
    /\ ~up /\ up' = TRUE
    /\ mem' = vis
    /\ saved' = [a \in Attempts |-> {k \in Kinds : vis[a].pub[k].doc # 0}]
    /\ signer' \in Keys \cup {"none"}
    /\ UNCHANGED <<vis, dur, file, fsync, fact, docs, work, removing, mishaps>>

\* loadTable: nothing read counts as saved; the key may be another one.
Restart ==
    /\ ~up /\ up' = TRUE
    /\ mem' = vis
    /\ saved' = [a \in Attempts |-> {}]
    /\ signer' \in Keys \cup {"none"}
    /\ UNCHANGED <<vis, dur, file, fsync, fact, docs, work, removing, mishaps>>

Watcher ==
    \/ Decide \/ PublishDoc \/ PublishSig \/ Readback \/ Mark
    \/ HoldClosure \/ FreezeClosure
    \/ \E a \in Attempts : PickResult(a) \/ ObserveClosure(a)

Next ==
    \/ Watcher \/ Crash \/ Restart
    \/ \E a \in Attempts :
        \/ End(a) \/ RemoveRecord(a) \/ RemoveEntry(a) \/ Depart(a)
        \/ \E k \in Kinds : Tamper(a, k)

Spec == Init /\ [][Next]_vars

-----------------------------------------------------------------------------
Own(n) == n # 0 /\ n # Foreign

\* result-publication-recovery.md:7-13: what is published is what a power
\* loss cannot take from the table.  A lost or unsynced save followed by a
\* second, different observation never leaves files the table knows nothing of.
PublishedIsFrozen ==
    \A a \in Attempts, k \in Kinds : (Own(file[a][k].doc) /\ dur[a].here /\ removing = {}) =>
        dur[a].pub[k].doc = file[a][k].doc

\* An acknowledgement that survives a power loss speaks of files that survive
\* it too, unless the record has been removed since.
AcknowledgedIsSynced ==
    \A a \in Attempts, k \in Kinds :
        (dur[a].pub[k].state = "published" /\ Own(file[a][k].doc)) =>
            fsync[a][k].doc = dur[a].pub[k].doc /\ (Signed(a) => fsync[a][k].sig # NoSig)

\* result-publication-recovery.md:24-25: a replacement key never signs an
\* intent bound to another key.
SignedByAdmission ==
    \A a \in Attempts, k \in Kinds :
        file[a][k].sig.key \in Keys => file[a][k].sig.key = Policy[a]

\* A closure claims only what was acknowledged and observed.
ClosureTrue ==
    \A a \in Attempts : Own(file[a]["closure"].doc) => fact[a] = [ack |-> "yes", gone |-> TRUE]

\* A record leaves only when a power loss could not leave its result or its
\* closure unresolved.
RecordKept ==
    [][\A a \in Attempts : (removing = {} /\ removing' = {a}) =>
        /\ dur[a].pub["result"].state = "published"
        /\ dur[a].pub["closure"].state \in {"published", "unavailable"}]_vars

\* Bytes the manager did not write are kept as they were found: a conflict is
\* never resolved by overwriting.
ForeignKept ==
    [][\A a \in Attempts, k \in Kinds : removing' = removing =>
        /\ file[a][k].doc = Foreign => file'[a][k].doc = Foreign
        /\ file[a][k].sig.key = "foreign" => file'[a][k].sig.key = "foreign"]_vars

\* An unavailable closure is final once it could be answered: it never turns
\* into a positive proof, which would make the earlier answer a lie.
UnavailableFinal ==
    [][\A a \in Attempts :
        (up /\ LockFree /\ "closure" \in saved[a] /\ Pub(a, "closure").state = "unavailable" /\ mem'[a].here)
            => mem'[a].pub["closure"].state = "unavailable"]_vars

\* The published files are true in three ways: they are the table's, no key other than the
\* admission's signed them, and a closure among them happened (publishPair, recoverClosures).
PublishedTrue == PublishedIsFrozen /\ SignedByAdmission /\ ClosureTrue

\* Evidence is never given up or turned around: not by a removal, not by overwriting what
\* others put there, not by a proof after the answer that there is none.
EvidenceKept == RecordKept /\ ForeignKept /\ UnavailableFinal

\* A frozen result is published, or found in conflict, as long as the key it
\* was admitted under is the manager's.
EventuallyPublished ==
    \A a \in Attempts :
        (mem[a].here /\ Own(Pub(a, "result").doc)) ~>
            \/ Pub(a, "result").state \in {"published", "corrupt"}
            \/ Signed(a) /\ signer # Policy[a]
            \/ ~mem[a].ended \/ ~mem[a].here

\* The ticker keeps polling, every poll recovers results before closures, and
\* its cursor comes round to every entry; launchd starts the manager again.
Fairness ==
    /\ WF_vars(Watcher) /\ WF_vars(Restart)
    /\ \A a \in Attempts : WF_vars(RemoveEntry(a)) /\ SF_vars(PickResult(a))

FairSpec == Spec /\ Fairness

\* result-publication-recovery.md:38: 409 means conflicting or corrupt
\* evidence: without foreign files no result is found corrupt.
CorruptMeansConflict == \A a \in Attempts : Pub(a, "result").state # "corrupt"
=============================================================================

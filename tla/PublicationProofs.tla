------------------------- MODULE PublicationProofs --------------------------
(* Proofs about Publication: what is published is frozen, signed and true, what is       *)
(* acknowledged survives a power loss, and evidence is kept, for any number of attempts, *)
(* any keys and policies, every fault, and any number of documents and mishaps.          *)
EXTENDS Publication, TLAPS

(************************************ types *****************************************)
WorkRec == [step : Steps, at : Attempts \cup {NoWork.at}, kind : Kinds,
            why : {"none", "ok", "missing", "corrupt", "quiet"}]
Pairs == [Attempts -> [Kinds -> Pair]]
Facts == [ack : {"yes", "no", "corrupt"}, gone : BOOLEAN]
PubTypes ==
    /\ up \in BOOLEAN /\ mem \in [Attempts -> Entry] /\ vis \in [Attempts -> Entry] /\ dur \in [Attempts -> Entry]
    /\ saved \in [Attempts -> SUBSET Kinds] /\ file \in Pairs /\ fsync \in Pairs
    /\ signer \in Keys \cup {"none"} /\ fact \in [Attempts -> Facts]
    /\ docs \in [Attempts -> [Kinds -> 0 .. MaxDocs]]
    /\ work \in WorkRec /\ (work.step # "idle" => work.at \in Attempts) /\ removing \in SUBSET Attempts

(***************************** the inductive invariant ******************************)
\* The tables: the manager's own, the one that can be read and the one that survives.
Doc(t, a, k) == t[a].pub[k].doc
St(t, a, k) == t[a].pub[k].state

\* Table t comes after table s: what was frozen in s stands in t, unless its entry is gone.
Follows(s, t) ==
    \A a \in Attempts : t[a].here =>
        /\ s[a].here /\ (s[a].ended => t[a].ended)
        /\ \A k \in Kinds : Doc(s, a, k) # 0 => Doc(t, a, k) = Doc(s, a, k)

\* An intent belongs to an ended attempt with a policy; a closure's to one that was seen closed.
Seen(a) == fact[a].ack = "yes" /\ fact[a].gone
EntryTrue(t) ==
    \A a \in Attempts :
        /\ t[a].ended => t[a].here
        /\ \A k \in Kinds : (Doc(t, a, k) # 0 => t[a].ended) /\ (St(t, a, k) = "published" => Doc(t, a, k) # 0)
        /\ Doc(t, a, "result") # 0 => Policy[a] # "legacy"
        /\ Doc(t, a, "closure") # 0 => Seen(a)
TablesInv == EntryTrue(mem) /\ EntryTrue(vis) /\ EntryTrue(dur) /\ Follows(vis, mem) /\ Follows(dur, vis)

\* A file of the manager's is the surviving table's, signed by the admission's key or not
\* at all, and a closure's only of what was seen.
FileTrue(f) ==
    \A a \in Attempts, k \in Kinds :
        /\ Own(f[a][k].doc) /\ dur[a].here => Doc(dur, a, k) = f[a][k].doc
        /\ f[a][k].sig.key \in Keys => f[a][k].sig.key = Policy[a]
        /\ Own(f[a]["closure"].doc) => Seen(a)
FilesInv ==
    /\ FileTrue(file) /\ FileTrue(fsync)
    /\ \A a \in Attempts, k \in Kinds :
          /\ file[a][k].doc = Foreign => fsync[a][k].doc = Foreign
          /\ file[a][k].sig.key = "foreign" => fsync[a][k].sig.key = "foreign"

\* What was acknowledged is in the surviving table.
WorksOn(a, k) == work.at = a /\ work.kind = k
SavedInv ==
    \A a \in Attempts : \A k \in saved[a] :
        /\ mem[a].ended /\ Doc(dur, a, k) = Doc(mem, a, k) /\ (Doc(mem, a, k) # 0 => dur[a].ended)
        /\ up /\ St(mem, a, k) \in {"published", "unavailable"} /\ ~(work.step = "mark" /\ WorksOn(a, k)) =>
              St(vis, a, k) = St(mem, a, k) /\ St(dur, a, k) = St(mem, a, k)

\* The watcher's step, and what it has found out and done.
Writing == work.step \in {"decide", "doc", "sig", "readback"}
WorkInv ==
    LET a == work.at  k == work.kind
    IN /\ ~up => work.step = "idle" /\ removing = {}
       /\ removing # {} => work.step \in {"idle", "observed"}
       /\ work.step # "idle" => a \in Attempts /\ mem[a].ended /\ a \notin removing
       /\ work.step = "observed" =>
             /\ k = "closure" /\ ClosureRequired(a) /\ work.why # "quiet"
             /\ ~(St(mem, a, k) \in {"published", "unavailable"} /\ k \in saved[a])
             /\ St(mem, a, k) # "corrupt" /\ (work.why = "ok" => Seen(a))
       /\ Writing =>
             /\ work.why # "quiet" /\ Doc(mem, a, k) # 0 /\ Doc(dur, a, k) = Doc(mem, a, k)
             /\ St(mem, a, k) # "corrupt"
       /\ work.step \in {"doc", "sig"} /\ Signed(a) /\ signer # Policy[a] =>
             file[a][k].doc = Doc(mem, a, k) /\ file[a][k].sig = Wanted(a, Doc(mem, a, k))
       /\ work.step = "sig" => Signed(a)
       /\ work.step \in {"sig", "readback"} => file[a][k].doc = Doc(mem, a, k) /\ fsync[a][k].doc = Doc(mem, a, k)
       /\ work.step = "readback" /\ Signed(a) => file[a][k].sig # NoSig /\ fsync[a][k].sig # NoSig
       /\ work.step = "mark" /\ work.why = "quiet" => St(mem, a, k) \in {"corrupt", "held"}

\* What a table says is published survives whole, or its record was removed; then no table
\* says of it anything but published or in conflict, so that it is not written again.
Whole(f, a, k) == Own(f[a][k].doc) /\ (Signed(a) => f[a][k].sig # NoSig)
Published(a, k) == "published" \in {St(mem, a, k), St(vis, a, k), St(dur, a, k)}
Settled(a, k) ==
    /\ mem[a].ended => St(mem, a, k) \in {"published", "corrupt"}
    /\ vis[a].ended => St(vis, a, k) \in {"published", "corrupt"}
    /\ dur[a].ended => St(dur, a, k) \in {"published", "corrupt"}
    /\ work.step \in {"doc", "sig", "readback"} => ~WorksOn(a, k)
SyncInv ==
    \A a \in Attempts, k \in Kinds : Published(a, k) =>
        /\ Own(file[a][k].doc) \/ Own(fsync[a][k].doc) => Whole(fsync, a, k)
        /\ Whole(file, a, k) \/ Settled(a, k)


(******************************** what the steps do *********************************)
LEMMA Constants1 ==
    /\ NoSig \in Sig /\ NoPair \in Pair /\ Admitted \in Entry /\ NoEntry \in Entry /\ NoWork \in WorkRec
    /\ NoSig.key = "none" /\ NoPair.doc = 0 /\ NoPair.sig = NoSig /\ NoWork.step = "idle"
    /\ NoEntry.here = FALSE /\ NoEntry.ended = FALSE /\ \A k \in Kinds : NoEntry.pub[k].doc = 0 /\ NoEntry.pub[k].state = "none"
    /\ Admitted.here = TRUE /\ Admitted.ended = FALSE /\ \A k \in Kinds : Admitted.pub[k].doc = 0 /\ Admitted.pub[k].state = "none"
<1>1. NoSig \in Sig /\ NoSig.key = "none"
  BY PublicationAssumption DEF NoSig, Sig
<1>2. NoPair \in Pair /\ NoPair.doc = 0 /\ NoPair.sig = NoSig
  BY <1>1, PublicationAssumption DEF NoPair, Pair, Foreign
<1>3. Admitted \in Entry /\ Admitted.here = TRUE /\ Admitted.ended = FALSE /\ \A k \in Kinds : Admitted.pub[k].doc = 0 /\ Admitted.pub[k].state = "none"
  BY PublicationAssumption DEF Admitted, Entry, Publications, States
<1>4. /\ NoEntry \in Entry /\ NoEntry.here = FALSE /\ NoEntry.ended = FALSE
      /\ \A k \in Kinds : NoEntry.pub[k].doc = 0 /\ NoEntry.pub[k].state = "none"
  <2>1. PICK e \in Entry : e = Admitted
    BY <1>3
  <2>2. PICK n : n = [e EXCEPT !.here = FALSE]
    OBVIOUS
  <2>3. n \in Entry /\ n.here = FALSE /\ n.ended = e.ended /\ n.pub = e.pub
    BY <2>2 DEF Entry
  <2> QED BY <1>3, <2>1, <2>2, <2>3 DEF NoEntry
<1>5. NoWork \in WorkRec /\ NoWork.step = "idle"
  BY DEF NoWork, WorkRec, Steps, Kinds
<1> QED BY <1>1, <1>2, <1>3, <1>4, <1>5

\* One publication's record changes.
PubMoved(a, k, p) ==
    /\ mem' \in [Attempts -> Entry]
    /\ \A b \in Attempts : mem'[b].here = mem[b].here /\ mem'[b].ended = mem[b].ended
    /\ \A b \in Attempts, j \in Kinds : mem'[b].pub[j] = IF b = a /\ j = k THEN p ELSE mem[b].pub[j]

LEMMA StateSets ==
    ASSUME PubTypes, NEW a \in Attempts, NEW k \in Kinds, NEW st \in States, SetState(a, k, st)
    PROVE  \E p \in Publications : p.state = st /\ p.doc = Doc(mem, a, k) /\ PubMoved(a, k, p)
<1>1. PICK e \in Entry : e = mem[a]
  BY DEF PubTypes
<1>2. PICK o \in Publications : o = e.pub[k]
  BY DEF Entry
<1>3. PICK p : p = [o EXCEPT !.state = st]
  OBVIOUS
<1>4. p \in Publications /\ p.state = st /\ p.doc = o.doc
  BY <1>3 DEF Publications
<1>5. PICK q : q = [e.pub EXCEPT ![k] = p]
  OBVIOUS
<1>6. q \in [Kinds -> Publications] /\ q[k] = p /\ \A j \in Kinds : j # k => q[j] = e.pub[j]
  BY <1>4, <1>5 DEF Entry
<1>7. PICK n : n = [e EXCEPT !.pub = q]
  OBVIOUS
<1>8. n \in Entry /\ n.here = e.here /\ n.ended = e.ended /\ n.pub = q
  BY <1>6, <1>7 DEF Entry
<1>9. mem' = [mem EXCEPT ![a] = n]
  BY <1>1, <1>2, <1>3, <1>5, <1>7 DEF SetState
<1>10. mem' \in [Attempts -> Entry] /\ mem'[a] = n /\ \A b \in Attempts : b # a => mem'[b] = mem[b]
  BY <1>8, <1>9 DEF PubTypes
<1>11. PubMoved(a, k, p)
  BY <1>1, <1>6, <1>8, <1>10 DEF PubMoved
<1> QED BY <1>1, <1>2, <1>4, <1>11 DEF Doc

\* An attempt ends with the record p of its result.
Ended(a, p) ==
    /\ mem' \in [Attempts -> Entry]
    /\ \A b \in Attempts : mem'[b].here = mem[b].here /\ mem'[b].ended = (b = a \/ mem[b].ended)
    /\ \A b \in Attempts, j \in Kinds : mem'[b].pub[j] = IF b = a /\ j = "result" THEN p ELSE mem[b].pub[j]

EndWrites(a, p) == mem' = [mem EXCEPT ![a].ended = TRUE, ![a].pub["result"] = p]
LEMMA EndSets ==
    ASSUME PubTypes, NEW a \in Attempts, NEW p \in Publications, EndWrites(a, p)
    PROVE  Ended(a, p)
<1>1. PICK e \in Entry : e = mem[a]
  BY DEF PubTypes
<1>2. "result" \in Kinds
  BY DEF Kinds
<1>3. PICK q : q = [e.pub EXCEPT !["result"] = p]
  OBVIOUS
<1>4. q \in [Kinds -> Publications] /\ q["result"] = p /\ \A j \in Kinds : j # "result" => q[j] = e.pub[j]
  BY <1>2, <1>3 DEF Entry
<1>5. PICK n : n = [e EXCEPT !.ended = TRUE, !.pub = q]
  OBVIOUS
<1>6. n \in Entry /\ n.here = e.here /\ n.ended = TRUE /\ n.pub = q
  BY <1>4, <1>5 DEF Entry
<1>7. mem' = [mem EXCEPT ![a] = n]
  BY <1>1, <1>3, <1>5 DEF EndWrites
<1>8. mem' \in [Attempts -> Entry] /\ mem'[a] = n /\ \A b \in Attempts : b # a => mem'[b] = mem[b]
  BY <1>6, <1>7 DEF PubTypes
<1>9. \A b \in Attempts : mem[b].ended \in BOOLEAN
  BY DEF PubTypes, Entry
<1> QED BY <1>1, <1>4, <1>6, <1>8, <1>9 DEF Ended

\* Missing evidence is held, or given up when its time has passed.
HoldWrites(a, st) == mem' = [mem EXCEPT ![a].timed = TRUE, ![a].pub["closure"].state = st]
LEMMA HoldSets ==
    ASSUME PubTypes, NEW a \in Attempts, NEW st \in States, HoldWrites(a, st)
    PROVE  \E p \in Publications : p.state = st /\ p.doc = Doc(mem, a, "closure") /\ PubMoved(a, "closure", p)
<1>1. PICK e \in Entry : e = mem[a]
  BY DEF PubTypes
<1>2. PICK o \in Publications : o = e.pub["closure"]
  BY DEF Entry, Kinds
<1>3. PICK p : p = [o EXCEPT !.state = st]
  OBVIOUS
<1>4. p \in Publications /\ p.state = st /\ p.doc = o.doc
  BY <1>3 DEF Publications
<1>5. PICK q : q = [e.pub EXCEPT !["closure"] = p]
  OBVIOUS
<1>6. q \in [Kinds -> Publications] /\ q["closure"] = p /\ \A j \in Kinds : j # "closure" => q[j] = e.pub[j]
  BY <1>4, <1>5 DEF Entry, Kinds
<1>7. PICK n : n = [e EXCEPT !.timed = TRUE, !.pub = q]
  OBVIOUS
<1>8. n \in Entry /\ n.here = e.here /\ n.ended = e.ended /\ n.pub = q
  BY <1>6, <1>7 DEF Entry
<1>9. mem' = [mem EXCEPT ![a] = n]
  BY <1>1, <1>2, <1>3, <1>5, <1>7 DEF HoldWrites
<1>10. mem' \in [Attempts -> Entry] /\ mem'[a] = n /\ \A b \in Attempts : b # a => mem'[b] = mem[b]
  BY <1>8, <1>9 DEF PubTypes
<1>11. PubMoved(a, "closure", p)
  BY <1>1, <1>6, <1>8, <1>10 DEF PubMoved
<1> QED BY <1>1, <1>2, <1>4, <1>11 DEF Doc

\* A closure's intent is frozen.
FreezeWrites(a, p) == mem' = [mem EXCEPT ![a].pub["closure"] = p]
LEMMA FreezeSets ==
    ASSUME PubTypes, NEW a \in Attempts, NEW p \in Publications, FreezeWrites(a, p)
    PROVE  PubMoved(a, "closure", p)
<1>1. PICK e \in Entry : e = mem[a]
  BY DEF PubTypes
<1>2. PICK q : q = [e.pub EXCEPT !["closure"] = p]
  OBVIOUS
<1>3. q \in [Kinds -> Publications] /\ q["closure"] = p /\ \A j \in Kinds : j # "closure" => q[j] = e.pub[j]
  BY <1>2 DEF Entry, Kinds
<1>4. PICK n : n = [e EXCEPT !.pub = q]
  OBVIOUS
<1>5. n \in Entry /\ n.here = e.here /\ n.ended = e.ended /\ n.pub = q
  BY <1>3, <1>4 DEF Entry
<1>6. mem' = [mem EXCEPT ![a] = n]
  BY <1>1, <1>2, <1>4 DEF FreezeWrites
<1>7. mem' \in [Attempts -> Entry] /\ mem'[a] = n /\ \A b \in Attempts : b # a => mem'[b] = mem[b]
  BY <1>5, <1>6 DEF PubTypes
<1> QED BY <1>1, <1>3, <1>5, <1>7 DEF PubMoved

\* What a save leaves of the three tables, and what an acknowledged one does.
Saves == (vis' = mem' /\ dur' = mem') \/ (vis' = mem' /\ dur' = dur) \/ (vis' = vis /\ dur' = dur)
LEMMA SaveSaves ==
    ASSUME NEW r, Save(mem', r) PROVE Saves /\ (r = "ok" => vis' = mem' /\ dur' = mem')
  BY DEF Save, Saves

\* What the world observed stays observed.
SeenStays == fact' \in [Attempts -> Facts] /\ \A a \in Attempts : Seen(a) => Seen(a)'

LEMMA FollowsAll ==
    ASSUME NEW s, NEW t, NEW u, Follows(s, t), Follows(t, u) PROVE Follows(s, u)
  BY DEF Follows

LEMMA TablesMove ==
    ASSUME TablesInv, EntryTrue(mem'), Follows(mem, mem'), Saves \/ UNCHANGED <<vis, dur>>, SeenStays,
           \A a \in Attempts : Doc(mem', a, "closure") # 0 => Seen(a)'
    PROVE  TablesInv' /\ Follows(dur, mem')
<1>1. Follows(vis, mem') /\ Follows(dur, mem')
  BY FollowsAll DEF TablesInv
<1>2. ASSUME NEW t, EntryTrue(t) PROVE \A a \in Attempts :
        /\ t[a].ended => t[a].here
        /\ \A k \in Kinds : (Doc(t, a, k) # 0 => t[a].ended) /\ (St(t, a, k) = "published" => Doc(t, a, k) # 0)
        /\ Doc(t, a, "result") # 0 => Policy[a] # "legacy"
        /\ Doc(t, a, "closure") # 0 => Seen(a)'
  BY <1>2 DEF EntryTrue, SeenStays
<1>3. EntryTrue(vis)' /\ EntryTrue(dur)' /\ EntryTrue(mem)'
  BY <1>2 DEF TablesInv, Saves, EntryTrue, Doc, St
<1>4. Follows(mem', mem')
  BY DEF Follows
<1>5. Follows(vis, mem)' /\ Follows(dur, vis)'
  BY <1>1, <1>4 DEF TablesInv, Saves, Follows, Doc
<1> QED BY <1>1, <1>3, <1>5 DEF TablesInv

LEMMA FilesKeep ==
    ASSUME TablesInv, FilesInv, UNCHANGED <<file, fsync>>, Follows(dur, mem'), dur' = dur \/ dur' = mem', SeenStays
    PROVE  FilesInv'
<1>1. ASSUME NEW f, FileTrue(f)
      PROVE  \A a \in Attempts, k \in Kinds :
               /\ Own(f[a][k].doc) /\ dur'[a].here => Doc(dur', a, k) = f[a][k].doc
               /\ f[a][k].sig.key \in Keys => f[a][k].sig.key = Policy[a]
               /\ Own(f[a]["closure"].doc) => Seen(a)'
  BY <1>1 DEF FileTrue, SeenStays, Follows, Own
<1>2. FileTrue(file)' /\ FileTrue(fsync)'
  BY <1>1 DEF FilesInv, FileTrue
<1> QED BY <1>2 DEF FilesInv

PInv == PubTypes /\ TablesInv /\ FilesInv /\ SavedInv /\ WorkInv /\ SyncInv

LEMMA TablesStay == ASSUME TablesInv, UNCHANGED <<mem, vis, dur>>, SeenStays PROVE TablesInv' /\ Follows(dur, mem')
<1>1. EntryTrue(mem') /\ \A a \in Attempts : Doc(mem', a, "closure") # 0 => Seen(a)'
  BY DEF TablesInv, EntryTrue, SeenStays
<1>2. Follows(mem, mem')
  BY DEF Follows
<1> QED BY <1>1, <1>2, TablesMove

LEMMA FactsStay == ASSUME PubTypes, UNCHANGED fact PROVE SeenStays
  BY DEF PubTypes, SeenStays, Seen

LEMMA StepDepart == ASSUME PInv, NEW a \in Attempts, Depart(a) PROVE PInv'
<1> USE DEF PInv
<1>1. UNCHANGED <<up, mem, vis, dur, saved, file, fsync, signer, docs, work, removing>>
  BY DEF Depart
<1>2. SeenStays
  <2>1. PICK d \in Facts : d = fact[a]
    BY DEF PubTypes
  <2>2. PICK e : e = [d EXCEPT !.gone = TRUE]
    OBVIOUS
  <2>3. e \in Facts /\ e.ack = d.ack /\ e.gone
    BY <2>2 DEF Facts
  <2>4. fact' = [fact EXCEPT ![a] = e]
    BY <2>1, <2>2 DEF Depart
  <2> QED BY <2>1, <2>3, <2>4 DEF SeenStays, Seen, PubTypes
<1>3. TablesInv' /\ FilesInv'
  BY <1>1, <1>2, TablesStay, FilesKeep
<1>4. PubTypes'
  BY <1>1, <1>2 DEF PubTypes, SeenStays
<1>5. SavedInv'
  BY <1>1 DEF SavedInv, WorksOn, Doc, St
<1>6. WorkInv'
  BY <1>1, <1>2 DEF WorkInv, SeenStays, Writing, Doc, St
<1>7. SyncInv'
  BY <1>1 DEF SyncInv, Published, Settled, Whole, WorksOn, Doc, St
<1> QED BY <1>3, <1>4, <1>5, <1>6, <1>7

LEMMA StepRestart == ASSUME PInv, Restart PROVE PInv'
<1> USE DEF PInv
<1>1. /\ UNCHANGED <<vis, dur, file, fsync, fact, docs, work, removing>> /\ mem' = vis /\ up' = TRUE
      /\ saved' = [a \in Attempts |-> {}] /\ signer' \in Keys \cup {"none"} /\ ~up
  BY DEF Restart
<1>2. SeenStays /\ work.step = "idle" /\ removing = {}
  BY <1>1, FactsStay DEF WorkInv
<1>3. PubTypes'
  BY <1>1 DEF PubTypes
<1>4. TablesInv'
  <2>1. Follows(vis, vis)
    BY DEF Follows
  <2>2. EntryTrue(vis)' /\ EntryTrue(dur)' /\ EntryTrue(mem)'
    BY <1>1 DEF TablesInv, EntryTrue, Seen
  <2>3. Follows(vis, mem)' /\ Follows(dur, vis)'
    BY <1>1, <2>1 DEF TablesInv
  <2> QED BY <2>2, <2>3 DEF TablesInv
<1>5. FilesInv'
  BY <1>1 DEF FilesInv, FileTrue, Seen
<1>6. SavedInv'
  BY <1>1 DEF SavedInv
<1>7. WorkInv'
  BY <1>1, <1>2 DEF WorkInv, Writing
<1>8. SyncInv'
  BY <1>1, <1>2 DEF SyncInv, Published, Settled, Whole, WorksOn
<1> QED BY <1>3, <1>4, <1>5, <1>6, <1>7, <1>8

LEMMA StepCrash == ASSUME PInv, Crash PROVE PInv'
<1> USE DEF PInv
<1>1. /\ UNCHANGED <<mem, dur, saved, fsync, signer, fact, docs>> /\ work' = NoWork /\ removing' = {} /\ up' = FALSE
      /\ (UNCHANGED <<vis, file>> \/ (vis' = dur /\ file' = fsync))
  BY DEF Crash
<1>2. SeenStays
  BY <1>1, FactsStay
<1>3. PubTypes'
  BY <1>1, Constants1 DEF PubTypes
<1>4. TablesInv'
  <2>1. Follows(dur, dur) /\ Follows(dur, mem)
    BY FollowsAll DEF Follows, TablesInv
  <2>2. EntryTrue(vis)' /\ EntryTrue(dur)' /\ EntryTrue(mem)'
    BY <1>1 DEF TablesInv, EntryTrue, Seen
  <2>3. Follows(vis, mem)' /\ Follows(dur, vis)'
    BY <1>1, <2>1 DEF TablesInv
  <2> QED BY <2>2, <2>3 DEF TablesInv
<1>5. FilesInv'
  <2>1. FileTrue(file)' /\ FileTrue(fsync)'
    BY <1>1 DEF FilesInv, FileTrue, Seen
  <2> QED BY <1>1, <2>1 DEF FilesInv
<1>6. SavedInv'
  BY <1>1 DEF SavedInv
<1>7. WorkInv'
  BY <1>1, Constants1 DEF WorkInv, Writing
<1>8. SyncInv'
  <2> SUFFICES ASSUME NEW a \in Attempts, NEW k \in Kinds, Published(a, k)'
               PROVE  /\ Own(file'[a][k].doc) \/ Own(fsync'[a][k].doc) => Whole(fsync, a, k)'
                      /\ Whole(file, a, k)' \/ Settled(a, k)'
    BY DEF SyncInv
  <2>1. Published(a, k)
    BY <1>1 DEF Published
  <2>2. (Own(file[a][k].doc) \/ Own(fsync[a][k].doc) => Whole(fsync, a, k)) /\ (Whole(file, a, k) \/ Settled(a, k))
    BY <2>1 DEF SyncInv
  <2>3. Whole(fsync, a, k)' <=> Whole(fsync, a, k)
    BY <1>1 DEF Whole
  <2>4. Settled(a, k) => Settled(a, k)'
    BY <1>1, Constants1 DEF Settled
  <2>5. CASE UNCHANGED <<vis, file>>
    BY <1>1, <2>2, <2>3, <2>4, <2>5 DEF Whole
  <2>6. CASE vis' = dur /\ file' = fsync
    BY <1>1, <2>2, <2>3, <2>4, <2>6 DEF Whole
  <2> QED BY <1>1, <2>5, <2>6
<1> QED BY <1>3, <1>4, <1>5, <1>6, <1>7, <1>8

\* One pair of files becomes p.
PairMoved(f, g, a, k, p) ==
    /\ g \in Pairs /\ g[a][k] = p
    /\ \A b \in Attempts, j \in Kinds : b # a \/ j # k => g[b][j] = f[b][j]
LEMMA PairMoves ==
    ASSUME NEW f \in Pairs, NEW a \in Attempts, NEW k \in Kinds, NEW p \in Pair
    PROVE  PairMoved(f, [f EXCEPT ![a][k] = p], a, k, p)
<1>1. PICK h : h = [f[a] EXCEPT ![k] = p]
  OBVIOUS
<1>2. h \in [Kinds -> Pair] /\ h[k] = p /\ \A j \in Kinds : j # k => h[j] = f[a][j]
  BY <1>1 DEF Pairs
<1>3. PICK g : g = [f EXCEPT ![a] = h]
  OBVIOUS
<1>4. g \in Pairs /\ g[a] = h /\ \A b \in Attempts : b # a => g[b] = f[b]
  BY <1>2, <1>3 DEF Pairs
<1>5. g = [f EXCEPT ![a][k] = p]
  BY <1>1, <1>3
<1> QED BY <1>2, <1>4, <1>5 DEF PairMoved

LEMMA KeysDiffer ==
    /\ "foreign" \notin Keys /\ "none" \notin Keys /\ Foreign # 0
    /\ \A a \in Attempts, n \in 0 .. MaxDocs :
          /\ Wanted(a, n) \in Sig /\ Wanted(a, n).key # "foreign" /\ (Wanted(a, n).key \in Keys => Wanted(a, n).key = Policy[a])
          /\ Signed(a) => Wanted(a, n) # NoSig
<1>1. "foreign" \notin Keys /\ "none" \notin Keys /\ Foreign # 0
  BY PublicationAssumption DEF Foreign
<1>2. ASSUME NEW a \in Attempts, NEW n \in 0 .. MaxDocs
      PROVE  /\ Wanted(a, n) \in Sig /\ Wanted(a, n).key # "foreign" /\ (Wanted(a, n).key \in Keys => Wanted(a, n).key = Policy[a])
             /\ Signed(a) => Wanted(a, n) # NoSig
  <2>1. CASE Signed(a)
    <3>1. PICK s : s = [key |-> Policy[a], doc |-> n]
      OBVIOUS
    <3>2. s \in Sig /\ s.key = Policy[a] /\ Policy[a] \in Keys
      BY <2>1, <3>1 DEF Sig, Signed
    <3>3. Wanted(a, n) = s
      BY <2>1, <3>1 DEF Wanted
    <3> QED BY <1>1, <3>2, <3>3, Constants1
  <2>2. CASE ~Signed(a)
    BY <1>1, <2>2, Constants1 DEF Wanted
  <2> QED BY <2>1, <2>2
<1> QED BY <1>1, <1>2

\* A foreign file appears, under a free name, and is synced with what is there.
LEMMA TamperMoves ==
    ASSUME PubTypes, NEW a \in Attempts, NEW k \in Kinds, Tamper(a, k)
    PROVE  \E p \in Pair :
             /\ PairMoved(file, file', a, k, p) /\ PairMoved(fsync, fsync', a, k, p)
             /\ \/ p.doc = Foreign /\ p.sig = file[a][k].sig /\ file[a][k].doc = 0
                \/ p.doc = file[a][k].doc /\ p.sig.key = "foreign" /\ file[a][k].sig = NoSig
<1>1. PICK d \in Pair : d = file[a][k]
  BY DEF PubTypes, Pairs
<1>2. PICK x : x = [d EXCEPT !.doc = Foreign]
  OBVIOUS
<1>3. PICK s : s = [key |-> "foreign", doc |-> 0]
  OBVIOUS
<1>4. s \in Sig /\ s.key = "foreign"
  BY <1>3, PublicationAssumption DEF Sig
<1>5. PICK y : y = [d EXCEPT !.sig = s]
  OBVIOUS
<1>6. x \in Pair /\ x.doc = Foreign /\ x.sig = d.sig
  BY <1>2, PublicationAssumption DEF Pair, Foreign
<1>7. y \in Pair /\ y.doc = d.doc /\ y.sig = s
  BY <1>4, <1>5 DEF Pair
<1>8. CASE file[a][k].doc = 0 /\ file' = [file EXCEPT ![a][k].doc = Foreign]
  <2>1. file' = [file EXCEPT ![a][k] = x]
    BY <1>1, <1>2, <1>8
  <2>2. PairMoved(file, file', a, k, x)
    BY <1>6, <2>1, PairMoves DEF PubTypes
  <2>3. file'[a][k] = x
    BY <2>2 DEF PairMoved
  <2>4. fsync' = [fsync EXCEPT ![a][k] = x]
    BY <2>3 DEF Tamper
  <2>5. PairMoved(fsync, fsync', a, k, x)
    BY <1>6, <2>4, PairMoves DEF PubTypes
  <2> QED BY <1>1, <1>6, <1>8, <2>2, <2>5
<1>9. CASE file[a][k].sig = NoSig /\ file' = [file EXCEPT ![a][k].sig = [key |-> "foreign", doc |-> 0]]
  <2>1. file' = [file EXCEPT ![a][k] = y]
    BY <1>1, <1>3, <1>5, <1>9
  <2>2. PairMoved(file, file', a, k, y)
    BY <1>7, <2>1, PairMoves DEF PubTypes
  <2>3. file'[a][k] = y
    BY <2>2 DEF PairMoved
  <2>4. fsync' = [fsync EXCEPT ![a][k] = y]
    BY <2>3 DEF Tamper
  <2>5. PairMoved(fsync, fsync', a, k, y)
    BY <1>7, <2>4, PairMoves DEF PubTypes
  <2> QED BY <1>1, <1>4, <1>7, <1>9, <2>2, <2>5
<1> QED BY <1>8, <1>9 DEF Tamper

LEMMA StepTamper == ASSUME PInv, NEW a \in Attempts, NEW k \in Kinds, Tamper(a, k) PROVE PInv'
<1> USE DEF PInv
<1>1. UNCHANGED <<up, mem, vis, dur, saved, signer, fact, docs, work, removing>>
  BY DEF Tamper
<1>2. PICK p \in Pair :
             /\ PairMoved(file, file', a, k, p) /\ PairMoved(fsync, fsync', a, k, p)
             /\ \/ p.doc = Foreign /\ p.sig = file[a][k].sig /\ file[a][k].doc = 0
                \/ p.doc = file[a][k].doc /\ p.sig.key = "foreign" /\ file[a][k].sig = NoSig
  BY TamperMoves
<1>3. /\ file' \in Pairs /\ fsync' \in Pairs /\ file'[a][k] = p /\ fsync'[a][k] = p
      /\ \A b \in Attempts, j \in Kinds : b # a \/ j # k => file'[b][j] = file[b][j] /\ fsync'[b][j] = fsync[b][j]
  BY <1>2 DEF PairMoved
<1>4. PubTypes'
  BY <1>1, <1>3 DEF PubTypes
<1>5. SeenStays /\ TablesInv'
  BY <1>1, FactsStay, TablesStay
<1>6. Own(p.doc) => p.doc = file[a][k].doc
  BY <1>2 DEF Own
<1>7. FilesInv'
  <2>1. FileTrue(file)' /\ FileTrue(fsync)'
    <3>1. ASSUME NEW b \in Attempts, NEW j \in Kinds, NEW f, f = file' \/ f = fsync'
          PROVE  /\ Own(f[b][j].doc) /\ dur[b].here => Doc(dur, b, j) = f[b][j].doc
                 /\ f[b][j].sig.key \in Keys => f[b][j].sig.key = Policy[b]
                 /\ Own(f[b][j].doc) /\ j = "closure" => Seen(b)
      <4>1. CASE b = a /\ j = k
        BY <1>2, <1>3, <1>6, <3>1, <4>1, KeysDiffer DEF FilesInv, FileTrue
      <4>2. CASE b # a \/ j # k
        BY <1>3, <3>1, <4>2 DEF FilesInv, FileTrue
      <4> QED BY <4>1, <4>2
    <3>2. "closure" \in Kinds
      BY DEF Kinds
    <3> QED BY <1>1, <3>1, <3>2 DEF FileTrue, Doc, Seen
  <2> QED BY <1>3, <2>1 DEF FilesInv
<1>8. SavedInv'
  BY <1>1 DEF SavedInv, WorksOn, Doc, St
<1>9. WorkInv'
  <2>1. \A b \in Attempts, j \in Kinds : Doc(mem, b, j) \in 0 .. MaxDocs /\ Doc(mem, b, j) # Foreign
    BY PublicationAssumption DEF PubTypes, Entry, Publications, Doc, Foreign
  <2>2. work.kind \in Kinds /\ (work.step # "idle" => work.at \in Attempts)
    BY DEF PubTypes, WorkRec
  <2>3. CASE work.step \in {"idle", "observed", "mark", "decide"}
    BY <1>1, <2>3 DEF WorkInv, Writing, Doc, St, Seen
  <2>4. CASE work.step \in {"doc", "sig", "readback"} /\ ~WorksOn(a, k)
    BY <1>1, <1>3, <2>2, <2>4 DEF WorkInv, Writing, Doc, St, WorksOn
  <2>5. CASE work.step \in {"doc", "sig", "readback"} /\ WorksOn(a, k)
    <3>1. Doc(mem, a, k) # 0 /\ (Signed(a) => Wanted(a, Doc(mem, a, k)) # NoSig)
      BY <2>1, <2>5, KeysDiffer DEF WorkInv, Writing, WorksOn
    <3>2. work.step \in {"sig", "readback"} => p.doc = Doc(mem, a, k)
      BY <1>2, <2>5, <3>1 DEF WorkInv, WorksOn
    <3>3. ~(work.step \in {"doc", "sig"} /\ Signed(a) /\ signer # Policy[a])
      BY <1>2, <2>5, <3>1 DEF WorkInv, WorksOn
    <3>4. work.step = "readback" /\ Signed(a) => p.sig # NoSig
      BY <1>2, <2>5, Constants1 DEF WorkInv, WorksOn
    <3> QED BY <1>1, <1>3, <2>5, <3>2, <3>3, <3>4 DEF WorkInv, Writing, Doc, St, WorksOn
  <2> QED BY <2>3, <2>4, <2>5 DEF PubTypes, WorkRec, Steps
<1>10. SyncInv'
  <2> SUFFICES ASSUME NEW b \in Attempts, NEW j \in Kinds, Published(b, j)'
               PROVE  /\ Own(file'[b][j].doc) \/ Own(fsync'[b][j].doc) => Whole(fsync, b, j)'
                      /\ Whole(file, b, j)' \/ Settled(b, j)'
    BY DEF SyncInv
  <2>1. Published(b, j)
    BY <1>1 DEF Published, St
  <2>2. (Own(file[b][j].doc) \/ Own(fsync[b][j].doc) => Whole(fsync, b, j)) /\ (Whole(file, b, j) \/ Settled(b, j))
    BY <2>1 DEF SyncInv
  <2>3. Settled(b, j)' <=> Settled(b, j)
    BY <1>1 DEF Settled, St, WorksOn
  <2>4. CASE b # a \/ j # k
    BY <1>3, <2>2, <2>3, <2>4 DEF Whole
  <2>5. CASE b = a /\ j = k
    <3>1. p.doc = file[a][k].doc /\ p.sig.key = "foreign" => p.sig # NoSig
      BY Constants1
    <3> QED BY <1>2, <1>3, <1>6, <2>2, <2>3, <2>5, <3>1, KeysDiffer DEF Whole, Own
  <2> QED BY <2>4, <2>5
<1> QED BY <1>4, <1>5, <1>7, <1>8, <1>9, <1>10

\* The invariants of one publication.
SyncAt(a, k) ==
    Published(a, k) =>
        /\ Own(file[a][k].doc) \/ Own(fsync[a][k].doc) => Whole(fsync, a, k)
        /\ Whole(file, a, k) \/ Settled(a, k)
SavedAt(a, k) ==
    k \in saved[a] =>
        /\ mem[a].ended /\ Doc(dur, a, k) = Doc(mem, a, k) /\ (Doc(mem, a, k) # 0 => dur[a].ended)
        /\ up /\ St(mem, a, k) \in {"published", "unavailable"} /\ ~(work.step = "mark" /\ WorksOn(a, k)) =>
              St(vis, a, k) = St(mem, a, k) /\ St(dur, a, k) = St(mem, a, k)
LEMMA AtEach ==
    ASSUME PubTypes
    PROVE  (SyncInv <=> \A a \in Attempts, k \in Kinds : SyncAt(a, k)) /\ (SavedInv <=> \A a \in Attempts, k \in Kinds : SavedAt(a, k))
  BY DEF SyncInv, SyncAt, SavedInv, SavedAt, PubTypes
LEMMA AtEachNext ==
    ASSUME PubTypes', \A a \in Attempts, k \in Kinds : SyncAt(a, k)' /\ SavedAt(a, k)'
    PROVE  SyncInv' /\ SavedInv'
  BY DEF SyncInv, SyncAt, SavedInv, SavedAt, PubTypes

\* A publication the step is not about.
LEMMA SyncElsewhere ==
    ASSUME PInv, NEW b \in Attempts, NEW j \in Kinds, mem'[b].pub[j] = mem[b].pub[j], mem'[b].ended = mem[b].ended,
           UNCHANGED <<file, fsync>>, Saves \/ UNCHANGED <<vis, dur>>,
           work'.step \in {"doc", "sig", "readback"} /\ WorksOn(b, j)' => work.step \in {"doc", "sig", "readback"} /\ WorksOn(b, j)
    PROVE  SyncAt(b, j)'
<1>1. SyncAt(b, j)
  BY AtEach DEF PInv
<1>2. Published(b, j)' => Published(b, j)
  BY DEF Published, St, Saves
<1>3. Settled(b, j) => Settled(b, j)'
  BY DEF Settled, St, Saves
<1>4. (Whole(fsync, b, j)' <=> Whole(fsync, b, j)) /\ (Whole(file, b, j)' <=> Whole(file, b, j))
  BY DEF Whole
<1> QED BY <1>1, <1>2, <1>3, <1>4 DEF SyncAt

LEMMA SavedElsewhere ==
    ASSUME PInv, NEW b \in Attempts, NEW j \in Kinds, mem'[b].pub[j] = mem[b].pub[j], mem'[b].ended = mem[b].ended,
           Saves \/ UNCHANGED <<vis, dur>>, up,
           j \in saved'[b] => j \in saved[b] \/ (vis' = mem' /\ dur' = mem' /\ mem'[b].ended),
           work.step = "mark" /\ WorksOn(b, j) => ((work'.step = "mark" /\ WorksOn(b, j)') \/ (vis' = mem' /\ dur' = mem'))
    PROVE  SavedAt(b, j)'
<1>1. SavedAt(b, j)
  BY AtEach DEF PInv
<1>2. CASE vis' = mem' /\ dur' = mem'
  BY <1>1, <1>2 DEF SavedAt, Doc, St
<1>3. CASE ~(vis' = mem' /\ dur' = mem')
  BY <1>1, <1>3 DEF SavedAt, Doc, St, Saves, WorksOn
<1> QED BY <1>2, <1>3

\* An attempt without an end has no intent in any table.
LEMMA NotEnded ==
    ASSUME PInv, NEW a \in Attempts, mem[a].here, ~mem[a].ended
    PROVE  \A k \in Kinds : Doc(mem, a, k) = 0 /\ Doc(vis, a, k) = 0 /\ Doc(dur, a, k) = 0 /\ ~Published(a, k) /\ k \notin saved[a]
<1>1. \A k \in Kinds : Doc(mem, a, k) = 0 /\ Doc(vis, a, k) = 0 /\ Doc(dur, a, k) = 0
  BY DEF PInv, TablesInv, EntryTrue, Follows
<1>2. \A k \in Kinds : ~Published(a, k)
  BY <1>1 DEF PInv, TablesInv, EntryTrue, Published
<1>3. \A k \in Kinds : k \notin saved[a]
  BY DEF PInv, SavedInv
<1> QED BY <1>1, <1>2, <1>3

LEMMA EndMoves ==
    ASSUME PubTypes, NEW a \in Attempts, End(a)
    PROVE  \E p \in Publications, r \in {"ok", "lost", "late"} :
             /\ Ended(a, p) /\ p.state \in {"unknown", "pending", "corrupt"} /\ (p.doc # 0 => Policy[a] # "legacy")
             /\ Save(mem', r) /\ saved' = [saved EXCEPT ![a] = IF r = "ok" THEN @ \cup {"result"} ELSE @]
             /\ SeenStays /\ docs' \in [Attempts -> [Kinds -> 0 .. MaxDocs]]
<1>1. PICK r \in Outcomes, ack \in {"yes", "no", "corrupt"}, frozen \in BOOLEAN :
        LET n == docs[a]["result"] + 1
            p == IF Policy[a] = "legacy" THEN [state |-> "unknown", doc |-> 0]
                 ELSE IF frozen THEN [state |-> "pending", doc |-> n]
                 ELSE [state |-> "corrupt", doc |-> 0]
        IN
        /\ p.doc <= MaxDocs
        /\ mem' = [mem EXCEPT ![a].ended = TRUE, ![a].pub["result"] = p]
        /\ docs' = [docs EXCEPT ![a]["result"] = IF p.doc = 0 THEN @ ELSE n]
        /\ fact' = [fact EXCEPT ![a].ack = IF @ = "no" THEN ack ELSE @]
        /\ Save(mem', r)
        /\ saved' = [saved EXCEPT ![a] = IF r = "ok" THEN @ \cup {"result"} ELSE @]
  BY DEF End
<1>2. r \in {"ok", "lost", "late"}
  BY DEF Outcomes
<1>3. PICK n : n = docs[a]["result"] + 1
  OBVIOUS
<1>4. n \in Nat /\ n # 0 /\ docs[a]["result"] \in 0 .. MaxDocs
  BY <1>3, PublicationAssumption DEF PubTypes, Kinds
<1>5. PICK p : p = IF Policy[a] = "legacy" THEN [state |-> "unknown", doc |-> 0]
                   ELSE IF frozen THEN [state |-> "pending", doc |-> n] ELSE [state |-> "corrupt", doc |-> 0]
  OBVIOUS
<1>6. /\ p.doc <= MaxDocs /\ EndWrites(a, p)
      /\ docs' = [docs EXCEPT ![a]["result"] = IF p.doc = 0 THEN docs[a]["result"] ELSE n]
      /\ fact' = [fact EXCEPT ![a].ack = IF fact[a].ack = "no" THEN ack ELSE fact[a].ack]
      /\ Save(mem', r) /\ saved' = [saved EXCEPT ![a] = IF r = "ok" THEN @ \cup {"result"} ELSE @]
  BY <1>1, <1>3, <1>5 DEF EndWrites
<1>7. p \in Publications /\ p.state \in {"unknown", "pending", "corrupt"} /\ p.doc \in {0, n} /\ (p.doc # 0 => Policy[a] # "legacy")
  BY <1>4, <1>5, <1>6, PublicationAssumption DEF Publications, States
<1>8. Ended(a, p)
  BY <1>6, <1>7, EndSets
<1>9. SeenStays
  <2>1. PICK d \in Facts : d = fact[a]
    BY DEF PubTypes
  <2>2. PICK x \in {"yes", "no", "corrupt"} : x = (IF d.ack = "no" THEN ack ELSE d.ack)
    BY DEF Facts
  <2>3. PICK e : e = [d EXCEPT !.ack = x]
    OBVIOUS
  <2>4. e \in Facts /\ e.ack = x /\ e.gone = d.gone
    BY <2>3 DEF Facts
  <2>5. fact' = [fact EXCEPT ![a] = e]
    BY <1>6, <2>1, <2>2, <2>3
  <2>6. d.ack = "yes" => x = "yes"
    BY <2>2
  <2> QED BY <2>1, <2>4, <2>5, <2>6 DEF SeenStays, Seen, PubTypes
<1>10. docs' \in [Attempts -> [Kinds -> 0 .. MaxDocs]]
  <2>1. PICK m \in 0 .. MaxDocs : m = (IF p.doc = 0 THEN docs[a]["result"] ELSE n)
    BY <1>4, <1>6, <1>7, PublicationAssumption
  <2>2. docs' = [docs EXCEPT ![a]["result"] = m]
    BY <1>6, <2>1
  <2> QED BY <2>2 DEF PubTypes
<1> QED BY <1>2, <1>6, <1>7, <1>8, <1>9, <1>10

LEMMA StepEnd == ASSUME PInv, NEW a \in Attempts, End(a) PROVE PInv'
<1>1. PICK p \in Publications, r \in {"ok", "lost", "late"} :
             /\ Ended(a, p) /\ p.state \in {"unknown", "pending", "corrupt"} /\ (p.doc # 0 => Policy[a] # "legacy")
             /\ Save(mem', r) /\ saved' = [saved EXCEPT ![a] = IF r = "ok" THEN @ \cup {"result"} ELSE @]
             /\ SeenStays /\ docs' \in [Attempts -> [Kinds -> 0 .. MaxDocs]]
  BY EndMoves DEF PInv
<1>2. UNCHANGED <<up, file, fsync, signer, work, removing>> /\ up /\ work.step = "idle" /\ mem[a].here /\ ~mem[a].ended
  BY DEF End
<1>3. Saves /\ (r = "ok" => vis' = mem' /\ dur' = mem')
  BY <1>1, SaveSaves
<1>4. /\ mem' \in [Attempts -> Entry] /\ (\A b \in Attempts : mem'[b].here = mem[b].here /\ mem'[b].ended = (b = a \/ mem[b].ended))
      /\ \A b \in Attempts, j \in Kinds : mem'[b].pub[j] = IF b = a /\ j = "result" THEN p ELSE mem[b].pub[j]
  BY <1>1 DEF Ended
<1>5. \A k \in Kinds : Doc(mem, a, k) = 0 /\ Doc(vis, a, k) = 0 /\ Doc(dur, a, k) = 0 /\ ~Published(a, k) /\ k \notin saved[a]
  BY <1>2, NotEnded
<1>6. PubTypes'
  BY <1>1, <1>2, <1>3, <1>4 DEF PInv, PubTypes, Saves, SeenStays, Kinds
<1>7. "closure" \in Kinds /\ "result" \in Kinds
  BY DEF Kinds
<1>8. EntryTrue(mem') /\ Follows(mem, mem') /\ \A b \in Attempts : Doc(mem', b, "closure") # 0 => Seen(b)'
  <2>1. \A b \in Attempts, j \in Kinds : Doc(mem', b, j) = (IF b = a /\ j = "result" THEN p.doc ELSE Doc(mem, b, j))
                                       /\ St(mem', b, j) = (IF b = a /\ j = "result" THEN p.state ELSE St(mem, b, j))
    BY <1>4 DEF Doc, St
  <2>2. EntryTrue(mem')
    <3> SUFFICES ASSUME NEW b \in Attempts
                 PROVE  /\ mem'[b].ended => mem'[b].here
                        /\ \A k \in Kinds : (Doc(mem', b, k) # 0 => mem'[b].ended) /\ (St(mem', b, k) = "published" => Doc(mem', b, k) # 0)
                        /\ Doc(mem', b, "result") # 0 => Policy[b] # "legacy"
                        /\ Doc(mem', b, "closure") # 0 => Seen(b)
      BY DEF EntryTrue
    <3>1. /\ mem[b].ended => mem[b].here
          /\ \A k \in Kinds : (Doc(mem, b, k) # 0 => mem[b].ended) /\ (St(mem, b, k) = "published" => Doc(mem, b, k) # 0)
          /\ Doc(mem, b, "result") # 0 => Policy[b] # "legacy"
          /\ Doc(mem, b, "closure") # 0 => Seen(b)
      BY DEF PInv, TablesInv, EntryTrue
    <3>2. CASE b = a
      <4>1. mem'[b].here /\ mem'[b].ended
        BY <1>2, <1>4, <3>2
      <4>2. Doc(mem', b, "result") = p.doc /\ St(mem', b, "result") = p.state /\ Doc(mem', b, "closure") = 0 /\ St(mem', b, "closure") = St(mem, b, "closure")
        BY <1>5, <1>7, <2>1, <3>2
      <4> QED BY <1>1, <1>5, <1>7, <3>1, <3>2, <4>1, <4>2 DEF Kinds
    <3>3. CASE b # a
      <4>1. (mem'[b].ended <=> mem[b].ended) /\ (mem'[b].here <=> mem[b].here)
        BY <1>4, <3>3
      <4>2. \A k \in Kinds : Doc(mem', b, k) = Doc(mem, b, k) /\ St(mem', b, k) = St(mem, b, k)
        BY <2>1, <3>3
      <4> QED BY <1>7, <3>1, <4>1, <4>2
    <3> QED BY <3>2, <3>3
  <2>3. Follows(mem, mem')
    BY <1>4, <1>5, <2>1 DEF Follows
  <2> QED BY <1>1, <1>7, <2>1, <2>2, <2>3 DEF PInv, TablesInv, EntryTrue, SeenStays
<1>9. TablesInv' /\ Follows(dur, mem')
  BY <1>1, <1>3, <1>8, TablesMove DEF PInv
<1>10. FilesInv'
  BY <1>1, <1>2, <1>3, <1>9, FilesKeep DEF PInv, Saves
<1>11. WorkInv'
  BY <1>2 DEF PInv, WorkInv, Writing
<1>12. ASSUME NEW b \in Attempts, NEW j \in Kinds PROVE SyncAt(b, j)' /\ SavedAt(b, j)'
  <2>1. CASE b # a
    <3>1. mem'[b].pub[j] = mem[b].pub[j] /\ mem'[b].ended = mem[b].ended
      <4>1. mem[b].ended \in BOOLEAN
        BY DEF PInv, PubTypes, Entry
      <4>2. mem'[b].ended = mem[b].ended
        BY <1>4, <2>1, <4>1
      <4> QED BY <1>4, <2>1, <4>2
    <3>2. saved'[b] = saved[b]
      BY <1>1, <2>1 DEF PInv, PubTypes
    <3> QED BY <1>2, <1>3, <3>1, <3>2, SyncElsewhere, SavedElsewhere DEF WorksOn
  <2>2. CASE b = a
    <3>1. ~Published(b, j)'
      <4>1. St(mem, a, j) # "published" /\ St(vis, a, j) # "published" /\ St(dur, a, j) # "published"
        BY <1>5 DEF Published
      <4>2. St(mem', a, j) # "published"
        BY <1>1, <1>4, <4>1 DEF St
      <4> QED BY <1>3, <2>2, <4>1, <4>2 DEF Published, Saves, St
    <3>2. SavedAt(b, j)'
      <4>1. j \in saved'[a] => r = "ok"
        BY <1>1, <1>5 DEF PInv, PubTypes
      <4> QED BY <1>3, <1>4, <2>2, <4>1 DEF SavedAt, Doc, St
    <3> QED BY <3>1, <3>2 DEF SyncAt
  <2> QED BY <2>1, <2>2
<1> QED BY <1>6, <1>9, <1>10, <1>11, <1>12, AtEachNext DEF PInv

\* What disposes of a record: both publications are resolved in every table.
LEMMA Disposes ==
    ASSUME PInv, NEW a \in Attempts, Disposable(a), up, LockFree
    PROVE  /\ mem[a].ended /\ St(mem, a, "result") = "published" /\ St(vis, a, "result") = "published" /\ St(dur, a, "result") = "published"
           /\ St(mem, a, "closure") \in {"published", "unavailable"} /\ "closure" \in saved[a] /\ ClosureRequired(a)
           /\ St(vis, a, "closure") = St(mem, a, "closure") /\ St(dur, a, "closure") = St(mem, a, "closure")
<1>1. "closure" \in Kinds /\ "result" \in Kinds
  BY DEF Kinds
<1>2. mem[a].ended /\ Read(a, "result") = "ok"
  BY DEF Disposable
<1>3. Doc(mem, a, "result") # 0
  BY <1>2 DEF Read, Pub, Doc
<1>4. "result" \in saved[a] /\ St(mem, a, "result") = "published" /\ ClosureRequired(a)
  BY <1>1, <1>3 DEF Disposable, Pub, Doc, St, ClosureRequired, PInv, TablesInv, EntryTrue
<1>5. "closure" \in saved[a] /\ St(mem, a, "closure") \in {"published", "unavailable"}
  <2>1. CASE Pub(a, "closure").state = "unavailable" /\ "closure" \in saved[a]
    BY <2>1 DEF Pub, St
  <2>2. CASE Read(a, "closure") = "ok"
    <3>1. "closure" \in saved[a] /\ Pub(a, "closure").state = "published"
      BY <2>2 DEF Read
    <3> QED BY <3>1 DEF Pub, St
  <2> QED BY <1>4, <2>1, <2>2 DEF Disposable
<1>6. work.step # "mark"
  BY DEF LockFree
<1> QED BY <1>1, <1>2, <1>4, <1>5, <1>6 DEF PInv, SavedInv

LEMMA StepRemoveRecord == ASSUME PInv, NEW a \in Attempts, RemoveRecord(a) PROVE PInv'
<1> USE DEF PInv
<1>1. /\ UNCHANGED <<up, mem, vis, dur, saved, signer, fact, docs, work>> /\ up /\ LockFree /\ Disposable(a)
      /\ file' = [file EXCEPT ![a] = [k \in Kinds |-> NoPair]] /\ fsync' \in {[fsync EXCEPT ![a] = [k \in Kinds |-> NoPair]], fsync}
      /\ removing' = {a}
  BY DEF RemoveRecord
<1>2. /\ mem[a].ended /\ St(mem, a, "result") = "published" /\ St(vis, a, "result") = "published" /\ St(dur, a, "result") = "published"
      /\ St(mem, a, "closure") \in {"published", "unavailable"} /\ "closure" \in saved[a] /\ ClosureRequired(a)
      /\ St(vis, a, "closure") = St(mem, a, "closure") /\ St(dur, a, "closure") = St(mem, a, "closure")
  BY <1>1, Disposes
<1>3. /\ file' \in Pairs /\ fsync' \in Pairs
      /\ \A k \in Kinds : file'[a][k] = NoPair
      /\ \A b \in Attempts, k \in Kinds : b # a => file'[b][k] = file[b][k]
      /\ \A b \in Attempts, k \in Kinds : fsync'[b][k] = fsync[b][k] \/ (b = a /\ fsync'[b][k] = NoPair)
  <2>1. PICK n : n = [k \in Kinds |-> NoPair]
    OBVIOUS
  <2>2. n \in [Kinds -> Pair] /\ \A k \in Kinds : n[k] = NoPair
    BY <2>1, Constants1
  <2>3. file' = [file EXCEPT ![a] = n] /\ (fsync' = [fsync EXCEPT ![a] = n] \/ fsync' = fsync)
    BY <1>1, <2>1
  <2>4. file' \in Pairs /\ file'[a] = n /\ \A b \in Attempts : b # a => file'[b] = file[b]
    BY <2>2, <2>3 DEF PubTypes, Pairs
  <2>5. fsync' \in Pairs /\ \A b \in Attempts, k \in Kinds : fsync'[b][k] = fsync[b][k] \/ (b = a /\ fsync'[b][k] = NoPair)
    BY <2>2, <2>3 DEF PubTypes, Pairs
  <2> QED BY <2>2, <2>4, <2>5
<1>a. \A k \in Kinds : file'[a][k] = NoPair
  BY <1>3
<1>b. \A b \in Attempts, k \in Kinds : b # a => file'[b][k] = file[b][k] /\ fsync'[b][k] = fsync[b][k]
  BY <1>3
<1>4. PubTypes'
  BY <1>1, <1>3 DEF PubTypes
<1>5. SeenStays /\ TablesInv'
  BY <1>1, FactsStay, TablesStay
<1>6. ~Own(NoPair.doc) /\ NoPair.sig.key \notin Keys /\ NoPair.doc # Foreign /\ NoPair.sig.key # "foreign"
  BY Constants1, KeysDiffer DEF Own
<1>7. FilesInv'
  <2>1. "closure" \in Kinds
    BY DEF Kinds
  <2>2. FileTrue(file)'
    BY <1>1, <1>3, <1>6, <2>1 DEF FilesInv, FileTrue, Doc, Seen
  <2>3. FileTrue(fsync)'
    <3> SUFFICES ASSUME NEW b \in Attempts, NEW k \in Kinds
                 PROVE  /\ Own(fsync'[b][k].doc) /\ dur[b].here => Doc(dur, b, k) = fsync'[b][k].doc
                        /\ fsync'[b][k].sig.key \in Keys => fsync'[b][k].sig.key = Policy[b]
                        /\ Own(fsync'[b]["closure"].doc) => Seen(b)
      BY <1>1 DEF FileTrue, Seen
    <3>1. /\ Own(fsync[b][k].doc) /\ dur[b].here => Doc(dur, b, k) = fsync[b][k].doc
          /\ fsync[b][k].sig.key \in Keys => fsync[b][k].sig.key = Policy[b]
          /\ Own(fsync[b]["closure"].doc) => Seen(b)
      BY DEF FilesInv, FileTrue
    <3>2. fsync'[b][k] = fsync[b][k] \/ fsync'[b][k] = NoPair
      BY <1>3
    <3>3. fsync'[b]["closure"] = fsync[b]["closure"] \/ fsync'[b]["closure"] = NoPair
      BY <1>3, <2>1
    <3> QED BY <1>6, <3>1, <3>2, <3>3
  <2>4. ASSUME NEW b \in Attempts, NEW k \in Kinds
        PROVE  /\ file'[b][k].doc = Foreign => fsync'[b][k].doc = Foreign
               /\ file'[b][k].sig.key = "foreign" => fsync'[b][k].sig.key = "foreign"
    <3>1. CASE b = a
      <4>1. file'[b][k] = NoPair
        BY <1>a, <3>1
      <4> QED BY <1>6, <4>1
    <3>2. CASE b # a
      BY <1>b, <3>2 DEF FilesInv
    <3> QED BY <3>1, <3>2
  <2> QED BY <2>2, <2>3, <2>4 DEF FilesInv
<1>8. SavedInv'
  BY <1>1 DEF SavedInv, WorksOn, Doc, St
<1>9. WorkInv'
  <2>1. work.step \in {"idle", "observed"}
    BY <1>1 DEF LockFree
  <2>2. work.step = "observed" => work.at # a
    BY <1>2 DEF WorkInv
  <2> QED BY <1>1, <2>1, <2>2 DEF WorkInv, Writing, Doc, St, Seen
<1>10. SyncInv'
  <2> SUFFICES ASSUME NEW b \in Attempts, NEW j \in Kinds, Published(b, j)'
               PROVE  /\ Own(file'[b][j].doc) \/ Own(fsync'[b][j].doc) => Whole(fsync, b, j)'
                      /\ Whole(file, b, j)' \/ Settled(b, j)'
    BY DEF SyncInv
  <2>1. Published(b, j) /\ (Settled(b, j)' <=> Settled(b, j))
    BY <1>1 DEF Published, Settled, WorksOn, St
  <2>2. (Own(file[b][j].doc) \/ Own(fsync[b][j].doc) => Whole(fsync, b, j)) /\ (Whole(file, b, j) \/ Settled(b, j))
    BY <2>1 DEF SyncInv
  <2>3. CASE b # a
    BY <1>3, <2>1, <2>2, <2>3 DEF Whole
  <2>4. CASE b = a
    <3>1. work.step \notin {"doc", "sig", "readback"}
      BY <1>1 DEF LockFree
    <3>2. Settled(b, j)
      BY <1>2, <2>1, <2>4, <3>1 DEF Settled, Published, Kinds
    <3>3. ~Own(file'[b][j].doc)
      <4>1. file'[b][j] = NoPair
        BY <1>a, <2>4
      <4> QED BY <1>6, <4>1
    <3>4. fsync'[b][j] = fsync[b][j] \/ ~Own(fsync'[b][j].doc)
      BY <1>3, <1>6
    <3> QED BY <2>1, <2>2, <3>2, <3>3, <3>4 DEF Whole
  <2> QED BY <2>3, <2>4
<1> QED BY <1>4, <1>5, <1>7, <1>8, <1>9, <1>10

LEMMA StepRemoveEntry == ASSUME PInv, NEW a \in Attempts, RemoveEntry(a) PROVE PInv'
<1>1. PICK r \in Outcomes : Save(mem', r)
  BY DEF RemoveEntry
<1>2. /\ UNCHANGED <<up, file, fsync, signer, fact, docs, work>> /\ removing' = {} /\ a \in removing
      /\ mem' = [mem EXCEPT ![a] = NoEntry] /\ saved' = [saved EXCEPT ![a] = {}]
  BY DEF RemoveEntry
<1>3. Saves
  BY <1>1, SaveSaves
<1>4. up /\ work.step \in {"idle", "observed"} /\ (work.step # "idle" => work.at # a)
  BY <1>2 DEF PInv, WorkInv, PubTypes
<1>5. /\ mem' \in [Attempts -> Entry] /\ mem'[a] = NoEntry /\ (\A b \in Attempts : b # a => mem'[b] = mem[b])
      /\ saved' \in [Attempts -> SUBSET Kinds] /\ saved'[a] = {} /\ (\A b \in Attempts : b # a => saved'[b] = saved[b])
  BY <1>2, Constants1 DEF PInv, PubTypes
<1>6. PubTypes'
  BY <1>2, <1>3, <1>5 DEF PInv, PubTypes, Saves
<1>7. SeenStays
  BY <1>2, FactsStay DEF PInv
<1>8. "closure" \in Kinds /\ "result" \in Kinds
  BY DEF Kinds
<1>9. mem'[a].here = FALSE /\ mem'[a].ended = FALSE /\ \A k \in Kinds : Doc(mem', a, k) = 0 /\ St(mem', a, k) = "none"
  BY <1>5, Constants1 DEF Doc, St
<1>10. EntryTrue(mem') /\ \A b \in Attempts : Doc(mem', b, "closure") # 0 => Seen(b)'
  <2>1. \A b \in Attempts : b # a => mem'[b].ended = mem[b].ended /\ mem'[b].here = mem[b].here /\ \A k \in Kinds : Doc(mem', b, k) = Doc(mem, b, k) /\ St(mem', b, k) = St(mem, b, k)
    BY <1>5 DEF Doc, St
  <2> QED BY <1>7, <1>8, <1>9, <2>1 DEF PInv, TablesInv, EntryTrue, SeenStays
<1>11. Follows(mem, mem')
  BY <1>5, <1>9 DEF Follows, Doc
<1>12. TablesInv' /\ Follows(dur, mem')
  BY <1>3, <1>7, <1>10, <1>11, TablesMove DEF PInv
<1>13. FilesInv'
  BY <1>2, <1>3, <1>7, <1>12, FilesKeep DEF PInv, Saves
<1>14. WorkInv'
  <2>1. CASE work.step = "idle"
    BY <1>2, <1>4, <2>1 DEF PInv, WorkInv, Writing
  <2>2. CASE work.step = "observed"
    <3>1. mem'[work.at] = mem[work.at] /\ saved'[work.at] = saved[work.at]
      BY <1>4, <1>5, <2>2 DEF PInv, PubTypes
    <3> QED BY <1>2, <1>4, <2>2, <3>1 DEF PInv, WorkInv, Writing, Doc, St, Seen
  <2> QED BY <1>4, <2>1, <2>2
<1>15. ASSUME NEW b \in Attempts, NEW j \in Kinds PROVE SyncAt(b, j)' /\ SavedAt(b, j)'
  <2>1. CASE b # a
    <3>1. mem'[b].pub[j] = mem[b].pub[j] /\ mem'[b].ended = mem[b].ended /\ saved'[b] = saved[b]
      BY <1>5, <2>1
    <3> QED BY <1>2, <1>3, <1>4, <3>1, SyncElsewhere, SavedElsewhere DEF WorksOn
  <2>2. CASE b = a
    <3>1. SyncAt(b, j)
      BY AtEach DEF PInv
    <3>2. Published(b, j)' => Published(b, j)
      BY <1>3, <1>9, <2>2 DEF Published, St, Saves
    <3>3. Settled(b, j) => Settled(b, j)'
      BY <1>2, <1>3, <1>9, <2>2 DEF Settled, St, Saves, WorksOn
    <3>4. (Whole(fsync, b, j)' <=> Whole(fsync, b, j)) /\ (Whole(file, b, j)' <=> Whole(file, b, j))
      BY <1>2 DEF Whole
    <3> QED BY <1>2, <1>5, <2>2, <3>1, <3>2, <3>3, <3>4 DEF SyncAt, SavedAt
  <2> QED BY <2>1, <2>2
<1> QED BY <1>6, <1>12, <1>13, <1>14, <1>15, AtEachNext DEF PInv

\* The watcher moves on without touching the table it holds in memory, the files or the facts.
LEMMA StepTables ==
    ASSUME PInv, Saves \/ UNCHANGED <<vis, dur>>, UNCHANGED <<mem, file, fsync, fact>>
    PROVE  TablesInv' /\ FilesInv' /\ SeenStays
<1>1. SeenStays
  BY FactsStay DEF PInv
<1>2. EntryTrue(mem') /\ Follows(mem, mem') /\ \A b \in Attempts : Doc(mem', b, "closure") # 0 => Seen(b)'
  BY <1>1 DEF PInv, TablesInv, EntryTrue, SeenStays, Follows
<1>3. TablesInv' /\ Follows(dur, mem')
  BY <1>1, <1>2, TablesMove DEF PInv
<1>4. FilesInv'
  BY <1>1, <1>3, FilesKeep DEF PInv, Saves
<1> QED BY <1>1, <1>3, <1>4

LEMMA WorkSets ==
    ASSUME NEW s \in Steps, NEW a \in Attempts, NEW k \in Kinds, NEW y \in {"none", "ok", "missing", "corrupt", "quiet"}, At(s, a, k, y)
    PROVE  work' \in WorkRec /\ work'.step = s /\ work'.at = a /\ work'.kind = k /\ work'.why = y
  BY DEF At, WorkRec

LEMMA WorkGoes ==
    ASSUME PubTypes, NEW s \in Steps, Go(s)
    PROVE  work' \in WorkRec /\ work'.step = s /\ work'.at = work.at /\ work'.kind = work.kind /\ work'.why = work.why
  BY DEF Go, WorkRec, PubTypes

LEMMA StepPickResult == ASSUME PInv, NEW a \in Attempts, PickResult(a) PROVE PInv'
<1>1. /\ UNCHANGED <<up, mem, file, fsync, signer, fact, docs, removing>> /\ up /\ work.step = "idle" /\ removing = {}
      /\ mem[a].ended /\ Doc(mem, a, "result") # 0 /\ St(mem, a, "result") \notin {"corrupt", "unknown"}
  BY DEF PickResult, LockFree, Pub, Doc, St
<1>2. "result" \in Kinds /\ "closure" \in Kinds /\ "decide" \in Steps
  BY DEF Kinds, Steps
<1>3. /\ Saves \/ UNCHANGED <<vis, dur>>
      /\ \/ At("decide", a, "result", "none") /\ ("result" \in saved[a] \/ (vis' = mem' /\ dur' = mem'))
         \/ UNCHANGED work
      /\ saved' \in [Attempts -> SUBSET Kinds]
      /\ \A b \in Attempts, j \in Kinds : j \in saved'[b] => j \in saved[b] \/ (vis' = mem' /\ dur' = mem' /\ b = a)
  <2>1. CASE "result" \in saved[a] /\ At("decide", a, "result", "none") /\ UNCHANGED <<vis, dur, saved, mishaps>>
    BY <2>1 DEF PInv, PubTypes
  <2>2. CASE \E r \in Outcomes :
              /\ Save(mem, r)
              /\ saved' = [saved EXCEPT ![a] = IF r = "ok" THEN @ \cup {"result"} ELSE @]
              /\ IF r = "ok" THEN At("decide", a, "result", "none") ELSE UNCHANGED work
    <3>1. PICK r \in Outcomes :
              /\ Save(mem, r)
              /\ saved' = [saved EXCEPT ![a] = IF r = "ok" THEN @ \cup {"result"} ELSE @]
              /\ IF r = "ok" THEN At("decide", a, "result", "none") ELSE UNCHANGED work
      BY <2>2
    <3>2. Saves /\ (r = "ok" => vis' = mem' /\ dur' = mem')
      BY <1>1, <3>1 DEF Save, Saves
    <3> QED BY <1>2, <3>1, <3>2 DEF PInv, PubTypes
  <2> QED BY <2>1, <2>2 DEF PickResult
<1>4. UNCHANGED work \/ (work' \in WorkRec /\ work'.step = "decide" /\ work'.at = a /\ work'.kind = "result" /\ work'.why = "none")
  BY <1>2, <1>3, WorkSets
<1>5. TablesInv' /\ FilesInv'
  BY <1>1, <1>3, StepTables
<1>6. PubTypes'
  BY <1>1, <1>3, <1>4 DEF PInv, PubTypes, Saves
<1>7. WorkInv'
  <2>1. CASE UNCHANGED work
    BY <1>1, <2>1 DEF PInv, WorkInv, Writing
  <2>2. CASE ~UNCHANGED work
    <3>1. Doc(dur', a, "result") = Doc(mem', a, "result")
      BY <1>1, <1>2, <1>3, <2>2 DEF PInv, SavedInv, Doc, Saves
    <3>2. work'.step = "decide" /\ work'.at = a /\ work'.kind = "result" /\ work'.why = "none"
      BY <1>4, <2>2
    <3> QED BY <1>1, <3>1, <3>2 DEF WorkInv, Writing, Doc, St
  <2> QED BY <2>1, <2>2
<1>8. ASSUME NEW b \in Attempts, NEW j \in Kinds PROVE SyncAt(b, j)' /\ SavedAt(b, j)'
  <2>1. mem'[b].pub[j] = mem[b].pub[j] /\ mem'[b].ended = mem[b].ended
    BY <1>1
  <2>2. SyncAt(b, j)'
    BY <1>1, <1>3, <1>4, <2>1, SyncElsewhere
  <2>3. SavedAt(b, j)'
    BY <1>1, <1>3, <1>4, <2>1, SavedElsewhere
  <2> QED BY <2>2, <2>3
<1> QED BY <1>5, <1>6, <1>7, <1>8, AtEachNext DEF PInv

\* One publication's record moves, its document standing or being a closure's first.
LEMMA MovedTables ==
    ASSUME PInv, NEW a \in Attempts, NEW k \in Kinds, NEW p \in Publications, PubMoved(a, k, p), mem[a].ended,
           p.doc = Doc(mem, a, k) \/ (Doc(mem, a, k) = 0 /\ k = "closure" /\ Seen(a)),
           p.state = "published" => p.doc # 0, Saves \/ UNCHANGED <<vis, dur>>, UNCHANGED fact
    PROVE  SeenStays /\ TablesInv' /\ Follows(dur, mem')
<1>1. SeenStays
  BY FactsStay DEF PInv
<1>2. \A b \in Attempts, j \in Kinds : b # a \/ j # k => Doc(mem', b, j) = Doc(mem, b, j) /\ St(mem', b, j) = St(mem, b, j)
  BY DEF PubMoved, Doc, St
<1>3. Doc(mem', a, k) = p.doc /\ St(mem', a, k) = p.state
  BY DEF PubMoved, Doc, St
<1>4. \A b \in Attempts : mem'[b].here = mem[b].here /\ mem'[b].ended = mem[b].ended
  BY DEF PubMoved
<1>5. "closure" \in Kinds /\ "result" \in Kinds
  BY DEF Kinds
<1>6. ASSUME NEW b \in Attempts
      PROVE  /\ mem'[b].ended => mem'[b].here
             /\ \A j \in Kinds : (Doc(mem', b, j) # 0 => mem'[b].ended) /\ (St(mem', b, j) = "published" => Doc(mem', b, j) # 0)
             /\ Doc(mem', b, "result") # 0 => Policy[b] # "legacy"
             /\ Doc(mem', b, "closure") # 0 => Seen(b)
  <2>1. /\ mem[b].ended => mem[b].here
        /\ \A j \in Kinds : (Doc(mem, b, j) # 0 => mem[b].ended) /\ (St(mem, b, j) = "published" => Doc(mem, b, j) # 0)
        /\ Doc(mem, b, "result") # 0 => Policy[b] # "legacy"
        /\ Doc(mem, b, "closure") # 0 => Seen(b)
    BY DEF PInv, TablesInv, EntryTrue
  <2>2. CASE b # a
    BY <1>2, <1>4, <1>5, <2>1, <2>2
  <2>3. CASE b = a
    BY <1>2, <1>3, <1>4, <1>5, <2>1, <2>3
  <2> QED BY <2>2, <2>3
<1>7. EntryTrue(mem')
  BY <1>6 DEF EntryTrue
<1>8. Follows(mem, mem')
  BY <1>2, <1>3, <1>4 DEF Follows
<1>9. \A b \in Attempts : Doc(mem', b, "closure") # 0 => Seen(b)'
  BY <1>1, <1>6 DEF SeenStays
<1> QED BY <1>1, <1>7, <1>8, <1>9, TablesMove DEF PInv

LEMMA StepObserveClosure == ASSUME PInv, NEW a \in Attempts, ObserveClosure(a) PROVE PInv'
<1>1. /\ UNCHANGED <<up, mem, vis, dur, saved, file, fsync, signer, fact, docs, removing>> /\ up /\ work.step = "idle" /\ removing = {}
      /\ mem[a].ended /\ ClosureRequired(a) /\ St(mem, a, "closure") # "corrupt"
      /\ ~(St(mem, a, "closure") \in {"published", "unavailable"} /\ "closure" \in saved[a])
  BY DEF ObserveClosure, LockFree, Pub, St
<1>2. PICK y \in {"none", "ok", "missing", "corrupt"} : At("observed", a, "closure", y) /\ (y = "ok" => Seen(a))
  <2>1. Observation(a) \in {"ok", "missing", "corrupt"} /\ (Observation(a) = "ok" => Seen(a))
    BY DEF Observation, Seen
  <2>2. At("observed", a, "closure", "none") \/ At("observed", a, "closure", Observation(a)) \/ At("observed", a, "closure", "missing")
    BY DEF ObserveClosure
  <2> QED BY <2>1, <2>2
<1>3. "closure" \in Kinds /\ "observed" \in Steps
  BY DEF Kinds, Steps
<1>4. work' \in WorkRec /\ work'.step = "observed" /\ work'.at = a /\ work'.kind = "closure" /\ work'.why = y
  BY <1>2, <1>3, WorkSets
<1>5. TablesInv' /\ FilesInv'
  BY <1>1, StepTables
<1>6. PubTypes'
  BY <1>1, <1>4 DEF PInv, PubTypes
<1>7. WorkInv'
  BY <1>1, <1>2, <1>4 DEF PInv, WorkInv, Writing, Doc, St, Seen
<1>8. ASSUME NEW b \in Attempts, NEW j \in Kinds PROVE SyncAt(b, j)' /\ SavedAt(b, j)'
  <2>1. mem'[b].pub[j] = mem[b].pub[j] /\ mem'[b].ended = mem[b].ended
    BY <1>1
  <2>2. SyncAt(b, j)'
    BY <1>1, <1>4, <2>1, SyncElsewhere
  <2>3. SavedAt(b, j)'
    BY <1>1, <1>4, <2>1, SavedElsewhere
  <2> QED BY <2>2, <2>3
<1> QED BY <1>5, <1>6, <1>7, <1>8, AtEachNext DEF PInv

\* Without a document in memory no table has one, and none says published.
LEMMA NoIntent ==
    ASSUME PInv, NEW a \in Attempts, NEW k \in Kinds, mem[a].ended, Doc(mem, a, k) = 0
    PROVE  Doc(vis, a, k) = 0 /\ Doc(dur, a, k) = 0 /\ ~Published(a, k)
<1>1. mem[a].here
  BY DEF PInv, TablesInv, EntryTrue
<1>2. Doc(vis, a, k) = 0
  BY <1>1 DEF PInv, TablesInv, Follows
<1>3. Follows(dur, mem)
  BY FollowsAll DEF PInv, TablesInv
<1>4. Doc(dur, a, k) = 0
  BY <1>1, <1>3 DEF Follows
<1> QED BY <1>2, <1>4 DEF PInv, TablesInv, EntryTrue, Published

LEMMA HoldMoves ==
    ASSUME PInv, HoldClosure
    PROVE  mem' = mem \/ \E p \in Publications : p.state \in {"corrupt", "held", "unavailable"} /\ p.doc = 0 /\ PubMoved(work.at, "closure", p)
<1>1. work.at \in Attempts /\ Doc(mem, work.at, "closure") = 0 /\ "closure" \in Kinds
  BY DEF HoldClosure, PInv, PubTypes, Pub, Doc, Kinds
<1>2. PICK a \in Attempts : a = work.at
  BY <1>1
<1>3. PubTypes
  BY DEF PInv
<1>4. CASE UNCHANGED mem
  BY <1>4
<1>5. CASE SetState(a, "closure", "corrupt")
  <2>1. "corrupt" \in States
    BY DEF States
  <2>2. \E p \in Publications : p.state = "corrupt" /\ p.doc = Doc(mem, a, "closure") /\ PubMoved(a, "closure", p)
    BY <1>1, <1>3, <1>5, <2>1, StateSets
  <2> QED BY <1>1, <1>2, <2>2
<1>6. CASE \E st \in {"held"} \cup (IF mem[a].timed THEN {"unavailable"} ELSE {}) : HoldWrites(a, st)
  <2>1. PICK st \in {"held", "unavailable"} : HoldWrites(a, st)
    BY <1>6
  <2>2. st \in States
    BY DEF States
  <2>3. \E p \in Publications : p.state = st /\ p.doc = Doc(mem, a, "closure") /\ PubMoved(a, "closure", p)
    BY <1>3, <2>1, <2>2, HoldSets
  <2> QED BY <1>1, <1>2, <2>3
<1> QED BY <1>2, <1>4, <1>5, <1>6 DEF HoldClosure, HoldWrites

LEMMA StepHoldClosure == ASSUME PInv, HoldClosure PROVE PInv'
<1>1. /\ UNCHANGED <<up, vis, dur, saved, file, fsync, signer, fact, docs, removing>> /\ work.step = "observed" /\ removing = {}
      /\ Doc(mem, work.at, "closure") = 0
  BY DEF HoldClosure, LockFree, Pub, Doc
<1>2. Go("mark") /\ "mark" \in Steps /\ "closure" \in Kinds
  BY DEF HoldClosure, Steps, Kinds
<1>3. PICK a \in Attempts : a = work.at
  BY <1>1 DEF PInv, PubTypes
<1>4. mem[a].ended /\ work.kind = "closure" /\ work.why # "quiet" /\ up
  BY <1>1, <1>3 DEF PInv, WorkInv, PubTypes
<1>5. work' \in WorkRec /\ work'.step = "mark" /\ work'.at = a /\ work'.kind = "closure" /\ work'.why # "quiet"
  BY <1>2, <1>3, <1>4, WorkGoes DEF PInv
<1>6. PICK p \in Publications : PubMoved(a, "closure", p) /\ p.doc = 0 /\ p.state # "published"
  <2>1. CASE mem' = mem
    <3>1. PICK p \in Publications : p = mem[a].pub["closure"]
      BY <1>2 DEF PInv, PubTypes, Entry
    <3>2. PubMoved(a, "closure", p)
      BY <2>1, <3>1 DEF PubMoved, PInv, PubTypes
    <3>3. p.doc = 0 /\ p.state # "published"
      BY <1>1, <1>2, <1>3, <3>1 DEF PInv, TablesInv, EntryTrue, Doc, St
    <3> QED BY <3>2, <3>3
  <2>2. CASE mem' # mem
    <3>1. PICK p \in Publications : p.state \in {"corrupt", "held", "unavailable"} /\ p.doc = 0 /\ PubMoved(work.at, "closure", p)
      BY <2>2, HoldMoves
    <3> QED BY <1>3, <3>1
  <2> QED BY <2>1, <2>2
<1>7. SeenStays /\ TablesInv' /\ Follows(dur, mem')
  BY <1>1, <1>2, <1>3, <1>4, <1>6, MovedTables
<1>8. FilesInv'
  BY <1>1, <1>7, FilesKeep DEF PInv
<1>9. PubTypes'
  BY <1>1, <1>5, <1>6 DEF PInv, PubTypes, PubMoved
<1>10. WorkInv'
  BY <1>1, <1>3, <1>4, <1>5, <1>6 DEF PInv, WorkInv, Writing, PubMoved
<1>11. ASSUME NEW b \in Attempts, NEW j \in Kinds PROVE SyncAt(b, j)' /\ SavedAt(b, j)'
  <2>1. mem'[b].ended = mem[b].ended
    BY <1>6 DEF PubMoved
  <2>2. CASE b # a \/ j # "closure"
    <3>1. mem'[b].pub[j] = mem[b].pub[j]
      BY <1>6, <2>2 DEF PubMoved
    <3> QED BY <1>1, <1>4, <1>5, <2>1, <3>1, SyncElsewhere, SavedElsewhere
  <2>3. CASE b = a /\ j = "closure"
    <3>1. ~Published(b, j)'
      <4>1. Doc(vis, a, "closure") = 0 /\ Doc(dur, a, "closure") = 0 /\ ~Published(a, "closure")
        BY <1>1, <1>2, <1>3, <1>4, NoIntent
      <4>2. St(mem', a, "closure") # "published"
        BY <1>2, <1>6 DEF PubMoved, St
      <4> QED BY <1>1, <2>3, <4>1, <4>2 DEF Published, St
    <3>2. SavedAt(b, j)'
      <4>1. SavedAt(b, j)
        BY AtEach DEF PInv
      <4>2. Doc(mem', a, "closure") = Doc(mem, a, "closure")
        BY <1>1, <1>2, <1>3, <1>6 DEF PubMoved, Doc
      <4> QED BY <1>1, <1>5, <2>1, <2>3, <4>1, <4>2 DEF SavedAt, WorksOn, Doc
    <3> QED BY <3>1, <3>2 DEF SyncAt
  <2> QED BY <2>2, <2>3
<1> QED BY <1>7, <1>8, <1>9, <1>10, <1>11, AtEachNext DEF PInv

LEMMA FreezeMoves ==
    ASSUME PInv, NEW a \in Attempts, a = work.at, FreezeClosure
    PROVE  \E p \in Publications :
             /\ PubMoved(a, "closure", p) /\ p.doc # 0 /\ docs' \in [Attempts -> [Kinds -> 0 .. MaxDocs]]
             /\ \/ p = mem[a].pub["closure"] /\ mem' = mem
                \/ Doc(mem, a, "closure") = 0 /\ work.why = "ok" /\ p.state = "pending"
<1>1. "closure" \in Kinds /\ PubTypes
  BY DEF PInv, Kinds
<1>2. CASE Pub(a, "closure").doc # 0 /\ UNCHANGED <<mem, docs>>
  <2>1. PICK p \in Publications : p = mem[a].pub["closure"]
    BY <1>1 DEF PubTypes, Entry
  <2>2. PubMoved(a, "closure", p) /\ p.doc # 0
    BY <1>1, <1>2, <2>1 DEF PubMoved, PubTypes, Pub
  <2>3. docs' \in [Attempts -> [Kinds -> 0 .. MaxDocs]]
    BY <1>1, <1>2 DEF PubTypes
  <2> QED BY <1>2, <2>1, <2>2, <2>3
<1>3. CASE ~(Pub(a, "closure").doc # 0)
  <2>1. PICK n : n = docs[a]["closure"] + 1
    OBVIOUS
  <2>2. n <= MaxDocs /\ docs' = [docs EXCEPT ![a]["closure"] = n] /\ mem' = [mem EXCEPT ![a].pub["closure"] = [state |-> "pending", doc |-> n]]
    BY <1>3, <2>1 DEF FreezeClosure
  <2>3. docs[a]["closure"] \in 0 .. MaxDocs
    BY <1>1 DEF PubTypes
  <2>4. n \in 0 .. MaxDocs /\ n # 0
    BY <2>1, <2>2, <2>3, PublicationAssumption
  <2>5. PICK p : p = [state |-> "pending", doc |-> n]
    OBVIOUS
  <2>6. p \in Publications /\ p.doc # 0 /\ p.state = "pending"
    BY <2>4, <2>5 DEF Publications, States
  <2>7. FreezeWrites(a, p)
    BY <2>2, <2>5 DEF FreezeWrites
  <2>8. PubMoved(a, "closure", p)
    BY <1>1, <2>6, <2>7, FreezeSets
  <2>9. docs' \in [Attempts -> [Kinds -> 0 .. MaxDocs]]
    BY <1>1, <2>2, <2>4 DEF PubTypes
  <2>10. Doc(mem, a, "closure") = 0 /\ work.why = "ok"
    BY <1>3 DEF FreezeClosure, Pub, Doc
  <2> QED BY <2>6, <2>8, <2>9, <2>10
<1> QED BY <1>2, <1>3 DEF FreezeClosure

LEMMA StepFreezeClosure == ASSUME PInv, FreezeClosure PROVE PInv'
<1>1. UNCHANGED <<up, file, fsync, signer, fact, removing>> /\ work.step = "observed" /\ removing = {}
  BY DEF FreezeClosure, LockFree
<1>2. PICK a \in Attempts : a = work.at
  BY <1>1 DEF PInv, PubTypes
<1>3. /\ mem[a].ended /\ work.kind = "closure" /\ work.why # "quiet" /\ up /\ (work.why = "ok" => Seen(a))
      /\ St(mem, a, "closure") # "corrupt"
  BY <1>1, <1>2 DEF PInv, WorkInv, PubTypes
<1>4. PICK p \in Publications :
             /\ PubMoved(a, "closure", p) /\ p.doc # 0 /\ docs' \in [Attempts -> [Kinds -> 0 .. MaxDocs]]
             /\ \/ p = mem[a].pub["closure"] /\ mem' = mem
                \/ Doc(mem, a, "closure") = 0 /\ work.why = "ok" /\ p.state = "pending"
  BY <1>2, FreezeMoves
<1>5. PICK r \in Outcomes :
        /\ Save(mem', r) /\ saved' = [saved EXCEPT ![a] = IF r = "ok" THEN @ ELSE @ \ {"closure"}]
        /\ IF r = "ok" THEN Go("decide") ELSE work' = NoWork
  BY <1>2 DEF FreezeClosure
<1>6. Saves /\ (r = "ok" => vis' = mem' /\ dur' = mem')
  BY <1>5, SaveSaves
<1>7. "closure" \in Kinds /\ "decide" \in Steps
  BY DEF Kinds, Steps
<1>8. /\ saved' \in [Attempts -> SUBSET Kinds]
      /\ \A b \in Attempts, j \in Kinds : j \in saved'[b] => j \in saved[b] /\ (b = a /\ j = "closure" => r = "ok")
  BY <1>5 DEF PInv, PubTypes
<1>9. \/ r = "ok" /\ work' \in WorkRec /\ work'.step = "decide" /\ work'.at = a /\ work'.kind = "closure" /\ work'.why # "quiet"
      \/ work' \in WorkRec /\ work'.step = "idle"
  BY <1>2, <1>3, <1>5, <1>7, WorkGoes, Constants1 DEF PInv
<1>10. SeenStays /\ TablesInv' /\ Follows(dur, mem')
  <2>1. p.doc = Doc(mem, a, "closure") \/ (Doc(mem, a, "closure") = 0 /\ Seen(a))
    BY <1>3, <1>4 DEF Doc
  <2> QED BY <1>1, <1>3, <1>4, <1>6, <1>7, <2>1, MovedTables
<1>11. FilesInv'
  BY <1>1, <1>6, <1>10, FilesKeep DEF PInv, Saves
<1>12. PubTypes'
  BY <1>1, <1>4, <1>6, <1>8, <1>9 DEF PInv, PubTypes, PubMoved, Saves
<1>13. WorkInv'
  <2>1. mem'[a].ended /\ Doc(mem', a, "closure") # 0 /\ St(mem', a, "closure") # "corrupt"
    BY <1>3, <1>4, <1>7 DEF PubMoved, Doc, St
  <2>2. CASE work'.step = "idle"
    BY <1>1, <2>2 DEF WorkInv, Writing
  <2>3. CASE work'.step = "decide"
    BY <1>1, <1>3, <1>6, <1>9, <2>1, <2>3 DEF WorkInv, Writing, Doc, St
  <2> QED BY <1>9, <2>2, <2>3
<1>14. ASSUME NEW b \in Attempts, NEW j \in Kinds PROVE SyncAt(b, j)' /\ SavedAt(b, j)'
  <2>1. mem'[b].ended = mem[b].ended
    BY <1>4 DEF PubMoved
  <2>2. CASE mem'[b].pub[j] = mem[b].pub[j]
    BY <1>1, <1>3, <1>6, <1>8, <1>9, <2>1, <2>2, SyncElsewhere, SavedElsewhere
  <2>3. CASE mem'[b].pub[j] # mem[b].pub[j]
    <3>1. b = a /\ j = "closure" /\ Doc(mem, a, "closure") = 0 /\ p.state = "pending"
      BY <1>4, <2>3 DEF PubMoved
    <3>2. ~Published(b, j)'
      <4>1. ~Published(a, "closure")
        BY <1>3, <1>7, <3>1, NoIntent
      <4>2. St(mem', a, "closure") # "published"
        BY <1>4, <1>7, <3>1 DEF PubMoved, St
      <4> QED BY <1>6, <3>1, <4>1, <4>2 DEF Published, St, Saves
    <3>3. SavedAt(b, j)'
      <4>1. j \in saved'[b] => r = "ok"
        BY <1>8, <3>1
      <4> QED BY <1>3, <1>6, <2>1, <3>1, <4>1 DEF SavedAt, Doc, St
    <3> QED BY <3>2, <3>3 DEF SyncAt
  <2> QED BY <2>2, <2>3
<1> QED BY <1>10, <1>11, <1>12, <1>13, <1>14, AtEachNext DEF PInv

\* What a verdict says of the files.
LEMMA VerdictSays ==
    ASSUME PInv, NEW a \in Attempts, NEW k \in Kinds
    PROVE  /\ Verdict(a, k) = "ok" => file[a][k].doc = Doc(mem, a, k) /\ file[a][k].doc # 0 /\ (Signed(a) => file[a][k].sig = Wanted(a, Doc(mem, a, k)) /\ file[a][k].sig # NoSig)
           /\ Verdict(a, k) = "pending" => St(mem, a, k) # "published" /\ ~Whole(file, a, k)
           /\ Verdict(a, k) \in {"ok", "pending", "conflict"}
           /\ file[a][k].doc = Doc(mem, a, k) /\ Doc(mem, a, k) # 0 /\ Signed(a) /\ file[a][k].sig = Wanted(a, Doc(mem, a, k)) => Verdict(a, k) = "ok"
<1>1. Verdict(a, k) = "ok" => file[a][k].doc = Doc(mem, a, k) /\ file[a][k].doc # 0 /\ (Signed(a) => file[a][k].sig = Wanted(a, Doc(mem, a, k)) /\ file[a][k].sig # NoSig)
  BY DEF Verdict, Pub, Doc
<1>2. Verdict(a, k) = "pending" => St(mem, a, k) # "published" /\ ~Whole(file, a, k)
  BY DEF Verdict, Pub, St, Whole, Own
<1>3. Verdict(a, k) \in {"ok", "pending", "conflict"}
  BY DEF Verdict
<1>4. Doc(mem, a, k) \in 0 .. MaxDocs
  BY DEF PInv, PubTypes, Entry, Publications, Doc
<1>5. file[a][k].doc = Doc(mem, a, k) /\ Doc(mem, a, k) # 0 /\ Signed(a) /\ file[a][k].sig = Wanted(a, Doc(mem, a, k)) => Verdict(a, k) = "ok"
  BY <1>4, KeysDiffer DEF Verdict, Pub, Doc
<1> QED BY <1>1, <1>2, <1>3, <1>5

LEMMA OwnDoc == ASSUME PubTypes, NEW a \in Attempts, NEW k \in Kinds, Doc(mem, a, k) # 0 PROVE Own(Doc(mem, a, k))
<1>1. Doc(mem, a, k) \in 0 .. MaxDocs
  BY DEF PubTypes, Entry, Publications, Doc
<1> QED BY <1>1, PublicationAssumption DEF Own, Foreign

\* The watcher gives a publication a state and goes to the closing save; nothing else moves.
MarkedAs(a, k, st) ==
    /\ \E p \in Publications : p.state = st /\ p.doc = Doc(mem, a, k) /\ PubMoved(a, k, p)
    /\ UNCHANGED <<up, vis, dur, saved, file, fsync, signer, fact, docs, removing>>
    /\ work' \in WorkRec /\ work'.step = "mark" /\ work'.at = a /\ work'.kind = k
    /\ work'.why = "quiet" => st \in {"corrupt", "held"}
LEMMA StepMarked ==
    ASSUME PInv, NEW a \in Attempts, NEW k \in Kinds, NEW st \in States, Writing, a = work.at, k = work.kind, MarkedAs(a, k, st),
           st = "published" => Whole(file, a, k) /\ Whole(fsync, a, k),
           Published(a, k) /\ ~Whole(file, a, k) => st \in {"published", "corrupt"}
    PROVE  PInv'
<1>1. PICK p \in Publications : p.state = st /\ p.doc = Doc(mem, a, k) /\ PubMoved(a, k, p)
  BY DEF MarkedAs
<1>2. /\ UNCHANGED <<up, vis, dur, saved, file, fsync, signer, fact, docs, removing>>
      /\ work' \in WorkRec /\ work'.step = "mark" /\ work'.at = a /\ work'.kind = k /\ (work'.why = "quiet" => st \in {"corrupt", "held"})
  BY DEF MarkedAs
<1>3. mem[a].ended /\ up /\ removing = {} /\ Doc(mem, a, k) # 0
  BY DEF PInv, WorkInv, Writing, PubTypes
<1>4. SeenStays /\ TablesInv' /\ Follows(dur, mem')
  BY <1>1, <1>2, <1>3, MovedTables
<1>5. FilesInv'
  BY <1>2, <1>4, FilesKeep DEF PInv
<1>6. PubTypes'
  BY <1>1, <1>2 DEF PInv, PubTypes, PubMoved
<1>7. Doc(mem', a, k) = Doc(mem, a, k) /\ St(mem', a, k) = st /\ mem'[a].ended
  BY <1>1, <1>3 DEF PubMoved, Doc, St
<1>8. WorkInv'
  BY <1>2, <1>3, <1>7 DEF WorkInv, Writing, St
<1>9. ASSUME NEW b \in Attempts, NEW j \in Kinds PROVE SyncAt(b, j)' /\ SavedAt(b, j)'
  <2>1. mem'[b].ended = mem[b].ended
    BY <1>1 DEF PubMoved
  <2>2. CASE b # a \/ j # k
    <3>1. mem'[b].pub[j] = mem[b].pub[j]
      BY <1>1, <2>2 DEF PubMoved
    <3>2. work.step # "mark"
      BY DEF Writing
    <3> QED BY <1>2, <1>3, <2>1, <3>1, <3>2, SyncElsewhere, SavedElsewhere
  <2>3. CASE b = a /\ j = k
    <3>1. SyncAt(a, k) /\ SavedAt(a, k)
      BY AtEach DEF PInv
    <3>2. SavedAt(a, k)'
      BY <1>2, <1>3, <1>7, <3>1 DEF SavedAt, WorksOn, Doc
    <3>3. (Whole(fsync, a, k)' <=> Whole(fsync, a, k)) /\ (Whole(file, a, k)' <=> Whole(file, a, k))
      BY <1>2 DEF Whole
    <3>4. CASE st = "published"
      BY <1>2, <3>2, <3>3, <3>4, <2>3 DEF SyncAt
    <3>5. CASE st # "published"
      <4>1. Published(a, k)' => Published(a, k)
        BY <1>2, <1>7, <3>5 DEF Published, St
      <4>2. Settled(a, k) /\ st = "corrupt" => Settled(a, k)'
        BY <1>2, <1>7 DEF Settled, St
      <4> QED BY <1>2, <2>3, <3>1, <3>2, <3>3, <3>5, <4>1, <4>2 DEF SyncAt
    <3> QED BY <3>4, <3>5
  <2> QED BY <2>2, <2>3
<1> QED BY <1>4, <1>5, <1>6, <1>8, <1>9, AtEachNext DEF PInv

\* The watcher goes from the decision to a step that changes no table and no file.
LEMMA StepGoes ==
    ASSUME PInv, NEW a \in Attempts, NEW k \in Kinds, work.step = "decide", a = work.at, k = work.kind,
           UNCHANGED <<up, mem, vis, dur, saved, file, fsync, signer, fact, docs, removing>>,
           work' \in WorkRec,
           \/ work'.step = "idle"
           \/ /\ work'.step = "doc" /\ work'.at = a /\ work'.kind = k /\ work'.why = work.why
              /\ Verdict(a, k) # "conflict" /\ (Verdict(a, k) = "pending" /\ Signed(a) => signer = Policy[a])
    PROVE  PInv'
<1>1. TablesInv' /\ FilesInv'
  BY StepTables
<1>2. PubTypes'
  BY DEF PInv, PubTypes
<1>3. mem[a].ended /\ up /\ removing = {} /\ Doc(mem, a, k) # 0 /\ St(mem, a, k) # "corrupt"
  BY DEF PInv, WorkInv, Writing, PubTypes
<1>4. WorkInv'
  <2>1. CASE work'.step = "idle"
    BY <1>3, <2>1 DEF WorkInv, Writing
  <2>2. CASE work'.step = "doc"
    <3>1. Signed(a) /\ signer # Policy[a] => file[a][k].doc = Doc(mem, a, k) /\ file[a][k].sig = Wanted(a, Doc(mem, a, k))
      BY <2>2, VerdictSays
    <3> QED BY <1>3, <2>2, <3>1 DEF PInv, WorkInv, Writing, Doc, St
  <2> QED BY <2>1, <2>2
<1>5. ASSUME NEW b \in Attempts, NEW j \in Kinds PROVE SyncAt(b, j)' /\ SavedAt(b, j)'
  <2>1. mem'[b].pub[j] = mem[b].pub[j] /\ mem'[b].ended = mem[b].ended
    OBVIOUS
  <2>2. SavedAt(b, j)'
    BY <1>3, <2>1, SavedElsewhere
  <2>3. SyncAt(b, j)'
    <3>1. CASE ~(work'.step = "doc" /\ b = a /\ j = k)
      BY <2>1, <3>1, SyncElsewhere DEF WorksOn
    <3>2. CASE work'.step = "doc" /\ b = a /\ j = k
      <4>1. SyncAt(a, k)
        BY AtEach DEF PInv
      <4>2. Published(a, k) => Whole(file, a, k)
        <5>1. SUFFICES ASSUME Published(a, k), Settled(a, k) PROVE Whole(file, a, k)
          BY <4>1 DEF SyncAt
        <5>2. St(mem, a, k) = "published"
          BY <1>3, <5>1 DEF Settled
        <5>3. Verdict(a, k) = "ok"
          BY <3>2, <5>2, VerdictSays
        <5>4. Own(Doc(mem, a, k))
          BY <1>3, OwnDoc DEF PInv
        <5> QED BY <5>3, <5>4, VerdictSays DEF Whole
      <4>3. Published(a, k)' <=> Published(a, k)
        BY DEF Published, St
      <4>4. (Whole(fsync, a, k)' <=> Whole(fsync, a, k)) /\ (Whole(file, a, k)' <=> Whole(file, a, k))
        BY DEF Whole
      <4> QED BY <3>2, <4>1, <4>2, <4>3, <4>4 DEF SyncAt
    <3> QED BY <3>1, <3>2
  <2> QED BY <2>2, <2>3
<1> QED BY <1>1, <1>2, <1>4, <1>5, AtEachNext DEF PInv

LEMMA StepDecide == ASSUME PInv, Decide PROVE PInv'
<1>1. UNCHANGED <<up, vis, dur, saved, file, fsync, signer, fact, docs, removing>> /\ work.step = "decide"
  BY DEF Decide
<1>2. PICK a \in Attempts, k \in Kinds : a = work.at /\ k = work.kind
  BY <1>1 DEF PInv, PubTypes, WorkRec
<1>3. PubTypes /\ Writing /\ mem[a].ended /\ St(mem, a, k) # "corrupt"
  BY <1>1, <1>2 DEF PInv, WorkInv, Writing
<1>4. {"mark", "doc"} \subseteq Steps /\ {"corrupt", "held"} \subseteq States
  BY DEF Steps, States
<1>5. CASE Verdict(a, k) = "conflict"
  <2>1. SetState(a, k, "corrupt") /\ (At("mark", a, k, "quiet") \/ At("mark", a, k, "none"))
    BY <1>2, <1>5 DEF Decide
  <2>2. work' \in WorkRec /\ work'.step = "mark" /\ work'.at = a /\ work'.kind = k
    BY <1>4, <2>1, WorkSets
  <2>3. \E p \in Publications : p.state = "corrupt" /\ p.doc = Doc(mem, a, k) /\ PubMoved(a, k, p)
    BY <1>3, <1>4, <2>1, StateSets
  <2>4. MarkedAs(a, k, "corrupt")
    BY <1>1, <2>2, <2>3 DEF MarkedAs
  <2> QED BY <1>2, <1>3, <1>4, <2>4, StepMarked
<1>6. CASE Verdict(a, k) # "conflict" /\ k = "result" /\ Pub(a, k).state = "published"
  <2>1. work' = NoWork /\ UNCHANGED mem
    BY <1>2, <1>6 DEF Decide
  <2>2. work' \in WorkRec /\ work'.step = "idle"
    BY <2>1, Constants1
  <2> QED BY <1>1, <1>2, <2>1, <2>2, StepGoes
<1>7. CASE Verdict(a, k) = "pending" /\ ~(k = "result" /\ Pub(a, k).state = "published") /\ Signed(a) /\ signer # Policy[a]
  <2>1. SetState(a, k, "held") /\ (At("mark", a, k, "quiet") \/ At("mark", a, k, "none"))
    BY <1>2, <1>7 DEF Decide
  <2>2. work' \in WorkRec /\ work'.step = "mark" /\ work'.at = a /\ work'.kind = k
    BY <1>4, <2>1, WorkSets
  <2>3. \E p \in Publications : p.state = "held" /\ p.doc = Doc(mem, a, k) /\ PubMoved(a, k, p)
    BY <1>3, <1>4, <2>1, StateSets
  <2>4. MarkedAs(a, k, "held")
    BY <1>1, <2>2, <2>3 DEF MarkedAs
  <2>5. St(mem, a, k) # "published" /\ ~Whole(file, a, k)
    BY <1>7, VerdictSays
  <2>6. ~Published(a, k)
    BY <1>3, <2>5 DEF PInv, SyncInv, Settled
  <2> QED BY <1>2, <1>3, <1>4, <2>4, <2>6, StepMarked
<1>8. CASE Verdict(a, k) # "conflict" /\ ~(k = "result" /\ Pub(a, k).state = "published") /\ ~(Verdict(a, k) = "pending" /\ Signed(a) /\ signer # Policy[a])
  <2>1. Go("doc") /\ UNCHANGED mem
    BY <1>2, <1>8 DEF Decide
  <2>2. work' \in WorkRec /\ work'.step = "doc" /\ work'.at = a /\ work'.kind = k /\ work'.why = work.why
    BY <1>2, <1>3, <1>4, <2>1, WorkGoes
  <2> QED BY <1>1, <1>2, <1>8, <2>1, <2>2, StepGoes
<1> QED BY <1>5, <1>6, <1>7, <1>8

LEMMA StepReadback == ASSUME PInv, Readback PROVE PInv'
<1>1. UNCHANGED <<up, vis, dur, saved, file, fsync, signer, fact, docs, removing>> /\ work.step = "readback" /\ Go("mark")
  BY DEF Readback
<1>2. PICK a \in Attempts, k \in Kinds : a = work.at /\ k = work.kind
  BY <1>1 DEF PInv, PubTypes, WorkRec
<1>3. PICK st \in {"corrupt", "published", "pending"} : SetState(a, k, st)
  BY <1>2 DEF Readback
<1>4. st \in States /\ "mark" \in Steps
  BY DEF States, Steps
<1>5. /\ PubTypes /\ Writing /\ work.why # "quiet" /\ Doc(mem, a, k) # 0 /\ file[a][k].doc = Doc(mem, a, k) /\ fsync[a][k].doc = Doc(mem, a, k)
      /\ Signed(a) => file[a][k].sig # NoSig /\ fsync[a][k].sig # NoSig
  BY <1>1, <1>2 DEF PInv, WorkInv, Writing
<1>6. Own(Doc(mem, a, k))
  BY <1>5, OwnDoc
<1>7. Whole(file, a, k) /\ Whole(fsync, a, k)
  BY <1>5, <1>6 DEF Whole
<1>8. work' \in WorkRec /\ work'.step = "mark" /\ work'.at = a /\ work'.kind = k /\ work'.why # "quiet"
  BY <1>1, <1>2, <1>4, <1>5, WorkGoes
<1>9. \E p \in Publications : p.state = st /\ p.doc = Doc(mem, a, k) /\ PubMoved(a, k, p)
  BY <1>3, <1>4, <1>5, StateSets
<1>10. MarkedAs(a, k, st)
  BY <1>1, <1>8, <1>9 DEF MarkedAs
<1> QED BY <1>2, <1>4, <1>5, <1>7, <1>10, StepMarked

LEMMA StepMark == ASSUME PInv, Mark PROVE PInv'
<1>1. UNCHANGED <<up, mem, file, fsync, signer, fact, docs, removing>> /\ work.step = "mark" /\ work' = NoWork
  BY DEF Mark
<1>2. PICK a \in Attempts, k \in Kinds : a = work.at /\ k = work.kind
  BY <1>1 DEF PInv, PubTypes, WorkRec
<1>3. PICK r \in Outcomes : Save(mem, r) /\ saved' = IF work.why = "quiet" THEN saved
                    ELSE [saved EXCEPT ![a] = IF r = "ok" THEN @ \cup {k} ELSE @ \ {k}]
  BY <1>2 DEF Mark
<1>4. Saves /\ (r = "ok" => vis' = mem' /\ dur' = mem')
  BY <1>1, <1>3 DEF Save, Saves
<1>5. /\ mem[a].ended /\ up /\ removing = {} /\ (work.why = "quiet" => St(mem, a, k) \in {"corrupt", "held"})
  BY <1>1, <1>2 DEF PInv, WorkInv, PubTypes
<1>6. /\ saved' \in [Attempts -> SUBSET Kinds]
      /\ \A b \in Attempts, j \in Kinds :
            /\ j \in saved'[b] /\ work.why # "quiet" /\ b = a /\ j = k => r = "ok"
            /\ j \in saved'[b] => j \in saved[b] \/ (b = a /\ r = "ok")
  <2>1. CASE work.why = "quiet"
    BY <1>3, <2>1 DEF PInv, PubTypes
  <2>2. CASE work.why # "quiet"
    BY <1>3, <2>2 DEF PInv, PubTypes
  <2> QED BY <2>1, <2>2
<1>7. TablesInv' /\ FilesInv'
  BY <1>1, <1>4, StepTables
<1>8. work' \in WorkRec /\ work'.step = "idle"
  BY <1>1, Constants1
<1>9. PubTypes'
  BY <1>1, <1>4, <1>6, <1>8 DEF PInv, PubTypes, Saves
<1>10. WorkInv'
  BY <1>1, <1>5, <1>8 DEF WorkInv, Writing
<1>11. ASSUME NEW b \in Attempts, NEW j \in Kinds PROVE SyncAt(b, j)' /\ SavedAt(b, j)'
  <2>1. mem'[b].pub[j] = mem[b].pub[j] /\ mem'[b].ended = mem[b].ended
    BY <1>1
  <2>2. SyncAt(b, j)'
    BY <1>1, <1>4, <1>8, <2>1, SyncElsewhere
  <2>3. CASE b # a \/ j # k \/ r = "ok"
    <3>1. work.step = "mark" /\ WorksOn(b, j) => vis' = mem' /\ dur' = mem'
      BY <1>2, <1>4, <2>3 DEF WorksOn
    <3>2. j \in saved'[b] => j \in saved[b] \/ (vis' = mem' /\ dur' = mem' /\ mem'[b].ended)
      BY <1>1, <1>4, <1>5, <1>6
    <3>3. SavedAt(b, j)'
      BY <1>4, <1>5, <2>1, <3>1, <3>2, SavedElsewhere
    <3> QED BY <2>2, <3>3
  <2>4. CASE b = a /\ j = k /\ r # "ok"
    <3>1. SavedAt(b, j)
      BY AtEach DEF PInv
    <3>2. j \in saved'[b] => j \in saved[b] /\ St(mem, a, k) \in {"corrupt", "held"}
      BY <1>5, <1>6, <2>4
    <3>3. SavedAt(b, j)'
      BY <1>1, <1>4, <2>4, <3>1, <3>2 DEF SavedAt, Saves, Doc, St
    <3> QED BY <2>2, <3>3
  <2> QED BY <2>3, <2>4
<1> QED BY <1>7, <1>9, <1>10, <1>11, AtEachNext DEF PInv

\* What Immutable does with the pair it writes into.
LEMMA ImmutableMoves ==
    ASSUME PubTypes, NEW a \in Attempts, NEW k \in Kinds, NEW name \in {"doc", "sig"}, NEW v, NEW r \in {"ok", "lost", "late"}, NEW next,
           NEW q \in Pair, q = [file[a][k] EXCEPT ![name] = v], Immutable(a, k, name, v, r, next)
    PROVE  \/ UNCHANGED <<file, fsync>> /\ SetState(a, k, "pending") /\ Go("mark")
           \/ PairMoved(file, file', a, k, q) /\ fsync' = fsync /\ SetState(a, k, "pending") /\ Go("mark")
           \/ PairMoved(file, file', a, k, q) /\ PairMoved(fsync, fsync', a, k, q) /\ UNCHANGED mem /\ Go(next)
<1>1. CASE r = "lost"
  BY <1>1 DEF Immutable
<1>2. CASE r # "lost"
  <2>1. file' = [file EXCEPT ![a][k] = q]
    BY <1>2 DEF Immutable
  <2>2. PairMoved(file, file', a, k, q)
    BY <2>1, PairMoves DEF PubTypes
  <2>3. file'[a][k] = q
    BY <2>2 DEF PairMoved
  <2>4. CASE r = "late"
    BY <2>2, <2>4 DEF Immutable
  <2>5. CASE r = "ok"
    <3>1. fsync' = [fsync EXCEPT ![a][k] = q]
      BY <2>3, <2>5 DEF Immutable
    <3>2. PairMoved(fsync, fsync', a, k, q)
      BY <3>1, PairMoves DEF PubTypes
    <3> QED BY <2>2, <2>5, <3>2 DEF Immutable
  <2> QED BY <1>2, <2>4, <2>5
<1> QED BY <1>1, <1>2

\* The pair a write leaves: the intent's document, and the signature that was there or the one wanted.
PairDue(a, k, q) ==
    /\ q \in Pair /\ q.doc = Doc(mem, a, k) /\ file[a][k].doc \in {0, Doc(mem, a, k)}
    /\ \/ q.sig = file[a][k].sig
       \/ q.sig = Wanted(a, Doc(mem, a, k)) /\ file[a][k].sig \in {NoSig, Wanted(a, Doc(mem, a, k))}
LEMMA WrittenFiles ==
    ASSUME PInv, NEW a \in Attempts, NEW k \in Kinds, NEW q, PairDue(a, k, q), a = work.at, k = work.kind, work.step \in {"doc", "sig"},
           PairMoved(file, file', a, k, q), PairMoved(fsync, fsync', a, k, q) \/ fsync' = fsync, UNCHANGED <<dur, fact>>
    PROVE  FilesInv'
<1>1. Doc(mem, a, k) # 0 /\ Doc(dur, a, k) = Doc(mem, a, k) /\ (k = "closure" => Seen(a)) /\ Doc(mem, a, k) \in 0 .. MaxDocs
  BY DEF PInv, WorkInv, Writing, TablesInv, EntryTrue, PubTypes, Entry, Publications, Doc
<1>2. q.doc # Foreign /\ (q.sig.key \in Keys => q.sig.key = Policy[a]) /\ (q.sig.key = "foreign" => q.sig = file[a][k].sig)
  <2>1. q.doc # Foreign
    BY <1>1, PublicationAssumption DEF PairDue, Foreign
  <2>2. file[a][k].sig.key \in Keys => file[a][k].sig.key = Policy[a]
    BY DEF PInv, FilesInv, FileTrue
  <2>3. CASE q.sig = file[a][k].sig
    BY <2>1, <2>2, <2>3
  <2>4. CASE q.sig = Wanted(a, Doc(mem, a, k))
    BY <1>1, <2>1, <2>4, KeysDiffer
  <2> QED BY <2>3, <2>4 DEF PairDue
<1>3. "closure" \in Kinds
  BY DEF Kinds
<1>4. ASSUME NEW f, FileTrue(f), NEW g, PairMoved(f, g, a, k, q), NEW b \in Attempts, NEW j \in Kinds
      PROVE  /\ Own(g[b][j].doc) /\ dur[b].here => Doc(dur, b, j) = g[b][j].doc
             /\ g[b][j].sig.key \in Keys => g[b][j].sig.key = Policy[b]
             /\ Own(g[b][j].doc) /\ j = "closure" => Seen(b)
  <2>1. CASE b = a /\ j = k
    <3>1. g[b][j] = q
      BY <1>4, <2>1 DEF PairMoved
    <3> QED BY <1>1, <1>2, <2>1, <3>1 DEF PairDue
  <2>2. CASE b # a \/ j # k
    <3>1. g[b][j] = f[b][j]
      BY <1>4, <2>2 DEF PairMoved
    <3> QED BY <1>4, <3>1 DEF FileTrue
  <2> QED BY <2>1, <2>2
<1>5. FileTrue(file)'
  <2>1. \A b \in Attempts, j \in Kinds :
             /\ Own(file'[b][j].doc) /\ dur[b].here => Doc(dur, b, j) = file'[b][j].doc
             /\ file'[b][j].sig.key \in Keys => file'[b][j].sig.key = Policy[b]
             /\ Own(file'[b][j].doc) /\ j = "closure" => Seen(b)
    BY <1>4 DEF PInv, FilesInv
  <2> QED BY <1>3, <2>1 DEF FileTrue, Doc, Seen
<1>6. FileTrue(fsync)'
  <2>1. CASE fsync' = fsync
    BY <2>1 DEF PInv, FilesInv, FileTrue, Doc, Seen
  <2>2. CASE PairMoved(fsync, fsync', a, k, q)
    <3>1. \A b \in Attempts, j \in Kinds :
             /\ Own(fsync'[b][j].doc) /\ dur[b].here => Doc(dur, b, j) = fsync'[b][j].doc
             /\ fsync'[b][j].sig.key \in Keys => fsync'[b][j].sig.key = Policy[b]
             /\ Own(fsync'[b][j].doc) /\ j = "closure" => Seen(b)
      BY <1>4, <2>2 DEF PInv, FilesInv
    <3> QED BY <1>3, <3>1 DEF FileTrue, Doc, Seen
  <2> QED BY <2>1, <2>2
<1>7. ASSUME NEW b \in Attempts, NEW j \in Kinds
      PROVE  /\ file'[b][j].doc = Foreign => fsync'[b][j].doc = Foreign
             /\ file'[b][j].sig.key = "foreign" => fsync'[b][j].sig.key = "foreign"
  <2>1. CASE b = a /\ j = k
    <3>1. file'[b][j] = q /\ (fsync'[b][j] = q \/ fsync'[b][j] = fsync[b][j])
      BY <2>1 DEF PairMoved
    <3> QED BY <1>2, <2>1, <3>1 DEF PInv, FilesInv
  <2>2. CASE b # a \/ j # k
    <3>1. file'[b][j] = file[b][j] /\ fsync'[b][j] = fsync[b][j]
      BY <2>2 DEF PairMoved
    <3> QED BY <3>1 DEF PInv, FilesInv
  <2> QED BY <2>1, <2>2
<1> QED BY <1>5, <1>6, <1>7 DEF FilesInv

LEMMA SyncAway ==
    ASSUME PInv, NEW b \in Attempts, NEW j \in Kinds, mem'[b].pub[j] = mem[b].pub[j], mem'[b].ended = mem[b].ended,
           file'[b][j] = file[b][j], fsync'[b][j] = fsync[b][j], UNCHANGED <<vis, dur>>,
           work'.step \in {"doc", "sig", "readback"} /\ WorksOn(b, j)' => work.step \in {"doc", "sig", "readback"} /\ WorksOn(b, j)
    PROVE  SyncAt(b, j)'
<1>1. SyncAt(b, j)
  BY AtEach DEF PInv
<1>2. Published(b, j)' => Published(b, j)
  BY DEF Published, St
<1>3. Settled(b, j) => Settled(b, j)'
  BY DEF Settled, St
<1>4. (Whole(fsync, b, j)' <=> Whole(fsync, b, j)) /\ (Whole(file, b, j)' <=> Whole(file, b, j))
  BY DEF Whole
<1> QED BY <1>1, <1>2, <1>3, <1>4 DEF SyncAt

\* A file is written: its publication is pending again if that failed, else the watcher goes on.
LEMMA StepWritten ==
    ASSUME PInv, NEW a \in Attempts, NEW k \in Kinds, NEW q, PairDue(a, k, q), a = work.at, k = work.kind, work.step \in {"doc", "sig"},
           PairMoved(file, file', a, k, q), UNCHANGED <<up, vis, dur, saved, signer, fact, docs, removing>>,
           \/ fsync' = fsync /\ SetState(a, k, "pending") /\ Go("mark")
           \/ PairMoved(fsync, fsync', a, k, q) /\ UNCHANGED mem
              /\ \/ Go("sig") /\ Signed(a) /\ q.sig = file[a][k].sig
                 \/ Go("readback") /\ (Signed(a) => q.sig # NoSig)
    PROVE  PInv'
<1>1. FilesInv'
  BY WrittenFiles
<1>2. Writing /\ PubTypes /\ mem[a].ended /\ up /\ removing = {} /\ work.why # "quiet" /\ Doc(mem, a, k) # 0 /\ Doc(dur, a, k) = Doc(mem, a, k) /\ St(mem, a, k) # "corrupt"
  BY DEF PInv, WorkInv, Writing, PubTypes
<1>3. {"mark", "sig", "readback"} \subseteq Steps /\ "pending" \in States
  BY DEF Steps, States
<1>4. PICK p \in Publications : p.doc = Doc(mem, a, k) /\ PubMoved(a, k, p) /\ (p.state = "pending" \/ mem' = mem)
  <2>1. CASE SetState(a, k, "pending")
    <3>1. \E p \in Publications : p.state = "pending" /\ p.doc = Doc(mem, a, k) /\ PubMoved(a, k, p)
      BY <1>2, <1>3, <2>1, StateSets
    <3> QED BY <3>1
  <2>2. CASE UNCHANGED mem
    <3>1. PICK p \in Publications : p = mem[a].pub[k]
      BY <1>2 DEF PubTypes, Entry
    <3> QED BY <1>2, <2>2, <3>1 DEF PubMoved, PubTypes, Doc
  <2> QED BY <2>1, <2>2
<1>5. /\ work' \in WorkRec /\ work'.at = a /\ work'.kind = k /\ work'.why # "quiet"
      /\ \/ work'.step = "mark" /\ fsync' = fsync
         \/ /\ mem' = mem /\ PairMoved(fsync, fsync', a, k, q)
            /\ \/ work'.step = "sig" /\ Signed(a) /\ q.sig = file[a][k].sig
               \/ work'.step = "readback" /\ (Signed(a) => q.sig # NoSig)
  <2>1. CASE fsync' = fsync /\ Go("mark")
    BY <1>2, <1>3, <2>1, WorkGoes
  <2>2. CASE PairMoved(fsync, fsync', a, k, q) /\ UNCHANGED mem /\ Go("sig") /\ Signed(a) /\ q.sig = file[a][k].sig
    BY <1>2, <1>3, <2>2, WorkGoes
  <2>3. CASE PairMoved(fsync, fsync', a, k, q) /\ UNCHANGED mem /\ Go("readback") /\ (Signed(a) => q.sig # NoSig)
    BY <1>2, <1>3, <2>3, WorkGoes
  <2> QED BY <2>1, <2>2, <2>3
<1>6. p.state = "published" => p.doc # 0
  BY <1>2, <1>4
<1>7. SeenStays /\ TablesInv'
  BY <1>2, <1>4, <1>6, MovedTables
<1>8. PubTypes'
  BY <1>4, <1>5 DEF PInv, PubTypes, PubMoved, PairMoved
<1>9. WorkInv'
  <2>1. mem'[a].ended /\ Doc(mem', a, k) = Doc(mem, a, k)
    BY <1>2, <1>4 DEF PubMoved, Doc
  <2>2. CASE work'.step = "mark"
    BY <1>2, <1>5, <2>1, <2>2 DEF WorkInv, Writing
  <2>3. CASE work'.step \in {"sig", "readback"}
    <3>1. file'[a][k] = q /\ fsync'[a][k] = q /\ q.doc = Doc(mem, a, k) /\ mem' = mem
      BY <1>5, <2>3 DEF PairMoved, PairDue
    <3>2. work'.step = "sig" /\ signer # Policy[a] => q.sig = Wanted(a, Doc(mem, a, k))
      BY <1>5 DEF PInv, WorkInv
    <3> QED BY <1>2, <1>5, <2>1, <2>3, <3>1, <3>2 DEF WorkInv, Writing, Doc, St
  <2> QED BY <1>5, <2>2, <2>3
<1>10. ASSUME NEW b \in Attempts, NEW j \in Kinds PROVE SyncAt(b, j)' /\ SavedAt(b, j)'
  <2>1. mem'[b].ended = mem[b].ended
    BY <1>4 DEF PubMoved
  <2>2. CASE b # a \/ j # k
    <3>1. mem'[b].pub[j] = mem[b].pub[j] /\ file'[b][j] = file[b][j] /\ fsync'[b][j] = fsync[b][j]
      BY <1>4, <2>2 DEF PubMoved, PairMoved
    <3>2. ~WorksOn(b, j)' /\ work.step # "mark"
      BY <1>5, <2>2 DEF WorksOn
    <3>3. SyncAt(b, j)'
      BY <2>1, <3>1, <3>2, SyncAway
    <3>4. SavedAt(b, j)'
      BY <1>2, <2>1, <3>1, <3>2, SavedElsewhere
    <3> QED BY <3>3, <3>4
  <2>3. CASE b = a /\ j = k
    <3>1. SyncAt(a, k) /\ SavedAt(a, k)
      BY AtEach DEF PInv
    <3>2. SavedAt(a, k)'
      <4>1. CASE mem' = mem
        BY <3>1, <4>1 DEF SavedAt, Doc, St
      <4>2. CASE p.state = "pending"
        <5>1. St(mem', a, k) = "pending" /\ Doc(mem', a, k) = Doc(mem, a, k) /\ mem'[a].ended = mem[a].ended
          BY <1>4, <4>2 DEF PubMoved, St, Doc
        <5> QED BY <3>1, <5>1 DEF SavedAt, Doc
      <4> QED BY <1>4, <4>1, <4>2
    <3>3. Published(a, k)' => Published(a, k)
      <4>1. St(mem', a, k) \in {"pending", St(mem, a, k)}
        BY <1>4 DEF PubMoved, St
      <4> QED BY <4>1 DEF Published, St
    <3>4. SUFFICES ASSUME Published(a, k) PROVE Whole(fsync, a, k)' /\ Whole(file, a, k)'
      BY <2>3, <3>2, <3>3 DEF SyncAt
    <3>5. Whole(file, a, k) /\ Whole(fsync, a, k)
      BY <3>1, <3>4 DEF SyncAt, Settled, WorksOn, Whole
    <3>6. Own(q.doc) /\ (Signed(a) => q.sig # NoSig)
      <4>1. Own(q.doc) /\ Doc(mem, a, k) \in 0 .. MaxDocs
        BY <1>2, OwnDoc DEF PairDue, PubTypes, Entry, Publications, Doc
      <4> QED BY <3>5, <4>1, KeysDiffer DEF PairDue, Whole
    <3>7. file'[a][k] = q /\ fsync'[a][k] \in {q, fsync[a][k]}
      BY <1>5 DEF PairMoved
    <3> QED BY <3>5, <3>6, <3>7 DEF Whole
  <2> QED BY <2>2, <2>3
<1> QED BY <1>1, <1>7, <1>8, <1>9, <1>10, AtEachNext DEF PInv

LEMMA GivenIsWanted ==
    ASSUME PInv, NEW a \in Attempts, NEW k \in Kinds, work.step \in {"doc", "sig"}, a = work.at, k = work.kind
    PROVE  Given(a, k) = Wanted(a, Doc(mem, a, k))
<1>1. CASE ~Signed(a)
  BY <1>1 DEF Given, Wanted
<1>2. CASE Signed(a) /\ Verdict(a, k) = "ok"
  BY <1>2, VerdictSays DEF Given
<1>3. CASE Signed(a) /\ Verdict(a, k) # "ok"
  <2>1. Doc(mem, a, k) # 0
    BY DEF PInv, WorkInv, Writing
  <2>2. signer = Policy[a]
    BY <1>3, <2>1, VerdictSays DEF PInv, WorkInv
  <2> QED BY <1>3, <2>2 DEF Given, Wanted, Pub, Doc
<1> QED BY <1>1, <1>2, <1>3

\* publishPair finds other bytes, fails, or leaves the pair that is due.
Publishes(a, k) ==
    \/ UNCHANGED <<file, fsync>> /\ Go("mark") /\ (SetState(a, k, "corrupt") \/ SetState(a, k, "pending"))
    \/ \E q : /\ PairDue(a, k, q) /\ PairMoved(file, file', a, k, q)
              /\ \/ fsync' = fsync /\ SetState(a, k, "pending") /\ Go("mark")
                 \/ PairMoved(fsync, fsync', a, k, q) /\ UNCHANGED mem
                    /\ \/ Go("sig") /\ Signed(a) /\ q.sig = file[a][k].sig
                       \/ Go("readback") /\ (Signed(a) => q.sig # NoSig)

LEMMA DocPublishes ==
    ASSUME PInv, NEW a \in Attempts, NEW k \in Kinds, a = work.at, k = work.kind, PublishDoc PROVE Publishes(a, k)
<1>1. work.step = "doc" /\ PubTypes
  BY DEF PublishDoc, PInv
<1>2. CASE (file[a][k].doc \notin {0, Pub(a, k).doc}) \/ (file[a][k].sig \notin {NoSig, Given(a, k)})
  BY <1>2 DEF PublishDoc, Publishes
<1>3. CASE ~((file[a][k].doc \notin {0, Pub(a, k).doc}) \/ (file[a][k].sig \notin {NoSig, Given(a, k)}))
  <2>1. PICK r \in Outcomes : Immutable(a, k, "doc", Pub(a, k).doc, r, IF Signed(a) THEN "sig" ELSE "readback")
    BY <1>3 DEF PublishDoc
  <2>2. r \in {"ok", "lost", "late"}
    BY DEF Outcomes
  <2>3. PICK d \in Pair : d = file[a][k]
    BY <1>1 DEF PubTypes, Pairs
  <2>4. PICK n \in 0 .. MaxDocs : n = Doc(mem, a, k)
    BY <1>1 DEF PubTypes, Entry, Publications, Doc
  <2>5. PICK q : q = [d EXCEPT !.doc = n]
    OBVIOUS
  <2>6. q \in Pair /\ q.doc = n /\ q.sig = d.sig
    BY <2>5, PublicationAssumption DEF Pair, Foreign
  <2>7. q = [file[a][k] EXCEPT !["doc"] = Pub(a, k).doc]
    BY <2>3, <2>4, <2>5 DEF Pub, Doc
  <2>8. PairDue(a, k, q)
    BY <1>3, <2>3, <2>4, <2>6 DEF PairDue, Pub, Doc
  <2>9. \/ UNCHANGED <<file, fsync>> /\ SetState(a, k, "pending") /\ Go("mark")
        \/ PairMoved(file, file', a, k, q) /\ fsync' = fsync /\ SetState(a, k, "pending") /\ Go("mark")
        \/ PairMoved(file, file', a, k, q) /\ PairMoved(fsync, fsync', a, k, q) /\ UNCHANGED mem /\ Go(IF Signed(a) THEN "sig" ELSE "readback")
    BY <1>1, <2>1, <2>2, <2>6, <2>7, ImmutableMoves
  <2>10. CASE Signed(a)
    BY <2>3, <2>6, <2>8, <2>9, <2>10 DEF Publishes
  <2>11. CASE ~Signed(a)
    BY <2>8, <2>9, <2>11 DEF Publishes
  <2> QED BY <2>10, <2>11
<1> QED BY <1>2, <1>3

LEMMA SigPublishes ==
    ASSUME PInv, NEW a \in Attempts, NEW k \in Kinds, a = work.at, k = work.kind, PublishSig PROVE Publishes(a, k)
<1>1. work.step = "sig" /\ PubTypes
  BY DEF PublishSig, PInv
<1>2. CASE file[a][k].sig \notin {NoSig, Given(a, k)}
  BY <1>2 DEF PublishSig, Publishes
<1>3. CASE ~(file[a][k].sig \notin {NoSig, Given(a, k)})
  <2>1. PICK r \in Outcomes : Immutable(a, k, "sig", Given(a, k), r, "readback")
    BY <1>3 DEF PublishSig
  <2>2. r \in {"ok", "lost", "late"}
    BY DEF Outcomes
  <2>3. PICK d \in Pair : d = file[a][k]
    BY <1>1 DEF PubTypes, Pairs
  <2>4. Doc(mem, a, k) \in 0 .. MaxDocs /\ d.doc = Doc(mem, a, k) /\ Signed(a)
    BY <1>1, <2>3 DEF PubTypes, Entry, Publications, Doc, PInv, WorkInv
  <2>5. PICK w \in Sig : w = Wanted(a, Doc(mem, a, k)) /\ w = Given(a, k) /\ w # NoSig
    BY <1>1, <2>4, GivenIsWanted, KeysDiffer
  <2>6. PICK q : q = [d EXCEPT !.sig = w]
    OBVIOUS
  <2>7. q \in Pair /\ q.doc = d.doc /\ q.sig = w
    BY <2>6 DEF Pair
  <2>8. q = [file[a][k] EXCEPT !["sig"] = Given(a, k)]
    BY <2>3, <2>5, <2>6
  <2>9. PairDue(a, k, q)
    BY <1>3, <2>3, <2>4, <2>5, <2>7 DEF PairDue
  <2>10. \/ UNCHANGED <<file, fsync>> /\ SetState(a, k, "pending") /\ Go("mark")
         \/ PairMoved(file, file', a, k, q) /\ fsync' = fsync /\ SetState(a, k, "pending") /\ Go("mark")
         \/ PairMoved(file, file', a, k, q) /\ PairMoved(fsync, fsync', a, k, q) /\ UNCHANGED mem /\ Go("readback")
    BY <1>1, <2>1, <2>2, <2>7, <2>8, ImmutableMoves
  <2> QED BY <2>5, <2>7, <2>9, <2>10 DEF Publishes
<1> QED BY <1>2, <1>3

LEMMA StepPublishes == ASSUME PInv, PublishDoc \/ PublishSig PROVE PInv'
<1>1. UNCHANGED <<up, vis, dur, saved, signer, fact, docs, removing>> /\ work.step \in {"doc", "sig"}
  BY DEF PublishDoc, PublishSig
<1>2. PICK a \in Attempts, k \in Kinds : a = work.at /\ k = work.kind
  BY <1>1 DEF PInv, PubTypes, WorkRec
<1>3. Publishes(a, k)
  BY <1>2, DocPublishes, SigPublishes
<1>4. PubTypes /\ Writing /\ work.why # "quiet" /\ "mark" \in Steps
  BY <1>1 DEF PInv, WorkInv, Writing, Steps
<1>5. ASSUME NEW st \in {"corrupt", "pending"}, UNCHANGED <<file, fsync>>, Go("mark"), SetState(a, k, st) PROVE PInv'
  <2>1. st \in States
    BY DEF States
  <2>2. work' \in WorkRec /\ work'.step = "mark" /\ work'.at = a /\ work'.kind = k /\ work'.why # "quiet"
    BY <1>2, <1>4, <1>5, WorkGoes
  <2>3. \E p \in Publications : p.state = st /\ p.doc = Doc(mem, a, k) /\ PubMoved(a, k, p)
    BY <1>4, <1>5, <2>1, StateSets
  <2>4. MarkedAs(a, k, st)
    BY <1>1, <1>5, <2>2, <2>3 DEF MarkedAs
  <2>5. Published(a, k) => Whole(file, a, k)
    BY <1>1, <1>2 DEF PInv, SyncInv, Settled, WorksOn
  <2> QED BY <1>2, <1>4, <2>1, <2>4, <2>5, StepMarked
<1>6. CASE UNCHANGED <<file, fsync>> /\ Go("mark") /\ (SetState(a, k, "corrupt") \/ SetState(a, k, "pending"))
  BY <1>5, <1>6
<1>7. ASSUME NEW q, PairDue(a, k, q), PairMoved(file, file', a, k, q),
             \/ fsync' = fsync /\ SetState(a, k, "pending") /\ Go("mark")
             \/ PairMoved(fsync, fsync', a, k, q) /\ UNCHANGED mem
                    /\ \/ Go("sig") /\ Signed(a) /\ q.sig = file[a][k].sig
                       \/ Go("readback") /\ (Signed(a) => q.sig # NoSig)
      PROVE  PInv'
  BY <1>1, <1>2, <1>7, StepWritten
<1> QED BY <1>3, <1>6, <1>7 DEF Publishes

LEMMA StartHolds == ASSUME Init PROVE PInv
<1> USE DEF Init
<1>1. /\ mem = [a \in Attempts |-> Admitted] /\ vis = mem /\ dur = mem /\ saved = [a \in Attempts |-> {}] /\ work = NoWork
      /\ file = [a \in Attempts |-> [k \in Kinds |-> NoPair]] /\ fsync = file /\ removing = {} /\ up = TRUE
  OBVIOUS
<1>2. \A a \in Attempts : mem[a] = Admitted
  OBVIOUS
<1>3. \A a \in Attempts, k \in Kinds : file[a][k] = NoPair
  OBVIOUS
<1>4. PubTypes
  <2>1. mem \in [Attempts -> Entry] /\ file \in Pairs
    BY Constants1 DEF Pairs
  <2>2. fact \in [Attempts -> Facts] /\ docs \in [Attempts -> [Kinds -> 0 .. MaxDocs]]
    BY PublicationAssumption DEF Facts
  <2> QED BY <1>1, <2>1, <2>2, Constants1 DEF PubTypes
<1>5. TablesInv
  BY <1>1, <1>2, Constants1 DEF TablesInv, EntryTrue, Follows, Doc, St, Kinds
<1>6. FilesInv
  BY <1>1, <1>3, Constants1, KeysDiffer DEF FilesInv, FileTrue, Own, Kinds
<1>7. SavedInv /\ WorkInv
  BY <1>1, Constants1 DEF SavedInv, WorkInv, Writing
<1>8. SyncInv
  BY <1>1, <1>2, Constants1 DEF SyncInv, Published, St
<1> QED BY <1>4, <1>5, <1>6, <1>7, <1>8 DEF PInv

LEMMA StepHolds == ASSUME PInv, [Next]_vars PROVE PInv'
<1>1. CASE Watcher
  BY <1>1, StepDecide, StepPublishes, StepReadback, StepMark, StepHoldClosure, StepFreezeClosure, StepPickResult, StepObserveClosure DEF Watcher
<1>2. CASE Crash \/ Restart
  BY <1>2, StepCrash, StepRestart
<1>3. CASE \E a \in Attempts : \/ End(a) \/ RemoveRecord(a) \/ RemoveEntry(a) \/ Depart(a)
                               \/ \E k \in Kinds : Tamper(a, k)
  BY <1>3, StepEnd, StepRemoveRecord, StepRemoveEntry, StepDepart, StepTamper
<1>4. CASE UNCHANGED vars
  <2>1. UNCHANGED <<up, mem, vis, dur, saved, file, fsync, signer, fact, docs, work, removing>>
    BY <1>4 DEF vars
  <2>2. PubTypes' /\ TablesInv' /\ FilesInv'
    BY <2>1, StepTables DEF PInv, PubTypes
  <2>3. WorkInv'
    BY <2>1 DEF PInv, WorkInv, Writing, Doc, St, Seen
  <2>4. SavedInv' /\ SyncInv'
    BY <2>1 DEF PInv, SavedInv, SyncInv, Published, Settled, Whole, WorksOn, Doc, St
  <2> QED BY <2>2, <2>3, <2>4 DEF PInv
<1> QED BY <1>1, <1>2, <1>3, <1>4 DEF Next

LEMMA Holds == Spec => []PInv
<1>1. Init => PInv
  BY StartHolds
<1>2. PInv /\ [Next]_vars => PInv'
  BY StepHolds
<1> QED BY <1>1, <1>2, PTL DEF Spec

(*********************************** theorems ***************************************)
\* What can be read under a result's or a closure's name and is the manager's is the document that
\* the surviving table froze (freezeResult, recoverClosures, before publishPair); it carries no
\* signature but one by the key of the admission, whichever keys the managers since then had; and a
\* closure's speaks of an acknowledged, observed end.  With every fault of the disk, deaths of the
\* manager, power losses and foreign files.
THEOREM PublishedIsTrue == Spec => []PublishedTrue
<1>1. ASSUME PInv PROVE PublishedTrue
  <2>1. PublishedIsFrozen /\ SignedByAdmission
    BY <1>1 DEF PInv, FilesInv, FileTrue, PublishedIsFrozen, SignedByAdmission, Doc
  <2>2. ASSUME NEW a \in Attempts, Own(file[a]["closure"].doc) PROVE fact[a] = [ack |-> "yes", gone |-> TRUE]
    <3>1. Seen(a)
      BY <1>1, <2>2 DEF PInv, FilesInv, FileTrue, Kinds
    <3>2. PICK d \in Facts : d = fact[a]
      BY <1>1 DEF PInv, PubTypes
    <3> QED BY <3>1, <3>2 DEF Seen, Facts
  <2> QED BY <2>1, <2>2 DEF PublishedTrue, ClosureTrue
<1> QED BY <1>1, Holds, PTL

\* A publication that the table acknowledges after a power loss is on disk after it, document and
\* signature, unless its record was removed (recoverResults marks only after both syncs and the
\* readback).
THEOREM AcknowledgedSurvives == Spec => []AcknowledgedIsSynced
<1>1. ASSUME PInv PROVE AcknowledgedIsSynced
  <2> SUFFICES ASSUME NEW a \in Attempts, NEW k \in Kinds, dur[a].pub[k].state = "published", Own(file[a][k].doc)
               PROVE  fsync[a][k].doc = dur[a].pub[k].doc /\ (Signed(a) => fsync[a][k].sig # NoSig)
    BY DEF AcknowledgedIsSynced
  <2>1. Published(a, k)
    BY DEF Published, St
  <2>2. Whole(fsync, a, k)
    BY <1>1, <2>1 DEF PInv, SyncInv
  <2>3. dur[a].here
    BY <1>1 DEF PInv, TablesInv, EntryTrue, St
  <2> QED BY <1>1, <2>2, <2>3 DEF PInv, FilesInv, FileTrue, Whole, Doc
<1> QED BY <1>1, Holds, PTL

\* What one step keeps: a record that leaves is resolved, foreign bytes stay, a given-up closure is final.
RecordStays ==
    \A a \in Attempts : (removing = {} /\ removing' = {a}) =>
        /\ dur[a].pub["result"].state = "published"
        /\ dur[a].pub["closure"].state \in {"published", "unavailable"}
ForeignStays ==
    \A a \in Attempts, k \in Kinds : removing' = removing =>
        /\ file[a][k].doc = Foreign => file'[a][k].doc = Foreign
        /\ file[a][k].sig.key = "foreign" => file'[a][k].sig.key = "foreign"
UnavailableStays ==
    \A a \in Attempts :
        (up /\ LockFree /\ "closure" \in saved[a] /\ Pub(a, "closure").state = "unavailable" /\ mem'[a].here)
            => mem'[a].pub["closure"].state = "unavailable"

LEMMA RecordsStay == ASSUME PInv, Next PROVE RecordStays
<1>1. SUFFICES ASSUME NEW a \in Attempts, removing = {}, removing' = {a}
               PROVE  dur[a].pub["result"].state = "published" /\ dur[a].pub["closure"].state \in {"published", "unavailable"}
  BY DEF RecordStays
<1>2. removing' # removing
  BY <1>1
<1>3. ~Watcher
  BY <1>2 DEF Watcher, Decide, PublishDoc, PublishSig, Readback, Mark, HoldClosure, FreezeClosure, PickResult, ObserveClosure
<1>4. ~Crash /\ ~Restart
  BY <1>1, <1>2 DEF Crash, Restart
<1>5. \A b \in Attempts : ~End(b) /\ ~RemoveEntry(b) /\ ~Depart(b) /\ \A k \in Kinds : ~Tamper(b, k)
  BY <1>1, <1>2 DEF End, RemoveEntry, Depart, Tamper
<1>6. PICK b \in Attempts : RemoveRecord(b)
  BY <1>3, <1>4, <1>5 DEF Next
<1>7. b = a /\ Disposable(a) /\ up /\ LockFree
  BY <1>1, <1>6 DEF RemoveRecord
<1> QED BY <1>7, Disposes DEF St

LEMMA ForeignsStay == ASSUME PInv, Next PROVE ForeignStays
<1>1. SUFFICES ASSUME NEW a \in Attempts, NEW k \in Kinds, removing' = removing, file' # file
               PROVE  /\ file[a][k].doc = Foreign => file'[a][k].doc = Foreign
                      /\ file[a][k].sig.key = "foreign" => file'[a][k].sig.key = "foreign"
  BY DEF ForeignStays
<1>2. CASE PublishDoc \/ PublishSig
  <2>1. work.step \in {"doc", "sig"}
    BY <1>2 DEF PublishDoc, PublishSig
  <2>2. PICK b \in Attempts, j \in Kinds : b = work.at /\ j = work.kind
    BY <2>1 DEF PInv, PubTypes, WorkRec
  <2>3. Publishes(b, j)
    BY <1>2, <2>2, DocPublishes, SigPublishes
  <2>4. PICK q : PairDue(b, j, q) /\ PairMoved(file, file', b, j, q)
    BY <1>1, <2>3 DEF Publishes
  <2>5. CASE b # a \/ j # k
    BY <2>4, <2>5 DEF PairMoved
  <2>6. CASE b = a /\ j = k
    <3>1. Doc(mem, a, k) \in 0 .. MaxDocs
      BY DEF PInv, PubTypes, Entry, Publications, Doc
    <3>2. file[a][k].doc # Foreign
      BY <2>4, <2>6, <3>1, PublicationAssumption DEF PairDue, Foreign
    <3>3. file[a][k].sig.key = "foreign" => q.sig = file[a][k].sig
      BY <2>4, <2>6, <3>1, KeysDiffer, Constants1 DEF PairDue
    <3>4. file'[a][k] = q
      BY <2>4, <2>6 DEF PairMoved
    <3> QED BY <3>2, <3>3, <3>4
  <2> QED BY <2>5, <2>6
<1>3. CASE Crash
  BY <1>1, <1>3 DEF Crash, PInv, FilesInv
<1>4. ASSUME NEW b \in Attempts, NEW j \in Kinds, Tamper(b, j)
      PROVE  /\ file[a][k].doc = Foreign => file'[a][k].doc = Foreign
             /\ file[a][k].sig.key = "foreign" => file'[a][k].sig.key = "foreign"
  <2>1. \E p \in Pair :
             /\ PairMoved(file, file', b, j, p) /\ PairMoved(fsync, fsync', b, j, p)
             /\ \/ p.doc = Foreign /\ p.sig = file[b][j].sig /\ file[b][j].doc = 0
                \/ p.doc = file[b][j].doc /\ p.sig.key = "foreign" /\ file[b][j].sig = NoSig
    BY <1>4, TamperMoves DEF PInv
  <2>2. PICK p \in Pair : PairMoved(file, file', b, j, p) /\ (p.doc = Foreign \/ p.doc = file[b][j].doc) /\ (p.sig = file[b][j].sig \/ p.sig.key = "foreign")
    BY <2>1
  <2> QED BY <2>2 DEF PairMoved
<1>5. ASSUME NEW b \in Attempts PROVE ~RemoveRecord(b) /\ ~RemoveEntry(b) /\ ~End(b) /\ ~Depart(b) /\ ~PickResult(b) /\ ~ObserveClosure(b)
  BY <1>1 DEF RemoveRecord, RemoveEntry, End, Depart, PickResult, ObserveClosure, LockFree
<1>6. ~Restart /\ ~Decide /\ ~Readback /\ ~Mark /\ ~HoldClosure /\ ~FreezeClosure
  BY <1>1 DEF Restart, Decide, Readback, Mark, HoldClosure, FreezeClosure
<1> QED BY <1>2, <1>3, <1>4, <1>5, <1>6 DEF Next, Watcher

LEMMA UnavailablesStay == ASSUME PInv, Next PROVE UnavailableStays
<1>1. SUFFICES ASSUME NEW a \in Attempts, up, LockFree, "closure" \in saved[a], St(mem, a, "closure") = "unavailable", mem' # mem
               PROVE  mem'[a].pub["closure"].state = "unavailable"
  BY DEF UnavailableStays, Pub, St
<1>2. work.step \in {"idle", "observed"} /\ removing = {} /\ "closure" \in Kinds
  BY <1>1 DEF LockFree, Kinds
<1>3. work.step = "observed" => work.at # a
  BY <1>1 DEF PInv, WorkInv
<1>4. ASSUME NEW b \in Attempts, b # a, NEW p, PubMoved(b, "closure", p) PROVE mem'[a].pub["closure"].state = "unavailable"
  BY <1>1, <1>2, <1>4 DEF PubMoved, St
<1>5. CASE HoldClosure
  <2>1. work.step = "observed"
    BY <1>5 DEF HoldClosure
  <2>2. PICK p \in Publications : PubMoved(work.at, "closure", p)
    BY <1>1, <1>5, HoldMoves
  <2>3. work.at \in Attempts
    BY <2>1 DEF PInv, PubTypes
  <2> QED BY <1>3, <1>4, <2>1, <2>2, <2>3
<1>6. CASE FreezeClosure
  <2>1. work.step = "observed"
    BY <1>6 DEF FreezeClosure
  <2>2. PICK b \in Attempts : b = work.at
    BY <2>1 DEF PInv, PubTypes
  <2>3. \E p \in Publications :
             /\ PubMoved(b, "closure", p) /\ p.doc # 0 /\ docs' \in [Attempts -> [Kinds -> 0 .. MaxDocs]]
             /\ \/ p = mem[b].pub["closure"] /\ mem' = mem
                \/ Doc(mem, b, "closure") = 0 /\ work.why = "ok" /\ p.state = "pending"
    BY <1>6, <2>2, FreezeMoves
  <2> QED BY <1>3, <1>4, <2>1, <2>2, <2>3
<1>7. ASSUME NEW b \in Attempts, End(b) PROVE mem'[a].pub["closure"].state = "unavailable"
  <2>1. PICK p \in Publications : Ended(b, p)
    BY <1>7, EndMoves DEF PInv
  <2> QED BY <1>1, <1>2, <2>1 DEF Ended, St
<1>8. ASSUME NEW b \in Attempts PROVE ~RemoveRecord(b) /\ ~RemoveEntry(b) /\ ~Depart(b) /\ ~PickResult(b) /\ ~ObserveClosure(b) /\ \A k \in Kinds : ~Tamper(b, k)
  BY <1>1, <1>2 DEF RemoveRecord, RemoveEntry, Depart, PickResult, ObserveClosure, Tamper
<1>9. ~Restart /\ ~Decide /\ ~Readback /\ ~Mark /\ ~PublishDoc /\ ~PublishSig /\ ~Crash
  BY <1>1, <1>2 DEF Restart, Decide, Readback, Mark, PublishDoc, PublishSig, Crash
<1> QED BY <1>5, <1>6, <1>7, <1>8, <1>9 DEF Next, Watcher

\* Evidence is not given up: removeLocked removes a record only when result and closure are
\* resolved in the table that survives a power loss; bytes the manager did not write stay as they
\* were found, through every recovery and every power loss; and a closure that was answered
\* unavailable never becomes a proof.
THEOREM EvidenceIsKept == Spec => EvidenceKept
<1>1. ASSUME PInv, [Next]_vars PROVE [RecordStays]_vars /\ [ForeignStays]_vars /\ [UnavailableStays]_vars
  BY <1>1, RecordsStay, ForeignsStay, UnavailablesStay
<1>2. Spec => [][RecordStays]_vars /\ [][ForeignStays]_vars /\ [][UnavailableStays]_vars
  BY <1>1, Holds, PTL DEF Spec
<1> QED BY <1>2 DEF EvidenceKept, RecordKept, ForeignKept, UnavailableFinal, RecordStays, ForeignStays, UnavailableStays
=============================================================================

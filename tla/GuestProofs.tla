---------------------------- MODULE GuestProofs -----------------------------
(* Proofs about the protocols at a guest's edge. The components share no variable, so  *)
(* each has an inductive invariant of its own, which every step of the composition      *)
(* keeps: its own steps by the component's lemma, the others by leaving it alone.       *)
EXTENDS MCGuests, FiniteSetTheorems, SequenceTheorems, TLAPS

(****************************** the provider's fence *********************************)
ClaimRec == [phase : Phases, binding : Bindings \cup {NoBinding},
          inc : Incarnations \cup {NoIncarnation}, token : BOOLEAN]

FenceState == [inc : Incarnations \cup {NoIncarnation}, retired : SUBSET Incarnations, recs : [Ids -> ClaimRec]]

FenceVarsOK ==
    /\ fence \in FenceState /\ firsts \in [Ids -> Nat]
    /\ handle \in [Handles -> Incarnations \cup {NoIncarnation}]

\* What a saved state must say of the identities callers were told about.
Remembers(st, i) ==
    /\ firsts[i] <= 1 /\ (firsts[i] = 1 => st.recs[i].phase \in {"STARTING", "UNKNOWN"})
    /\ i \in abandoned => st.recs[i].phase = "ABANDONED"

FenceInv == FenceVarsOK /\ \A i \in Ids : Remembers(fence, i)

LEMMA SweptRemembers ==
    ASSUME FenceInv
    PROVE  /\ Swept(fence) \in FenceState
           /\ \A i \in Ids : /\ Remembers(Swept(fence), i)
                             /\ Swept(fence).recs[i].phase # "RESERVED" \/ fence.recs[i].phase = "RESERVED"
                             /\ Swept(fence).recs[i].phase # "none" \/ fence.recs[i].phase = "none"
<1>0. fence \in FenceState
  BY DEF FenceInv, FenceVarsOK
<1>1. ASSUME NEW c \in ClaimRec
      PROVE  /\ [c EXCEPT !.phase = "EXPIRED", !.token = FALSE] \in ClaimRec
             /\ [c EXCEPT !.phase = "EXPIRED", !.token = FALSE].phase = "EXPIRED"
  BY DEF ClaimRec, Phases
<1>2. \A i \in Ids : fence.recs[i] \in ClaimRec
  BY <1>0 DEF FenceState
<1> DEFINE recs == [i \in Ids |-> IF i \in due /\ fence.recs[i].phase = "RESERVED"
                      THEN [fence.recs[i] EXCEPT !.phase = "EXPIRED", !.token = FALSE] ELSE fence.recs[i]]
<1>3. recs \in [Ids -> ClaimRec]
  BY <1>1, <1>2
<1>4. \A i \in Ids : recs[i] = fence.recs[i] \/ (fence.recs[i].phase = "RESERVED" /\ recs[i].phase = "EXPIRED")
  BY <1>1, <1>2
<1> HIDE DEF recs
<1>5. Swept(fence) = [fence EXCEPT !.recs = recs]
  BY DEF Swept, recs
<1>6. Swept(fence) \in FenceState /\ Swept(fence).recs = recs
  BY <1>0, <1>3, <1>5 DEF FenceState
<1> QED BY <1>4, <1>6 DEF FenceInv, Remembers

\* A state a save may leave, and what callers are told when it succeeds.
LEMMA SavedRemembers ==
    ASSUME FenceInv, NEW new \in FenceState, NEW ok \in BOOLEAN, Saved(new, ok),
           firsts' \in [Ids -> Nat], handle' \in [Handles -> Incarnations \cup {NoIncarnation}],
           ~ok => UNCHANGED <<firsts, abandoned>>,
           \A i \in Ids : Remembers(new, i), ok => \A i \in Ids : Remembers(new, i)'
    PROVE  FenceInv'
<1>1. CASE ok
  <2>1. fence' = new
    BY <1>1 DEF Saved
  <2> QED BY <1>1, <2>1 DEF FenceInv, FenceVarsOK, Remembers
<1>2. CASE ~ok
  <2>1. fence' \in {fence, new}
    BY <1>2 DEF Saved
  <2> QED BY <1>2, <2>1 DEF FenceInv, FenceVarsOK, Remembers
<1> QED BY <1>1, <1>2

\* A save by an operation that tells its caller nothing of a start or an abandonment.
LEMMA QuietSave ==
    ASSUME FenceInv, NEW new \in FenceState, NEW ok \in BOOLEAN, Saved(new, ok),
           UNCHANGED <<firsts, abandoned>>, handle' \in [Handles -> Incarnations \cup {NoIncarnation}],
           \A i \in Ids : Remembers(new, i)
    PROVE  FenceInv'
<1>1. fence' \in {fence, new}
  BY DEF Saved
<1> QED BY <1>1 DEF FenceInv, FenceVarsOK, Remembers

LEMMA OpenKeepsFence ==
    ASSUME FenceInv, NEW h \in Handles, NEW inc \in Incarnations, OpenFence(h, inc)
    PROVE  FenceInv'
<1> DEFINE st   == Swept(fence)
           recs == [i \in Ids |-> CASE st.recs[i].phase = "RESERVED" -> [st.recs[i] EXCEPT !.phase = "EXPIRED", !.token = FALSE]
                                    [] st.recs[i].phase = "STARTING" -> [st.recs[i] EXCEPT !.phase = "UNKNOWN"]
                                    [] OTHER -> st.recs[i]]
           next == [inc |-> inc, retired |-> st.retired \cup ({st.inc} \ {NoIncarnation}), recs |-> recs]
<1>1. st \in FenceState /\ \A i \in Ids : Remembers(st, i)
  BY SweptRemembers
<1> HIDE DEF st
<1>2. ASSUME NEW c \in ClaimRec
      PROVE  /\ [c EXCEPT !.phase = "EXPIRED", !.token = FALSE] \in ClaimRec
             /\ [c EXCEPT !.phase = "EXPIRED", !.token = FALSE].phase = "EXPIRED"
             /\ [c EXCEPT !.phase = "UNKNOWN"] \in ClaimRec /\ [c EXCEPT !.phase = "UNKNOWN"].phase = "UNKNOWN"
  BY DEF ClaimRec, Phases
<1>3. \A i \in Ids : st.recs[i] \in ClaimRec
  BY <1>1 DEF FenceState
<1>4. ASSUME NEW i \in Ids
      PROVE  /\ recs[i] \in ClaimRec
             /\ \/ recs[i] = st.recs[i] \/ (st.recs[i].phase = "RESERVED" /\ recs[i].phase = "EXPIRED")
                \/ st.recs[i].phase = "STARTING" /\ recs[i].phase = "UNKNOWN"
  <2>0. st.recs[i] \in ClaimRec
    BY <1>3
  <2>1. CASE st.recs[i].phase = "RESERVED"
    BY <1>2, <2>0, <2>1
  <2>2. CASE st.recs[i].phase = "STARTING"
    BY <1>2, <2>0, <2>2
  <2>3. CASE st.recs[i].phase \notin {"RESERVED", "STARTING"}
    BY <2>0, <2>3
  <2> QED BY <2>1, <2>2, <2>3
<1>5. recs \in [Ids -> ClaimRec]
  BY <1>4
<1> HIDE DEF recs
<1>6. next \in FenceState /\ next.recs = recs
  BY <1>1, <1>5 DEF FenceState
<1>7. \A i \in Ids : Remembers(next, i)
  BY <1>1, <1>4, <1>6 DEF Remembers
<1> HIDE DEF next
<1>8. /\ UNCHANGED <<firsts, abandoned>>
      /\ \E ok \in BOOLEAN : \E new \in {st, next} : Saved(new, ok)
      /\ handle' = handle \/ \E ok \in BOOLEAN : handle' = [handle EXCEPT ![h] = IF ok THEN inc ELSE @]
  BY DEF OpenFence, st, next, recs
<1>9. handle' \in [Handles -> Incarnations \cup {NoIncarnation}]
  BY <1>8 DEF FenceInv, FenceVarsOK
<1> QED BY <1>1, <1>6, <1>7, <1>8, <1>9, QuietSave

LEMMA FenceStep ==
    ASSUME FenceInv, FenceNext
    PROVE  FenceInv'
<1> DEFINE st == Swept(fence)
<1>1. /\ st \in FenceState
      /\ \A i \in Ids : /\ Remembers(st, i)
                        /\ st.recs[i].phase # "RESERVED" \/ fence.recs[i].phase = "RESERVED"
                        /\ st.recs[i].phase # "none" \/ fence.recs[i].phase = "none"
  BY SweptRemembers
<1>2. handle \in [Handles -> Incarnations \cup {NoIncarnation}] /\ firsts \in [Ids -> Nat]
  BY DEF FenceInv, FenceVarsOK
<1> HIDE DEF st
<1>3. ASSUME NEW r \in ClaimRec, NEW i \in Ids
      PROVE  /\ [st EXCEPT !.recs[i] = r] \in FenceState
             /\ [st EXCEPT !.recs[i] = r].recs = [st.recs EXCEPT ![i] = r]
  BY <1>1 DEF FenceState
<1>4. \A i \in Ids : st.recs[i] \in ClaimRec
  BY <1>1 DEF FenceState
<1>5. ASSUME NEW i \in Ids, LeaseEnds(i) PROVE FenceInv'
  BY <1>5 DEF LeaseEnds, FenceInv, FenceVarsOK, Remembers
<1>6. ASSUME NEW h \in Handles, CloseFence(h) PROVE FenceInv'
  BY <1>6 DEF CloseFence, FenceInv, FenceVarsOK, Remembers
<1>7. ASSUME NEW h \in Handles, Lookup(h) PROVE FenceInv'
  <2>1. PICK ok \in BOOLEAN : Saved(st, ok)
    BY <1>7 DEF Lookup, st
  <2> QED BY <1>1, <1>2, <1>7, <2>1, QuietSave DEF Lookup
<1>8. ASSUME NEW h \in Handles, NEW i \in Ids, NEW b \in Bindings, Reserve(h, i, b) PROVE FenceInv'
  <2> DEFINE new == st.recs[i].phase = "none" /\ Room(st)
             r   == IF new THEN [phase |-> "RESERVED", binding |-> b, inc |-> handle[h], token |-> TRUE] ELSE st.recs[i]
             to  == [st EXCEPT !.recs[i] = r]
  <2>1. PICK ok \in BOOLEAN : Saved(to, ok)
    BY <1>8 DEF Reserve, st
  <2>2. r \in ClaimRec /\ (r = st.recs[i] \/ st.recs[i].phase = "none")
    BY <1>2, <1>4 DEF ClaimRec, Phases
  <2> HIDE DEF r, new
  <2>3. to \in FenceState /\ to.recs = [st.recs EXCEPT ![i] = r]
    BY <1>3, <2>2
  <2>4. \A j \in Ids : to.recs[j] = IF j = i THEN r ELSE st.recs[j]
    BY <1>1, <2>3 DEF FenceState
  <2> HIDE DEF to
  <2>5. \A j \in Ids : Remembers(to, j)
    BY <1>1, <1>2, <2>2, <2>4 DEF Remembers
  <2> QED BY <1>2, <1>8, <2>1, <2>3, <2>5, QuietSave DEF Reserve
<1>9. ASSUME NEW h \in Handles, NEW i \in Ids, NEW b \in Bindings, Start(h, i, b) PROVE FenceInv'
  <2> DEFINE r     == st.recs[i]
             valid == r.binding = b /\ r.token /\ r.inc = handle[h]
             first == valid /\ r.phase = "RESERVED"
             to    == [st EXCEPT !.recs[i].phase = "STARTING"]
  <2>1. PICK ok \in BOOLEAN : /\ Saved(IF first THEN to ELSE st, ok)
                              /\ firsts' = [firsts EXCEPT ![i] = IF ok /\ first THEN @ + 1 ELSE @]
    BY <1>9 DEF Start, st
  <2>2. UNCHANGED <<handle, abandoned>>
    BY <1>9 DEF Start
  <2>3. CASE ~first
    <3>1. Saved(st, ok) /\ firsts' = firsts
      BY <1>2, <2>1, <2>3
    <3> QED BY <1>1, <1>2, <2>2, <3>1, QuietSave
  <2>4. CASE first
    <3>1. [st.recs[i] EXCEPT !.phase = "STARTING"] \in ClaimRec
          /\ [st.recs[i] EXCEPT !.phase = "STARTING"].phase = "STARTING"
      BY <1>4 DEF ClaimRec, Phases
    <3>2. to = [st EXCEPT !.recs[i] = [st.recs[i] EXCEPT !.phase = "STARTING"]]
      BY <1>1 DEF FenceState
    <3>3. to \in FenceState /\ to.recs = [st.recs EXCEPT ![i] = [st.recs[i] EXCEPT !.phase = "STARTING"]]
      BY <1>3, <3>1, <3>2
    <3>4. to.recs[i].phase = "STARTING" /\ \A j \in Ids : j # i => to.recs[j] = st.recs[j]
      BY <1>1, <3>1, <3>3 DEF FenceState
    <3>a. PICK t \in FenceState : /\ Saved(t, ok) /\ t.recs[i].phase = "STARTING"
                                  /\ \A j \in Ids : j # i => t.recs[j] = st.recs[j]
      BY <2>1, <2>4, <3>3, <3>4
    <3>5. firsts[i] = 0 /\ i \notin abandoned
      BY <1>1, <1>2, <2>4 DEF Remembers
    <3> HIDE DEF to
    <3>6. \A j \in Ids : Remembers(t, j)
      BY <1>1, <1>2, <3>a, <3>5 DEF Remembers
    <3>7. /\ firsts' \in [Ids -> Nat] /\ \A j \in Ids : j # i => firsts'[j] = firsts[j]
          /\ firsts'[i] = IF ok THEN 1 ELSE 0
      BY <1>2, <2>1, <2>4, <3>5
    <3>8. ok => \A j \in Ids : Remembers(t, j)'
      <4>1. ASSUME ok, NEW j \in Ids PROVE Remembers(t, j)'
        <5>1. CASE j = i
          BY <2>2, <3>a, <3>5, <3>7, <4>1, <5>1 DEF Remembers
        <5>2. CASE j # i
          BY <2>2, <3>6, <3>7, <5>2 DEF Remembers
        <5> QED BY <5>1, <5>2
      <4> QED BY <4>1
    <3>9. ~ok => firsts' = firsts
      BY <1>2, <2>1
    <3> QED BY <1>2, <2>2, <3>a, <3>6, <3>7, <3>8, <3>9, SavedRemembers
  <2> QED BY <2>3, <2>4
<1>10. ASSUME NEW h \in Handles, NEW i \in Ids, NEW b \in Bindings, Abandon(h, i, b) PROVE FenceInv'
  <2> DEFINE r    == st.recs[i]
             may  == (r.phase = "none" /\ Room(st)) \/ (r.binding = b /\ r.phase \in {"RESERVED", "EXPIRED", "ABANDONED"})
             gone == [phase |-> "ABANDONED", binding |-> b, inc |-> IF r.phase = "none" THEN handle[h] ELSE r.inc, token |-> FALSE]
             to   == [st EXCEPT !.recs[i] = gone]
  <2>1. PICK ok \in BOOLEAN : /\ Saved(IF may THEN to ELSE st, ok)
                              /\ abandoned' = IF ok /\ may THEN abandoned \cup {i} ELSE abandoned
    BY <1>10 DEF Abandon, st
  <2>2. UNCHANGED <<handle, firsts>>
    BY <1>10 DEF Abandon
  <2>3. CASE ~may
    <3>1. Saved(st, ok) /\ abandoned' = abandoned
      BY <2>1, <2>3
    <3> QED BY <1>1, <1>2, <2>2, <3>1, QuietSave
  <2>4. CASE may
    <3>1. gone \in ClaimRec /\ gone.phase = "ABANDONED"
      BY <1>2, <1>4 DEF ClaimRec, Phases
    <3>2. firsts[i] = 0
      BY <1>1, <1>2, <2>4 DEF Remembers
    <3>3. Saved(to, ok) /\ abandoned' = IF ok THEN abandoned \cup {i} ELSE abandoned
      BY <2>1, <2>4
    <3> HIDE DEF gone, may
    <3>4. to \in FenceState /\ to.recs = [st.recs EXCEPT ![i] = gone]
      BY <1>3, <3>1
    <3>5. to.recs[i].phase = "ABANDONED" /\ \A j \in Ids : j # i => to.recs[j] = st.recs[j]
      BY <1>1, <3>1, <3>4 DEF FenceState
    <3>a. PICK t \in FenceState : /\ Saved(t, ok) /\ t.recs[i].phase = "ABANDONED"
                                  /\ \A j \in Ids : j # i => t.recs[j] = st.recs[j]
      BY <3>3, <3>4, <3>5
    <3> HIDE DEF to
    <3>6. \A j \in Ids : Remembers(t, j)
      BY <1>1, <1>2, <3>2, <3>a DEF Remembers
    <3>7. ok => \A j \in Ids : Remembers(t, j)'
      <4>1. ASSUME ok, NEW j \in Ids PROVE Remembers(t, j)'
        <5>1. CASE j = i
          BY <2>2, <3>2, <3>a, <5>1 DEF Remembers
        <5>2. CASE j # i
          BY <2>2, <3>3, <3>6, <5>2 DEF Remembers
        <5> QED BY <5>1, <5>2
      <4> QED BY <4>1
    <3> QED BY <1>2, <2>2, <3>3, <3>a, <3>6, <3>7, SavedRemembers
  <2> QED BY <2>3, <2>4
<1> QED BY <1>5, <1>6, <1>7, <1>8, <1>9, <1>10, OpenKeepsFence DEF FenceNext

\* One identity is one execution, for any number of identities, handles, incarnations and
\* operations, whatever saves fail or report a failure of what they did.
THEOREM FencedOnce == Spec => []FirstOnce
<1>1. Init => FenceInv
  BY DEF Init, FenceInit, FenceInv, FenceVarsOK, FenceState, ClaimRec, NoClaim, Phases, Remembers
<1>2. FenceInv /\ [Next]_vars => FenceInv'
  <2> SUFFICES ASSUME FenceInv, [Next]_vars PROVE FenceInv'
    OBVIOUS
  <2>1. CASE FenceNext
    BY <2>1, FenceStep
  <2>2. CASE UNCHANGED fenceVars
    BY <2>2 DEF fenceVars, FenceInv, FenceVarsOK, Remembers
  <2> QED BY <2>1, <2>2 DEF Next, vars
<1>3. FenceInv => FirstOnce
  BY DEF FenceInv, FenceVarsOK, Remembers, FirstOnce
<1> QED BY <1>1, <1>2, <1>3, PTL DEF Spec

(******************************* calls made once *************************************)
Answers  == {"none", "refused", "conflict", "dispatching", "completed"}
CallPCs  == {"gone", "put", "original", "recover", "decide", "get", "judge", "post", "wait", "end"}
CallRec  == [kind : EventKinds \cup {"intent", "original", "partial", "none"}, st : Answers,
             req : Requests \cup {NoReq}]
CallRun  == [pc : CallPCs, req : Requests \cup {NoReq}, recon : BOOLEAN, retry : BOOLEAN, existing : BOOLEAN,
             put : CallRec, then : CallPCs, saw : CallRec, run : 0 .. MaxRuns]

CallVarsOK ==
    /\ style \in Styles /\ intent \in Requests \cup {NoReq} /\ original \in BOOLEAN
    /\ IsFiniteSet(pending) /\ pending \subseteq CallRec /\ events \in Seq(CallRec)
    /\ lock \in Clients \cup {NoClient} /\ client \in [Clients -> CallRun]
    /\ post \subseteq [req : Requests, run : 1 .. MaxRuns] /\ answer \in [1 .. MaxRuns -> Answers]
    /\ served \in {"none", "dispatching", "completed"} /\ effect \in Requests \cup {NoReq}
    /\ told \in BOOLEAN /\ runs \in 0 .. MaxRuns

\* A client past the journal's intent, and a record that says the operation was accepted.
Past    == {"original", "recover", "decide", "get", "judge", "post", "wait"}
Bold(x) == x.kind \in {"recon", "resp"} /\ x.st \in {"dispatching", "completed"}
InJournal(x) == x.kind \in EventKinds

\* What the client that holds the lock has bound, and is about to bind.
RunBound(c) ==
    /\ c.pc \in Past \cup {"put", "end"} /\ c.req \in Requests /\ c.run \in 1 .. MaxRuns
    /\ c.pc \in Past => intent = c.req
    /\ c.pc = "put" =>
          IF c.put.kind = "intent"
          THEN intent = NoReq /\ c.put.req = c.req /\ c.then \in {"original", "recover"}
          ELSE /\ intent = c.req /\ c.then \in Past \cup {"end"}
               /\ c.put.kind = "original" \/ InJournal(c.put)
    /\ served = "none" => ~Bold(c.put) /\ ~Bold(c.saw)

\* A journal with no event in it, and one whose every submission an inspection followed
\* that found nothing.
Empty == events = <<>> /\ \A x \in pending : ~InJournal(x)
Clear ==
    \A i \in DOMAIN events : events[i].kind = "post" =>
        \E m \in i .. Len(events) : events[m].kind = "recon" /\ events[m].st = "none"

\* What the client that holds the lock knows of the journal.
RunFresh(c) ==
    /\ ~c.existing /\ (c.pc \in {"original", "recover", "decide"} \/ (c.pc = "put" /\ c.put.kind \in {"intent", "original"}))
          => Empty
    /\ c.pc \in {"decide", "get", "judge", "post", "wait"} \/ (c.pc = "put" /\ InJournal(c.put)) => pending = {}
    /\ c.pc = "judge" \/ (c.pc = "put" /\ c.put.kind = "post") => Clear
    /\ c.pc = "put" /\ c.then = "judge" => c.put.kind = "recon" /\ c.put.st = "none"
    /\ c.pc = "put" /\ c.put.kind = "original" => c.then = "recover"
    /\ c.pc = "put" /\ InJournal(c.put) => c.then \in {"get", "judge", "post", "end"}

Locked == \A k \in Clients : IF lock = k THEN RunBound(client[k]) /\ RunFresh(client[k]) ELSE client[k] = Absent

\* What was sent is what is bound, and no record or answer says more than was served.
SentBound ==
    /\ \A m \in post : m.req = intent
    /\ served = "none" <=> effect = NoReq
    /\ served = "none" =>
          /\ \A i \in DOMAIN events : ~Bold(events[i])
          /\ \A x \in pending : ~Bold(x)
          /\ \A i \in 1 .. MaxRuns : answer[i] \notin {"dispatching", "completed"}

\* At most one event is staged, and a submission only after every other was found absent.
Journal ==
    /\ FreshAbsence
    /\ intent = NoReq => Empty
    /\ \A x, y \in pending : InJournal(x) /\ InJournal(y) => x = y
    /\ \A x \in pending : x.kind = "post" => Clear

CallInv == CallVarsOK /\ Locked /\ SentBound /\ Journal

\* What an action that moves one client leaves of the others.
Moved(k, c) == client' = [client EXCEPT ![k] = c]

LEMMA GoesMoves ==
    ASSUME CallVarsOK, NEW k \in Clients, NEW pc \in CallPCs, Goes(k, pc)
    PROVE  \E c \in CallRun : /\ Moved(k, c) /\ c.pc = pc /\ c.req = client[k].req /\ c.put = client[k].put
                              /\ c.then = client[k].then /\ c.saw = client[k].saw /\ c.run = client[k].run
                              /\ c.existing = client[k].existing
<1>1. client[k] \in CallRun
  BY DEF CallVarsOK
<1>2. ASSUME NEW d \in CallRun
      PROVE LET c == [d EXCEPT !.pc = pc]
            IN  /\ c \in CallRun /\ c.pc = pc /\ c.req = d.req /\ c.put = d.put
                /\ c.then = d.then /\ c.saw = d.saw /\ c.run = d.run /\ c.existing = d.existing
  BY DEF CallRun
<1>3. Moved(k, [client[k] EXCEPT !.pc = pc])
  BY DEF Goes, Moved
<1> QED BY <1>1, <1>2, <1>3

LEMMA SavesMoves ==
    ASSUME CallVarsOK, NEW k \in Clients, NEW x \in CallRec, NEW pc \in CallPCs, Saves(k, x, pc)
    PROVE  \E c \in CallRun : /\ Moved(k, c) /\ c.pc = "put" /\ c.req = client[k].req /\ c.put = x
                              /\ c.then = pc /\ c.saw = client[k].saw /\ c.run = client[k].run
                              /\ c.existing = client[k].existing
<1>1. client[k] \in CallRun
  BY DEF CallVarsOK
<1>2. ASSUME NEW d \in CallRun
      PROVE LET c == [d EXCEPT !.pc = "put", !.put = x, !.then = pc]
            IN  /\ c \in CallRun /\ c.pc = "put" /\ c.req = d.req /\ c.put = x
                /\ c.then = pc /\ c.saw = d.saw /\ c.run = d.run /\ c.existing = d.existing
  BY DEF CallRun, CallPCs
<1>3. Moved(k, [client[k] EXCEPT !.pc = "put", !.put = x, !.then = pc])
  BY DEF Saves, Moved, CallVarsOK
<1> QED BY <1>1, <1>2, <1>3

LEMMA SetToSeqType ==
    ASSUME NEW T, NEW S \in SUBSET T, IsFiniteSet(S)
    PROVE  /\ SetToSeq(S) \in Seq(T) /\ Len(SetToSeq(S)) = Cardinality(S)
           /\ \A i \in 1 .. Len(SetToSeq(S)) : SetToSeq(S)[i] \in S
<1>1. Cardinality(S) \in Nat /\ ExistsBijection(1 .. Cardinality(S), S)
  BY FS_CardinalityType
<1>2. \E f \in [1 .. Cardinality(S) -> S] : IsInjective(f)
  BY <1>1 DEF ExistsBijection, Bijection, Injection
<1>3. SetToSeq(S) \in [1 .. Cardinality(S) -> S]
  BY <1>2 DEF SetToSeq
<1>4. SetToSeq(S) \in Seq(S)
  BY <1>1, <1>3, SeqDef
<1> QED BY <1>1, <1>3, <1>4, LenProperties, SeqMonotonic

LEMMA RecordTypes ==
    /\ Nothing \in CallRec /\ Partial \in CallRec /\ ~Bold(Nothing) /\ ~Bold(Partial) /\ Absent \in CallRun
    /\ \A x \in EventKinds \cup {"intent", "original"}, st \in Answers, r \in Requests \cup {NoReq} :
          /\ Record(x, st, r) \in CallRec
          /\ Record(x, st, r).kind = x /\ Record(x, st, r).st = st /\ Record(x, st, r).req = r
<1>1. Nothing \in CallRec /\ Partial \in CallRec /\ ~Bold(Nothing) /\ ~Bold(Partial)
  BY DEF Nothing, Partial, Record, CallRec, Bold, Answers
<1>2. Absent \in CallRun
  BY <1>1, CallsAssumption DEF Absent, CallRun, CallPCs
<1>3. ASSUME NEW x \in EventKinds \cup {"intent", "original"}, NEW st \in Answers, NEW r \in Requests \cup {NoReq}
      PROVE  /\ Record(x, st, r) \in CallRec
             /\ Record(x, st, r).kind = x /\ Record(x, st, r).st = st /\ Record(x, st, r).req = r
  BY DEF Record, CallRec
<1> QED BY <1>1, <1>2, <1>3

\* The client that holds the lock moves, and nothing else of the call does.
LEMMA QuietMove ==
    ASSUME CallInv, NEW k \in Clients, NEW c \in CallRun, Moved(k, c), lock = k, RunBound(c), RunFresh(c),
           UNCHANGED <<style, intent, original, pending, events, lock, serverVars, told, runs>>
    PROVE  CallInv'
<1>1. CallVarsOK'
  BY DEF CallInv, CallVarsOK, Moved, serverVars
<1>2. SentBound' /\ Journal'
  BY DEF CallInv, SentBound, Journal, Bold, FreshAbsence, Empty, Clear, serverVars, InJournal
<1>3. RunBound(c)' /\ RunFresh(c)'
  BY DEF RunBound, RunFresh, Empty, Clear, serverVars
<1>4. Locked'
  BY <1>3 DEF CallInv, CallVarsOK, Locked, Moved
<1> QED BY <1>1, <1>2, <1>4 DEF CallInv

LEMMA AtWork ==
    ASSUME CallInv, NEW k \in Clients, client[k].pc # "gone"
    PROVE  /\ lock = k /\ client[k] \in CallRun /\ RunBound(client[k]) /\ RunFresh(client[k])
           /\ k # NoClient
  BY CallsAssumption DEF CallInv, CallVarsOK, Locked, Absent

LEMMA DecideKeeps == ASSUME CallInv, NEW k \in Clients, Decide(k) PROVE CallInv'
<1>1. lock = k /\ client[k] \in CallRun /\ RunBound(client[k]) /\ RunFresh(client[k]) /\ client[k].pc = "decide"
  BY AtWork DEF Decide
<1>2. UNCHANGED <<style, intent, original, pending, events, lock, serverVars, told, runs>>
  BY DEF Decide
<1>3. CASE client' = [client EXCEPT ![k].pc = "end", ![k].saw = Latest]
  <2>1. Latest \in CallRec /\ (served = "none" => ~Bold(Latest))
    BY RecordTypes DEF Latest, CallInv, CallVarsOK, SentBound, Last
  <2>3. Moved(k, [client[k] EXCEPT !.pc = "end", !.saw = Latest])
    BY <1>3 DEF Moved, CallInv, CallVarsOK
  <2>4. PICK c \in CallRun : /\ Moved(k, c) /\ c.pc = "end" /\ c.req = client[k].req /\ c.put = client[k].put
                             /\ c.saw = Latest /\ c.run = client[k].run
    <3>1. client[k] \in CallRun /\ Latest \in CallRec
      BY <1>1, <2>1
    <3> HIDE DEF Latest
    <3>2. PICK c : c = [client[k] EXCEPT !.pc = "end", !.saw = Latest]
      OBVIOUS
    <3>3. /\ c \in CallRun /\ c.pc = "end" /\ c.req = client[k].req /\ c.put = client[k].put
          /\ c.saw = Latest /\ c.run = client[k].run
      BY <3>1, <3>2 DEF CallRun, CallPCs
    <3> QED BY <2>3, <3>2, <3>3
  <2>5. RunBound(c) /\ RunFresh(c)
    BY <1>1, <2>1, <2>4 DEF RunBound, RunFresh, Past
  <2> QED BY <1>1, <1>2, <2>4, <2>5, QuietMove
<1>4. CASE Saves(k, Record("get", "none", NoReq), "get")
  <2>1. Record("get", "none", NoReq) \in CallRec /\ Record("get", "none", NoReq).kind = "get"
    BY RecordTypes DEF EventKinds, Answers
  <2>2. PICK c \in CallRun : /\ Moved(k, c) /\ c.pc = "put" /\ c.req = client[k].req /\ c.put.kind = "get"
                             /\ c.then = "get" /\ c.saw = client[k].saw /\ c.run = client[k].run
    BY <1>4, <2>1, SavesMoves DEF CallInv, CallPCs
  <2>3. RunBound(c) /\ RunFresh(c)
    BY <1>1, <2>2 DEF RunBound, RunFresh, Past, Bold, InJournal, EventKinds
  <2> QED BY <1>1, <1>2, <2>2, <2>3, QuietMove
<1>5. CASE Saves(k, Record("post", "none", client[k].req), "post") /\ ~Answered(k) /\ ~Inspects(k)
  <2>1. /\ Record("post", "none", client[k].req) \in CallRec
        /\ Record("post", "none", client[k].req).kind = "post"
    BY <1>1, RecordTypes DEF EventKinds, Answers, CallRun
  <2>2. PICK c \in CallRun : /\ Moved(k, c) /\ c.pc = "put" /\ c.req = client[k].req /\ c.put.kind = "post"
                             /\ c.then = "post" /\ c.saw = client[k].saw /\ c.run = client[k].run
    BY <1>5, <2>1, SavesMoves DEF CallInv, CallPCs
  <2>3. Clear
    BY <1>1, <1>5 DEF Inspects, RunFresh, Empty, Clear
  <2>4. RunBound(c) /\ RunFresh(c)
    BY <1>1, <2>2, <2>3 DEF RunBound, RunFresh, Past, Bold, InJournal, EventKinds
  <2> QED BY <1>1, <1>2, <2>2, <2>4, QuietMove
<1> QED BY <1>3, <1>4, <1>5 DEF Decide

LEMMA InspectKeeps == ASSUME CallInv, NEW k \in Clients, Inspect(k) PROVE CallInv'
<1>1. lock = k /\ client[k] \in CallRun /\ RunBound(client[k]) /\ RunFresh(client[k]) /\ client[k].pc = "get"
  BY AtWork DEF Inspect
<1>2. UNCHANGED <<style, intent, original, pending, events, lock, serverVars, told, runs>>
  BY DEF Inspect
<1>3. CASE Saves(k, Record("recon", served, effect), IF served = "none" THEN "judge" ELSE "end")
  <2>1. /\ Record("recon", served, effect) \in CallRec /\ Record("recon", served, effect).kind = "recon"
        /\ Record("recon", served, effect).st = served
    BY RecordTypes DEF EventKinds, Answers, CallInv, CallVarsOK
  <2>2. PICK c \in CallRun : /\ Moved(k, c) /\ c.pc = "put" /\ c.req = client[k].req /\ c.put.kind = "recon"
                             /\ c.put.st = served /\ c.then = (IF served = "none" THEN "judge" ELSE "end")
                             /\ c.saw = client[k].saw /\ c.run = client[k].run
    BY <1>3, <2>1, SavesMoves DEF CallInv, CallPCs
  <2>3. RunBound(c) /\ RunFresh(c)
    BY <1>1, <2>2 DEF RunBound, RunFresh, Past, Bold, InJournal, EventKinds
  <2> QED BY <1>1, <1>2, <2>2, <2>3, QuietMove
<1>4. CASE Saves(k, Record("lost", "none", NoReq), "end")
  <2>1. Record("lost", "none", NoReq) \in CallRec /\ Record("lost", "none", NoReq).kind = "lost"
    BY RecordTypes DEF EventKinds, Answers
  <2>2. PICK c \in CallRun : /\ Moved(k, c) /\ c.pc = "put" /\ c.req = client[k].req /\ c.put.kind = "lost"
                             /\ c.then = "end" /\ c.saw = client[k].saw /\ c.run = client[k].run
    BY <1>4, <2>1, SavesMoves DEF CallInv, CallPCs
  <2>3. RunBound(c) /\ RunFresh(c)
    BY <1>1, <2>2 DEF RunBound, RunFresh, Past, Bold, InJournal, EventKinds
  <2> QED BY <1>1, <1>2, <2>2, <2>3, QuietMove
<1> QED BY <1>3, <1>4 DEF Inspect

LEMMA HearKeeps == ASSUME CallInv, NEW k \in Clients, Hear(k) PROVE CallInv'
<1>1. lock = k /\ client[k] \in CallRun /\ RunBound(client[k]) /\ RunFresh(client[k]) /\ client[k].pc = "wait"
  BY AtWork DEF Hear
<1>2. UNCHANGED <<style, intent, original, pending, events, lock, serverVars, told, runs>>
  BY DEF Hear
<1>3. CASE Saves(k, Record("resp", answer[client[k].run], effect), "end")
  <2> DEFINE a == answer[client[k].run]
  <2>1. a \in Answers /\ (served = "none" => a \notin {"dispatching", "completed"})
    BY <1>1 DEF RunBound, CallInv, CallVarsOK, SentBound
  <2>2. /\ Record("resp", a, effect) \in CallRec /\ Record("resp", a, effect).kind = "resp"
        /\ Record("resp", a, effect).st = a
    BY <2>1, RecordTypes DEF EventKinds, CallInv, CallVarsOK
  <2>3. PICK c \in CallRun : /\ Moved(k, c) /\ c.pc = "put" /\ c.req = client[k].req /\ c.put.kind = "resp"
                             /\ c.put.st = a /\ c.then = "end" /\ c.saw = client[k].saw /\ c.run = client[k].run
    BY <1>3, <2>2, SavesMoves DEF CallInv, CallPCs
  <2>4. RunBound(c) /\ RunFresh(c)
    BY <1>1, <2>1, <2>3 DEF RunBound, RunFresh, Past, Bold, InJournal, EventKinds
  <2> QED BY <1>1, <1>2, <2>3, <2>4, QuietMove
<1>4. CASE Saves(k, Record("lost", "none", NoReq), "end")
  <2>1. Record("lost", "none", NoReq) \in CallRec /\ Record("lost", "none", NoReq).kind = "lost"
    BY RecordTypes DEF EventKinds, Answers
  <2>2. PICK c \in CallRun : /\ Moved(k, c) /\ c.pc = "put" /\ c.req = client[k].req /\ c.put.kind = "lost"
                             /\ c.then = "end" /\ c.saw = client[k].saw /\ c.run = client[k].run
    BY <1>4, <2>1, SavesMoves DEF CallInv, CallPCs
  <2>3. RunBound(c) /\ RunFresh(c)
    BY <1>1, <2>2 DEF RunBound, RunFresh, Past, Bold, InJournal, EventKinds
  <2> QED BY <1>1, <1>2, <2>2, <2>3, QuietMove
<1> QED BY <1>3, <1>4 DEF Hear

LEMMA JudgeKeeps == ASSUME CallInv, NEW k \in Clients, Judge(k) PROVE CallInv'
<1>1. lock = k /\ client[k] \in CallRun /\ RunBound(client[k]) /\ RunFresh(client[k]) /\ client[k].pc = "judge"
  BY AtWork DEF Judge
<1>2. UNCHANGED <<style, intent, original, pending, events, lock, serverVars, told, runs>>
  BY DEF Judge
<1>3. CASE Goes(k, "end")
  <2>1. PICK c \in CallRun : /\ Moved(k, c) /\ c.pc = "end" /\ c.req = client[k].req /\ c.put = client[k].put
                             /\ c.saw = client[k].saw /\ c.run = client[k].run
    BY <1>3, GoesMoves DEF CallInv, CallPCs
  <2>2. RunBound(c) /\ RunFresh(c)
    BY <1>1, <2>1 DEF RunBound, RunFresh, Past
  <2> QED BY <1>1, <1>2, <2>1, <2>2, QuietMove
<1>4. CASE Saves(k, Record("post", "none", client[k].req), "post")
  <2>1. /\ Record("post", "none", client[k].req) \in CallRec
        /\ Record("post", "none", client[k].req).kind = "post"
    BY <1>1, RecordTypes DEF EventKinds, Answers, CallRun
  <2>2. PICK c \in CallRun : /\ Moved(k, c) /\ c.pc = "put" /\ c.req = client[k].req /\ c.put.kind = "post"
                             /\ c.then = "post" /\ c.saw = client[k].saw /\ c.run = client[k].run
    BY <1>4, <2>1, SavesMoves DEF CallInv, CallPCs
  <2>3. RunBound(c) /\ RunFresh(c)
    BY <1>1, <2>2 DEF RunBound, RunFresh, Past, Bold, InJournal, EventKinds
  <2> QED BY <1>1, <1>2, <2>2, <2>3, QuietMove
<1> QED BY <1>3, <1>4 DEF Judge

LEMMA SubmitKeeps == ASSUME CallInv, NEW k \in Clients, Submit(k) PROVE CallInv'
<1>1. lock = k /\ client[k] \in CallRun /\ RunBound(client[k]) /\ RunFresh(client[k]) /\ client[k].pc = "post"
  BY AtWork DEF Submit
<1>2. /\ UNCHANGED <<style, intent, original, pending, events, lock, answer, served, effect, told, runs>>
      /\ post' = post \cup {[req |-> client[k].req, run |-> client[k].run]}
  BY DEF Submit
<1>3. PICK c \in CallRun : /\ Moved(k, c) /\ c.pc = "wait" /\ c.req = client[k].req /\ c.put = client[k].put
                           /\ c.saw = client[k].saw /\ c.run = client[k].run
  BY GoesMoves DEF Submit, CallInv, CallPCs
<1>4. RunBound(c)' /\ RunFresh(c)'
  BY <1>1, <1>2, <1>3 DEF RunBound, RunFresh, Past, Bold, Empty, Clear
<1>5. Locked'
  BY <1>1, <1>2, <1>3, <1>4 DEF CallInv, CallVarsOK, Locked, Moved
<1>6. client[k].req \in Requests /\ client[k].run \in 1 .. MaxRuns /\ client[k].req = intent
  BY <1>1 DEF RunBound, Past
<1>7. CallVarsOK'
  BY <1>2, <1>3, <1>6 DEF CallInv, CallVarsOK, Moved
<1>8. SentBound' /\ Journal'
  BY <1>2, <1>6 DEF CallInv, SentBound, Journal, Bold, FreshAbsence, Empty, Clear, InJournal
<1> QED BY <1>5, <1>7, <1>8 DEF CallInv

LEMMA OriginalKeeps == ASSUME CallInv, NEW k \in Clients, Original(k) PROVE CallInv'
<1>1. lock = k /\ client[k] \in CallRun /\ RunBound(client[k]) /\ RunFresh(client[k]) /\ client[k].pc = "original"
  BY AtWork DEF Original
<1> DEFINE staged == Record("original", "none", client[k].req)
<1>2. staged \in CallRec /\ staged.kind = "original"
  <2>1. client[k].req \in Requests \cup {NoReq} /\ "none" \in Answers
    BY <1>1 DEF CallRun, Answers
  <2> QED BY <2>1, RecordTypes
<1>3. UNCHANGED <<style, intent, events, lock, serverVars, told, runs>>
  BY DEF Original
<1>4. CASE client[k].existing
  <2>1. /\ original' = (original \/ staged \in pending) /\ pending' = pending \ {staged}
        /\ Goes(k, IF original' THEN "recover" ELSE "end")
    BY <1>4 DEF Original
  <2>2. PICK c \in CallRun : /\ Moved(k, c) /\ c.pc \in {"recover", "end"} /\ c.req = client[k].req
                             /\ c.put = client[k].put /\ c.saw = client[k].saw /\ c.run = client[k].run /\ c.existing
    BY <1>4, <2>1, GoesMoves DEF CallInv, CallPCs
  <2>3. IsFiniteSet(pending') /\ pending' \subseteq pending
    BY <2>1, FS_Subset DEF CallInv, CallVarsOK
  <2> HIDE DEF staged
  <2>4. original' \in BOOLEAN
    BY <2>1
  <2>5. RunBound(c)' /\ RunFresh(c)'
    BY <1>1, <1>3, <2>2 DEF RunBound, RunFresh, Past, Bold, serverVars
  <2>6. Locked'
    BY <1>1, <1>3, <2>2, <2>5 DEF CallInv, CallVarsOK, Locked, Moved
  <2>7. CallVarsOK'
    BY <1>3, <2>2, <2>3, <2>4 DEF CallInv, CallVarsOK, Moved, serverVars
  <2>8. SentBound' /\ Journal'
    BY <1>3, <2>3 DEF CallInv, SentBound, Journal, Bold, FreshAbsence, Empty, Clear, InJournal, serverVars
  <2> QED BY <2>6, <2>7, <2>8 DEF CallInv
<1>5. CASE ~client[k].existing
  <2>1. Saves(k, staged, "recover") /\ UNCHANGED <<original, pending>>
    BY <1>5 DEF Original
  <2>2. PICK c \in CallRun : /\ Moved(k, c) /\ c.pc = "put" /\ c.req = client[k].req /\ c.put.kind = "original"
                             /\ c.then = "recover" /\ c.saw = client[k].saw /\ c.run = client[k].run
    BY <1>2, <2>1, SavesMoves DEF CallInv, CallPCs
  <2>3. RunBound(c) /\ RunFresh(c)
    BY <1>1, <1>5, <2>2 DEF RunBound, RunFresh, Past, Bold, InJournal, EventKinds
  <2> QED BY <1>1, <1>3, <2>1, <2>2, <2>3, QuietMove
<1> QED BY <1>4, <1>5

\* An event put at the journal's end: a submission only after a clear journal.
LEMMA AppendFresh ==
    ASSUME CallVarsOK, FreshAbsence, NEW x \in CallRec, events' = Append(events, x), x.kind = "post" => Clear
    PROVE  /\ FreshAbsence' /\ events' \in Seq(CallRec)
           /\ (x.kind = "recon" /\ x.st = "none") => Clear'
           /\ served = "none" => (~Bold(x) /\ (\A i \in DOMAIN events : ~Bold(events[i])) => \A i \in DOMAIN events' : ~Bold(events'[i]))
<1> DEFINE n == Len(events)
<1>1. n \in Nat /\ DOMAIN events = 1 .. n /\ events \in Seq(CallRec)
  BY LenProperties DEF CallVarsOK
<1>2. /\ events' \in Seq(CallRec) /\ DOMAIN events' = 1 .. n + 1 /\ Len(events') = n + 1
      /\ \A i \in 1 .. n : events'[i] = events[i] /\ events'[n + 1] = x
  BY <1>1, AppendProperties, LenProperties
<1>3. events'[n + 1] = x
  BY <1>1, AppendProperties
<1> HIDE DEF n
<1>4. FreshAbsence'
  <2> SUFFICES ASSUME NEW i \in 1 .. n + 1, NEW j \in 1 .. n + 1, i < j, events'[i].kind = "post", events'[j].kind = "post"
               PROVE  \E m \in i .. j : events'[m].kind = "recon" /\ events'[m].st = "none"
    BY <1>2 DEF FreshAbsence
  <2>1. CASE j \in 1 .. n
    <3>1. i \in 1 .. n /\ events[i].kind = "post" /\ events[j].kind = "post"
      BY <1>1, <1>2, <2>1
    <3>2. PICK m \in i .. j : events[m].kind = "recon" /\ events[m].st = "none"
      BY <1>1, <2>1, <3>1 DEF FreshAbsence
    <3> QED BY <1>1, <1>2, <2>1, <3>2
  <2>2. CASE j = n + 1
    <3>1. i \in 1 .. n /\ events[i].kind = "post" /\ x.kind = "post"
      BY <1>1, <1>2, <1>3, <2>2
    <3>2. PICK m \in i .. n : events[m].kind = "recon" /\ events[m].st = "none"
      BY <1>1, <3>1 DEF Clear, n
    <3> QED BY <1>1, <1>2, <2>2, <3>1, <3>2
  <2> QED BY <1>1, <2>1, <2>2
<1>5. (x.kind = "recon" /\ x.st = "none") => Clear'
  BY <1>1, <1>2, <1>3 DEF Clear
<1>6. ~Bold(x) /\ (\A i \in DOMAIN events : ~Bold(events[i])) => \A i \in DOMAIN events' : ~Bold(events'[i])
  BY <1>1, <1>2, <1>3
<1> QED BY <1>2, <1>4, <1>5, <1>6

LEMMA SaveKeeps == ASSUME CallInv, NEW k \in Clients, Save(k) PROVE CallInv'
<1>1. lock = k /\ client[k] \in CallRun /\ RunBound(client[k]) /\ RunFresh(client[k]) /\ client[k].pc = "put"
  BY AtWork DEF Save
<1>2. UNCHANGED <<style, pending, lock, serverVars, told, runs>>
  BY DEF Save
<1>3. PICK r : r = client[k].put
  OBVIOUS
<1>4. r \in CallRec
  BY <1>1, <1>3 DEF CallRun
<1>5. PICK c : c = [client[k] EXCEPT !.pc = client[k].then, !.saw = client[k].put, !.put = Nothing]
  OBVIOUS
<1>6. /\ c \in CallRun /\ c.pc = client[k].then /\ c.req = client[k].req /\ c.put = Nothing
      /\ c.then = client[k].then /\ c.saw = r /\ c.run = client[k].run /\ c.existing = client[k].existing
  <2>1. client[k] \in CallRun /\ Nothing \in CallRec
    BY <1>1, RecordTypes
  <2> QED BY <1>3, <1>5, <2>1 DEF CallRun
<1>7. Moved(k, c)
  BY <1>5 DEF Moved, Save, CallInv, CallVarsOK
<1>8. client' \in [Clients -> CallRun]
  BY <1>6, <1>7 DEF Moved, CallInv, CallVarsOK
<1>9. RunBound(c)' /\ RunFresh(c)' => Locked'
  BY <1>1, <1>2, <1>6, <1>7 DEF CallInv, CallVarsOK, Locked, Moved
<1>10. Nothing \in CallRec /\ ~Bold(Nothing) /\ Nothing.kind = "none"
  BY RecordTypes DEF Nothing
<1>11. CASE r.kind = "intent"
  <2>1. intent' = r.req /\ UNCHANGED <<original, events>>
    BY <1>3, <1>11 DEF Save
  <2>2. intent = NoReq /\ r.req = c.req /\ c.pc \in {"original", "recover"} /\ c.req \in Requests
    BY <1>1, <1>3, <1>6, <1>11 DEF RunBound
  <2>3. RunBound(c)' /\ RunFresh(c)'
    BY <1>1, <1>2, <1>3, <1>6, <1>10, <1>11, <2>1, <2>2 DEF RunBound, RunFresh, Past, serverVars, Empty, Clear
  <2>4. post = {}
    BY <2>2, CallsAssumption DEF CallInv, CallVarsOK, SentBound
  <2>5. SentBound' /\ Journal'
    BY <1>2, <2>1, <2>2, <2>4, CallsAssumption DEF CallInv, SentBound, Journal, Bold, FreshAbsence, Empty, Clear, InJournal, serverVars
  <2>6. CallVarsOK'
    BY <1>2, <1>8, <2>1, <2>2 DEF CallInv, CallVarsOK, serverVars
  <2> QED BY <1>9, <2>3, <2>5, <2>6 DEF CallInv
<1>12. CASE r.kind = "original"
  <2>1. original' = TRUE /\ UNCHANGED <<intent, events>>
    BY <1>3, <1>12 DEF Save
  <2>2. intent = c.req /\ c.pc = "recover"
    BY <1>1, <1>3, <1>6, <1>12 DEF RunBound, RunFresh
  <2>3. RunBound(c)' /\ RunFresh(c)'
    BY <1>1, <1>2, <1>3, <1>6, <1>10, <1>12, <2>1, <2>2 DEF RunBound, RunFresh, Past, serverVars, Empty, Clear
  <2>4. SentBound' /\ Journal'
    BY <1>2, <2>1 DEF CallInv, SentBound, Journal, Bold, FreshAbsence, Empty, Clear, InJournal, serverVars
  <2>5. CallVarsOK'
    BY <1>2, <1>8, <2>1 DEF CallInv, CallVarsOK, serverVars
  <2> QED BY <1>9, <2>3, <2>4, <2>5 DEF CallInv
<1>13. CASE r.kind \notin {"intent", "original"}
  <2>1. events' = Append(events, r) /\ UNCHANGED <<intent, original>>
    BY <1>3, <1>13 DEF Save
  <2>2. /\ intent = c.req /\ c.req \in Requests /\ InJournal(r) /\ pending = {} /\ c.pc \in {"get", "judge", "post", "end"}
        /\ c.pc = "judge" => r.kind = "recon" /\ r.st = "none"
        /\ r.kind = "post" => Clear
        /\ served = "none" => ~Bold(r)
    BY <1>1, <1>3, <1>6, <1>13 DEF RunBound, RunFresh
  <2>3. /\ FreshAbsence' /\ events' \in Seq(CallRec)
        /\ c.pc = "judge" => Clear'
        /\ served = "none" => \A i \in DOMAIN events' : ~Bold(events'[i])
    BY <1>4, <2>1, <2>2, AppendFresh DEF CallInv, Journal, SentBound
  <2>4. pending' = {}
    BY <1>2, <2>2
  <2>5. RunBound(c)'
    BY <1>1, <1>2, <1>3, <1>6, <1>10, <2>1, <2>2 DEF RunBound, Past, serverVars
  <2>6. RunFresh(c)'
    BY <2>2, <2>3, <2>4 DEF RunFresh
  <2>7. SentBound'
    BY <1>2, <2>1, <2>3, <2>4 DEF CallInv, SentBound, serverVars
  <2>8. Journal'
    BY <2>1, <2>2, <2>3, <2>4, CallsAssumption DEF Journal
  <2>9. CallVarsOK'
    BY <1>2, <1>8, <2>1, <2>3 DEF CallInv, CallVarsOK, serverVars
  <2> QED BY <1>9, <2>5, <2>6, <2>7, <2>8, <2>9 DEF CallInv
<1> QED BY <1>11, <1>12, <1>13

LEMMA RecoverKeeps == ASSUME CallInv, NEW k \in Clients, Recover(k) PROVE CallInv'
<1>1. lock = k /\ client[k] \in CallRun /\ RunBound(client[k]) /\ RunFresh(client[k]) /\ client[k].pc = "recover"
  BY AtWork DEF Recover
<1>2. UNCHANGED <<style, intent, original, lock, serverVars, told, runs>>
  BY DEF Recover
<1>3. CASE Goes(k, "end") /\ UNCHANGED <<events, pending>>
  <2>1. PICK c \in CallRun : /\ Moved(k, c) /\ c.pc = "end" /\ c.req = client[k].req /\ c.put = client[k].put
                             /\ c.saw = client[k].saw /\ c.run = client[k].run
    BY <1>3, GoesMoves DEF CallInv, CallPCs
  <2>2. RunBound(c) /\ RunFresh(c)
    BY <1>1, <2>1 DEF RunBound, RunFresh, Past
  <2> QED BY <1>1, <1>2, <1>3, <2>1, <2>2, QuietMove
<1>4. CASE /\ \A x \in pending : InJournal(x)
           /\ events' = events \o SetToSeq(pending) /\ pending' = {} /\ Goes(k, "decide")
  <2>1. PICK c \in CallRun : /\ Moved(k, c) /\ c.pc = "decide" /\ c.req = client[k].req /\ c.put = client[k].put
                             /\ c.saw = client[k].saw /\ c.run = client[k].run /\ c.existing = client[k].existing
    BY <1>4, GoesMoves DEF CallInv, CallPCs
  <2>2. RunBound(c)'
    BY <1>1, <1>2, <2>1 DEF RunBound, Past, serverVars
  <2>3. IsFiniteSet(pending) /\ pending \in SUBSET CallRec /\ events \in Seq(CallRec)
    BY DEF CallInv, CallVarsOK
  <2>4. client' \in [Clients -> CallRun]
    BY <2>1 DEF Moved, CallInv, CallVarsOK
  <2>5. IsFiniteSet(pending')
    BY <1>4, FS_EmptySet
  <2>6. intent \in Requests
    BY <1>1 DEF RunBound, Past
  <2>7. /\ FreshAbsence' /\ events' \in Seq(CallRec)
        /\ served = "none" => \A i \in DOMAIN events' : ~Bold(events'[i])
        /\ Empty => events' = <<>>
    <3>1. CASE pending = {}
      <4>1. SetToSeq(pending) \in Seq(CallRec) /\ Len(SetToSeq(pending)) = 0
        BY <2>3, <3>1, SetToSeqType, FS_EmptySet
      <4>2. SetToSeq(pending) = <<>>
        BY <4>1, EmptySeq
      <4>3. events' = events
        BY <1>4, <2>3, <4>2, ConcatEmptySeq
      <4> QED BY <2>3, <4>3 DEF CallInv, Journal, FreshAbsence, SentBound, Empty
    <3>2. CASE pending # {}
      <4>1. PICK x \in pending : pending = {x}
        BY <1>4, <3>2 DEF CallInv, Journal
      <4>2. Cardinality(pending) = 1
        BY <4>1, FS_Singleton
      <4>3. PICK q : q = SetToSeq(pending)
        OBVIOUS
      <4>4. q \in Seq(CallRec) /\ Len(q) = 1 /\ q[1] = x
        <5>1. q \in Seq(CallRec) /\ Len(q) = Cardinality(pending) /\ \A i \in 1 .. Len(q) : q[i] \in pending
          BY <2>3, <4>3, SetToSeqType
        <5> QED BY <4>1, <4>2, <5>1
      <4>5. q = <<x>>
        BY <4>4
      <4>6. events' = Append(events, x)
        BY <1>4, <2>3, <4>3, <4>5
      <4>7. x \in CallRec /\ (x.kind = "post" => Clear) /\ (served = "none" => ~Bold(x))
        BY <2>3, <4>1 DEF CallInv, Journal, SentBound
      <4>8. ~Empty
        BY <1>4, <4>1 DEF Empty
      <4> QED BY <4>6, <4>7, <4>8, AppendFresh DEF CallInv, Journal, SentBound
    <3> QED BY <3>1, <3>2
  <2>8. RunFresh(c)'
    BY <1>1, <1>4, <2>1, <2>7 DEF RunFresh, Empty
  <2>9. Locked'
    BY <1>1, <1>2, <2>1, <2>2, <2>8 DEF CallInv, CallVarsOK, Locked, Moved
  <2>10. SentBound'
    BY <1>2, <1>4, <2>7 DEF CallInv, SentBound, serverVars
  <2>11. Journal'
    BY <1>2, <1>4, <2>6, <2>7, CallsAssumption DEF Journal
  <2>12. CallVarsOK'
    BY <1>2, <1>4, <2>4, <2>5, <2>7 DEF CallInv, CallVarsOK, serverVars
  <2> QED BY <2>9, <2>10, <2>11, <2>12 DEF CallInv
<1> QED BY <1>3, <1>4 DEF Recover, InJournal

\* A client that is gone leaves the lock to nobody.
LEMMA GoneKeeps ==
    ASSUME CallInv, NEW k \in Clients, lock = k, Moved(k, Absent), lock' = NoClient
    PROVE  Locked' /\ client' \in [Clients -> CallRun] /\ lock' \in Clients \cup {NoClient}
  BY RecordTypes, CallsAssumption DEF CallInv, CallVarsOK, Locked, Moved

LEMMA DieKeeps == ASSUME CallInv, NEW k \in Clients, Die(k) PROVE CallInv'
<1>1. lock = k /\ client[k] \in CallRun /\ RunBound(client[k]) /\ RunFresh(client[k])
  BY AtWork DEF Die
<1>2. UNCHANGED <<style, intent, original, events, serverVars, told, runs>>
  BY DEF Die
<1>3. Locked' /\ client' \in [Clients -> CallRun] /\ lock' \in Clients \cup {NoClient}
  BY <1>1, GoneKeeps DEF Die, Moved
<1>4. PICK r : r = client[k].put
  OBVIOUS
<1>5. r \in CallRec /\ Partial \in CallRec /\ ~Bold(Partial) /\ ~InJournal(Partial) /\ Partial.kind # "post"
  BY <1>1, <1>4, RecordTypes DEF CallRun, Partial, Record, InJournal, EventKinds
<1>6. \/ pending' = pending \/ pending' = pending \cup {Partial}
      \/ pending' = pending \cup {r} /\ client[k].pc = "put"
  BY <1>4 DEF Die
<1>7. IsFiniteSet(pending') /\ pending' \subseteq CallRec
  BY <1>5, <1>6, FS_AddElement DEF CallInv, CallVarsOK
<1>8. CallVarsOK'
  BY <1>2, <1>3, <1>7 DEF CallInv, CallVarsOK, serverVars
<1>9. client[k].pc = "put" =>
        /\ served = "none" => ~Bold(r)
        /\ InJournal(r) => intent # NoReq /\ pending = {}
        /\ r.kind = "post" => Clear
  BY <1>1, <1>4, CallsAssumption DEF RunBound, RunFresh, InJournal, EventKinds
<1>10. SentBound'
  BY <1>2, <1>5, <1>6, <1>9 DEF CallInv, SentBound, serverVars
<1>11. Journal'
  <2>1. FreshAbsence' /\ (Clear => Clear')
    BY <1>2 DEF CallInv, Journal, FreshAbsence, Clear
  <2>2. (intent = NoReq => Empty)'
    BY <1>2, <1>5, <1>6, <1>9 DEF CallInv, Journal, Empty
  <2>3. \A x, y \in pending' : InJournal(x) /\ InJournal(y) => x = y
    BY <1>5, <1>6, <1>9 DEF CallInv, Journal
  <2>4. \A x \in pending' : x.kind = "post" => Clear'
    BY <1>5, <1>6, <1>9, <2>1 DEF CallInv, Journal
  <2> QED BY <2>1, <2>2, <2>3, <2>4 DEF Journal, InJournal
<1> QED BY <1>3, <1>8, <1>10, <1>11 DEF CallInv

LEMMA EndKeeps == ASSUME CallInv, NEW k \in Clients, End(k) PROVE CallInv'
<1>1. lock = k
  BY AtWork DEF End
<1>2. UNCHANGED <<style, intent, original, pending, events, serverVars, runs>>
  BY DEF End
<1>3. Locked' /\ client' \in [Clients -> CallRun] /\ lock' \in Clients \cup {NoClient}
  BY <1>1, GoneKeeps DEF End, Moved
<1>4. told' \in BOOLEAN
  BY DEF End, CIFinish, OwnerFinish
<1>5. CallVarsOK'
  BY <1>2, <1>3, <1>4 DEF CallInv, CallVarsOK, serverVars
<1>6. SentBound' /\ Journal'
  BY <1>2 DEF CallInv, SentBound, Journal, Bold, FreshAbsence, Empty, Clear, InJournal, serverVars
<1> QED BY <1>3, <1>5, <1>6 DEF CallInv

LEMMA EnterKeeps ==
    ASSUME CallInv, NEW k \in Clients, NEW r \in Requests \cup Outside, NEW recon \in BOOLEAN, NEW retry \in BOOLEAN,
           Enter(k, r, recon, retry)
    PROVE  CallInv' /\ r \in Requests
<1> DEFINE staged == Record("intent", "none", r)
           sealed == intent = NoReq /\ staged \in pending
           next   == IF style = "ci" THEN "original" ELSE "recover"
           ask    == [Absent EXCEPT !.req = r, !.recon = recon, !.retry = retry, !.run = runs + 1]
           c      == IF ~sealed /\ (Conflict(r) \/ (intent # NoReq /\ staged \in pending)) THEN [ask EXCEPT !.pc = "end"]
                     ELSE IF sealed \/ intent # NoReq THEN [ask EXCEPT !.pc = next, !.existing = TRUE]
                     ELSE [ask EXCEPT !.pc = "put", !.put = staged, !.then = next]
<1>1. r \in Requests /\ lock = NoClient /\ runs < MaxRuns /\ lock' = k /\ runs' = runs + 1 /\ client[k].pc = "gone"
  BY DEF Enter, RequestRoute, OwnerRoute
<1>2. UNCHANGED <<style, original, events, serverVars, told>>
  BY DEF Enter
<1>3. /\ intent' = IF sealed THEN r ELSE intent
      /\ pending' = IF sealed THEN pending \ {staged} ELSE pending
      /\ client' = [client EXCEPT ![k] = c]
  BY DEF Enter
<1>4. staged \in CallRec /\ staged.kind = "intent" /\ staged.req = r /\ ~InJournal(staged) /\ ~Bold(staged)
  <2>1. r \in Requests \cup {NoReq} /\ "none" \in Answers
    BY <1>1 DEF Answers
  <2> QED BY <2>1, RecordTypes DEF InJournal, EventKinds, Bold
<1>5. PICK a : a = ask
  OBVIOUS
<1>6. /\ a \in CallRun /\ a.req = r /\ a.run = runs + 1 /\ a.pc = "gone" /\ a.put = Nothing /\ a.saw = Nothing
      /\ a.existing = FALSE /\ runs + 1 \in 1 .. MaxRuns /\ a.then = "gone"
  <2>1. Absent \in CallRun /\ runs \in 0 .. MaxRuns /\ runs < MaxRuns /\ MaxRuns \in Nat
    BY <1>1, RecordTypes, CallsAssumption DEF CallInv, CallVarsOK
  <2>2. /\ Absent.pc = "gone" /\ Absent.put = Nothing /\ Absent.saw = Nothing /\ Absent.existing = FALSE
        /\ Absent.then = "gone"
    BY DEF Absent
  <2>3. ASSUME NEW d \in CallRun, NEW n \in 0 .. MaxRuns
        PROVE  LET x == [d EXCEPT !.req = r, !.recon = recon, !.retry = retry, !.run = n]
               IN  /\ x \in CallRun /\ x.req = r /\ x.run = n /\ x.pc = d.pc /\ x.put = d.put /\ x.saw = d.saw
                   /\ x.existing = d.existing /\ x.then = d.then
    BY <1>1 DEF CallRun
  <2>4. runs + 1 \in 0 .. MaxRuns /\ runs + 1 \in 1 .. MaxRuns
    BY <2>1
  <2> QED BY <1>5, <2>1, <2>2, <2>3, <2>4
<1>7. next \in {"original", "recover"} /\ next \in CallPCs
  BY DEF CallPCs
<1>8. Nothing \in CallRec /\ ~Bold(Nothing) /\ Nothing.kind = "none"
  BY RecordTypes DEF Nothing
<1>9. intent \in Requests => ~sealed
  BY CallsAssumption
<1>10. pending' \subseteq pending /\ IsFiniteSet(pending')
  BY <1>3, FS_Subset DEF CallInv, CallVarsOK
<1>11. sealed => post = {}
  BY CallsAssumption DEF CallInv, CallVarsOK, SentBound
<1>12. PICK d : /\ d \in CallRun /\ Moved(k, d) /\ d.req = r /\ d.run = runs + 1 /\ d.saw = Nothing
                /\ \/ d.pc = "end" /\ d.put = Nothing
                   \/ d.pc \in {"original", "recover"} /\ d.existing /\ d.put = Nothing /\ intent' = r
                   \/ /\ d.pc = "put" /\ d.put = staged /\ d.then \in {"original", "recover"} /\ ~d.existing
                      /\ intent = NoReq /\ intent' = NoReq
  <2> HIDE DEF staged
  <2>1. CASE ~sealed /\ (Conflict(r) \/ (intent # NoReq /\ staged \in pending))
    <3>1. client' = [client EXCEPT ![k] = [a EXCEPT !.pc = "end"]]
      <4>1. c = [ask EXCEPT !.pc = "end"]
        <5> HIDE DEF ask, sealed
        <5> QED BY <2>1
      <4> HIDE DEF c, ask
      <4> QED BY <1>3, <1>5, <4>1
    <3>2. PICK d : d = [a EXCEPT !.pc = "end"]
      OBVIOUS
    <3>3. d \in CallRun /\ d.req = r /\ d.run = runs + 1 /\ d.saw = Nothing /\ d.pc = "end" /\ d.put = Nothing
      BY <1>6, <3>2 DEF CallRun, CallPCs
    <3> QED BY <3>1, <3>2, <3>3 DEF Moved
  <2>2. CASE ~(~sealed /\ (Conflict(r) \/ (intent # NoReq /\ staged \in pending))) /\ (sealed \/ intent # NoReq)
    <3>1. client' = [client EXCEPT ![k] = [a EXCEPT !.pc = next, !.existing = TRUE]]
      BY <1>3, <1>5, <2>2
    <3> HIDE DEF next
    <3>2. PICK d : d = [a EXCEPT !.pc = next, !.existing = TRUE]
      OBVIOUS
    <3>3. d \in CallRun /\ d.req = r /\ d.run = runs + 1 /\ d.saw = Nothing /\ d.pc = next /\ d.put = Nothing /\ d.existing
      BY <1>6, <1>7, <3>2 DEF CallRun
    <3>4. intent' = r
      BY <1>3, <2>2 DEF Conflict
    <3> QED BY <1>7, <3>1, <3>2, <3>3, <3>4 DEF Moved
  <2>3. CASE ~(~sealed /\ (Conflict(r) \/ (intent # NoReq /\ staged \in pending))) /\ ~(sealed \/ intent # NoReq)
    <3>1. client' = [client EXCEPT ![k] = [a EXCEPT !.pc = "put", !.put = staged, !.then = next]]
      BY <1>3, <1>5, <2>3
    <3> HIDE DEF next
    <3>2. PICK d : d = [a EXCEPT !.pc = "put", !.put = staged, !.then = next]
      OBVIOUS
    <3>3. d \in CallRun /\ d.req = r /\ d.run = runs + 1 /\ d.saw = Nothing /\ d.pc = "put" /\ d.put = staged
      BY <1>4, <1>6, <1>7, <3>2 DEF CallRun, CallPCs
    <3>4. d.then = next /\ ~d.existing
      BY <1>4, <1>6, <1>7, <3>2 DEF CallRun, CallPCs
    <3>5. intent = NoReq /\ intent' = NoReq
      BY <1>3, <2>3
    <3> QED BY <1>7, <3>1, <3>2, <3>3, <3>4, <3>5 DEF Moved
  <2> QED BY <2>1, <2>2, <2>3
<1>13. Clear => Clear'
  BY <1>2 DEF Clear
<1>14. Journal'
  <2>1. FreshAbsence'
    BY <1>2 DEF CallInv, Journal, FreshAbsence
  <2>2. intent' = NoReq => Empty'
    BY <1>1, <1>2, <1>3, <1>10, CallsAssumption DEF CallInv, Journal, Empty
  <2> QED BY <1>10, <1>13, <2>1, <2>2 DEF CallInv, Journal, InJournal
<1> HIDE DEF staged, sealed, c, ask, next
<1>15. RunBound(d)'
  BY <1>1, <1>4, <1>6, <1>8, <1>12 DEF RunBound, Past, InJournal
<1>16. RunFresh(d)'
  BY <1>4, <1>8, <1>12, <1>14, CallsAssumption DEF RunFresh, Journal, InJournal, EventKinds
<1>17. Locked'
  BY <1>1, <1>12, <1>15, <1>16, CallsAssumption DEF CallInv, CallVarsOK, Locked, Moved
<1>18. intent' \in Requests \cup {NoReq}
  BY <1>1, <1>3 DEF CallInv, CallVarsOK
<1>19. CallVarsOK'
  BY <1>1, <1>2, <1>6, <1>10, <1>12, <1>18 DEF CallInv, CallVarsOK, serverVars, Moved
<1>20. SentBound'
  <2>1. \A m \in post : m.req = intent'
    BY <1>3, <1>11 DEF CallInv, SentBound
  <2> QED BY <1>2, <1>10, <2>1 DEF CallInv, SentBound, Bold, serverVars
<1> QED BY <1>1, <1>14, <1>17, <1>19, <1>20 DEF CallInv

LEMMA ServeKeeps == ASSUME CallInv, NEW m \in post, Serve(m) PROVE CallInv'
<1>1. UNCHANGED <<style, intent, original, pending, events, lock, client, told, runs>> /\ post' = post \ {m}
  BY DEF Serve
<1>2. m.req \in Requests /\ m.run \in 1 .. MaxRuns /\ m.req = intent
  BY DEF CallInv, CallVarsOK, SentBound
<1>3. /\ answer' \in [1 .. MaxRuns -> Answers] /\ served' \in {"none", "dispatching", "completed"}
      /\ effect' \in Requests \cup {NoReq}
      /\ served' = "none" <=> effect' = NoReq
      /\ served' = "none" => served = "none" /\ \A i \in 1 .. MaxRuns : answer'[i] \notin {"dispatching", "completed"}
  <2>1. CASE served = "none" /\ answer' = [answer EXCEPT ![m.run] = "refused"] /\ UNCHANGED <<served, effect>>
    BY <1>2, <2>1 DEF CallInv, CallVarsOK, SentBound, Answers
  <2>2. CASE /\ served = "none" /\ served' \in {"dispatching", "completed"} /\ effect' = m.req
             /\ answer' = [answer EXCEPT ![m.run] = served']
    BY <1>2, <2>2, CallsAssumption DEF CallInv, CallVarsOK, Answers
  <2>3. CASE /\ served # "none" /\ UNCHANGED <<served, effect>>
             /\ answer' = [answer EXCEPT ![m.run] = IF m.req = effect THEN served ELSE "conflict"]
    BY <1>2, <2>3 DEF CallInv, CallVarsOK, SentBound, Answers
  <2> QED BY <2>1, <2>2, <2>3 DEF Serve
<1>4. CallVarsOK'
  BY <1>1, <1>3 DEF CallInv, CallVarsOK
<1>5. SentBound' /\ Journal'
  BY <1>1, <1>3 DEF CallInv, SentBound, Journal, Bold, FreshAbsence, Empty, Clear, InJournal
<1>6. ASSUME NEW c, RunBound(c), RunFresh(c) PROVE RunBound(c)' /\ RunFresh(c)'
  BY <1>1, <1>3, <1>6 DEF RunBound, RunFresh, Empty, Clear
<1>7. Locked'
  BY <1>1, <1>6 DEF CallInv, Locked
<1> QED BY <1>4, <1>5, <1>7 DEF CallInv

LEMMA CallStill ==
    ASSUME CallInv, UNCHANGED <<style, intent, original, pending, events, lock, client, post, answer, effect, told>>,
           runs' \in 0 .. MaxRuns, served' = served \/ (served = "dispatching" /\ served' = "completed")
    PROVE  CallInv'
<1>1. CallVarsOK' /\ SentBound' /\ Journal'
  BY DEF CallInv, CallVarsOK, SentBound, Journal, Bold, FreshAbsence, Empty, Clear, InJournal
<1>2. ASSUME NEW c, RunBound(c), RunFresh(c) PROVE RunBound(c)' /\ RunFresh(c)'
  BY <1>2 DEF RunBound, RunFresh, Empty, Clear
<1>3. Locked'
  BY <1>2 DEF CallInv, Locked
<1> QED BY <1>1, <1>3 DEF CallInv

LEMMA CallStep == ASSUME CallInv, CallsNext PROVE CallInv'
<1>1. CASE Complete
  BY <1>1, CallStill DEF Complete, CallInv, CallVarsOK
<1>2. ASSUME NEW k \in Clients, NEW r \in Outside, Refuse(k, r) PROVE CallInv'
  <2>1. runs' \in 0 .. MaxRuns
    BY <1>2, CallsAssumption DEF Refuse, CallInv, CallVarsOK
  <2> QED BY <1>2, <2>1, CallStill DEF Refuse, serverVars
<1>3. ASSUME NEW m \in post, Serve(m) PROVE CallInv'
  BY <1>3, ServeKeeps
<1>4. ASSUME NEW k \in Clients,
             \/ \E r \in Requests \cup Outside, recon, retry \in BOOLEAN : Enter(k, r, recon, retry)
             \/ Save(k) \/ Die(k) \/ End(k) \/ Original(k) \/ Recover(k) \/ Decide(k)
             \/ Inspect(k) \/ Judge(k) \/ Submit(k) \/ Hear(k)
      PROVE  CallInv'
  BY <1>4, EnterKeeps, SaveKeeps, DieKeeps, EndKeeps, OriginalKeeps, RecoverKeeps, DecideKeeps, InspectKeeps,
     JudgeKeeps, SubmitKeeps, HearKeeps
<1> QED BY <1>1, <1>2, <1>3, <1>4 DEF CallsNext

\* Every step of the call is a step of the abstract one, or none of it.
LEMMA CallImplements == ASSUME CallInv, CallsNext PROVE [Once!Next]_(Once!once)
<1>1. CASE UNCHANGED <<intent, effect, told>>
  BY <1>1 DEF Once!once
<1>2. ASSUME NEW k \in Clients, Save(k), intent' # intent PROVE Once!Next
  <2>1. lock = k /\ RunBound(client[k]) /\ client[k].pc = "put"
    BY <1>2, AtWork DEF Save
  <2>2. client[k].put.kind = "intent" /\ intent' = client[k].put.req /\ UNCHANGED <<effect, told>>
    BY <1>2 DEF Save, serverVars
  <2>3. intent = NoReq /\ intent' \in Requests
    BY <2>1, <2>2 DEF RunBound
  <2> QED BY <2>2, <2>3 DEF Once!Next, Once!Bind
<1>3. ASSUME NEW k \in Clients, NEW r \in Requests \cup Outside, NEW recon \in BOOLEAN, NEW retry \in BOOLEAN,
             Enter(k, r, recon, retry), intent' # intent
      PROVE  Once!Next
  <2>1. r \in Requests
    BY <1>3, EnterKeeps
  <2>2. intent = NoReq /\ intent' = r /\ UNCHANGED <<effect, told>>
    BY <1>3 DEF Enter, serverVars
  <2> QED BY <2>1, <2>2 DEF Once!Next, Once!Bind
<1>4. ASSUME NEW m \in post, Serve(m), effect' # effect PROVE Once!Next
  <2>1. m.req \in Requests /\ m.req = intent
    BY <1>4 DEF CallInv, CallVarsOK, SentBound
  <2>2. served = "none" /\ effect' = m.req /\ UNCHANGED <<intent, told>>
    BY <1>4 DEF Serve
  <2>3. effect = NoReq
    BY <2>2 DEF CallInv, SentBound
  <2> QED BY <2>1, <2>2, <2>3, CallsAssumption DEF Once!Next, Once!Happen
<1>5. ASSUME NEW k \in Clients, End(k), told' # told PROVE Once!Next
  <2>1. lock = k /\ RunBound(client[k])
    BY <1>5, AtWork DEF End
  <2>2. Bold(client[k].saw) /\ told' = TRUE
    BY <1>5 DEF End, CIFinish, OwnerFinish, Bold, CallInv, CallVarsOK
  <2>3. effect # NoReq
    BY <2>1, <2>2 DEF RunBound, CallInv, SentBound
  <2>4. UNCHANGED <<intent, effect>>
    BY <1>5 DEF End, serverVars
  <2> QED BY <2>2, <2>3, <2>4 DEF Once!Next, Once!Learn
<1>6. \/ UNCHANGED <<intent, effect, told>>
      \/ \E k \in Clients : \/ Save(k) /\ intent' # intent
                            \/ End(k) /\ told' # told
                            \/ \E r \in Requests \cup Outside, recon, retry \in BOOLEAN :
                                  Enter(k, r, recon, retry) /\ intent' # intent
      \/ \E m \in post : Serve(m) /\ effect' # effect
  <2>1. Complete \/ (\E k \in Clients, r \in Outside : Refuse(k, r)) => UNCHANGED <<intent, effect, told>>
    BY DEF Complete, Refuse, serverVars
  <2>2. \A m \in post : Serve(m) => UNCHANGED <<intent, told>>
    BY DEF Serve
  <2>3. \A k \in Clients : Save(k) => UNCHANGED <<effect, told>>
    BY DEF Save, serverVars
  <2>4. \A k \in Clients : End(k) => UNCHANGED <<intent, effect>>
    BY DEF End, serverVars
  <2>5. \A k \in Clients, r \in Requests \cup Outside, recon, retry \in BOOLEAN :
            Enter(k, r, recon, retry) => UNCHANGED <<effect, told>>
    BY DEF Enter, serverVars
  <2>6. \A k \in Clients : Die(k) \/ Original(k) \/ Recover(k) \/ Decide(k) => UNCHANGED <<intent, effect, told>>
    BY DEF Die, Original, Recover, Decide, serverVars
  <2>7. \A k \in Clients : Inspect(k) \/ Judge(k) \/ Submit(k) \/ Hear(k) => UNCHANGED <<intent, effect, told>>
    BY DEF Inspect, Judge, Submit, Hear, serverVars
  <2> QED BY <2>1, <2>2, <2>3, <2>4, <2>5, <2>6, <2>7 DEF CallsNext
<1> QED BY <1>1, <1>2, <1>3, <1>4, <1>5, <1>6

\* The call is one, for any number of clients, runs and requests: a client that dies at any
\* point, with its record staged whole or in part, and a request that arrives after its client
\* has gone, never change what the identity binds, repeat its effect, have a caller told of an
\* effect that did not happen, or submit again but on a fresh absence.
THEOREM CallIsOne == Spec => CallsOnce
<1>1. Init => CallInv
  <2> SUFFICES ASSUME Init PROVE CallInv
    OBVIOUS
  <2>1. CallsInit
    BY DEF Init
  <2>2. CallVarsOK
    <3>1. IsFiniteSet(pending) /\ Absent \in CallRun /\ 0 \in 0 .. MaxRuns /\ "none" \in Answers
      BY <2>1, RecordTypes, FS_EmptySet, CallsAssumption DEF CallsInit, Answers
    <3>2. events \in Seq(CallRec)
      BY <2>1 DEF CallsInit
    <3>3. client \in [Clients -> CallRun] /\ answer \in [1 .. MaxRuns -> Answers]
      BY <2>1, <3>1 DEF CallsInit
    <3> QED BY <2>1, <3>1, <3>2, <3>3 DEF CallsInit, CallVarsOK
  <2>3. Locked
    BY <2>1, CallsAssumption DEF CallsInit, Locked
  <2>4. SentBound /\ Journal
    BY <2>1 DEF CallsInit, SentBound, Journal, FreshAbsence, Empty
  <2> QED BY <2>2, <2>3, <2>4 DEF CallInv
<1>2. CallInv /\ [Next]_vars => CallInv'
  <2> SUFFICES ASSUME CallInv, [Next]_vars PROVE CallInv'
    OBVIOUS
  <2>1. CASE CallsNext
    BY <2>1, CallStep
  <2>2. CASE UNCHANGED callVars
    BY <2>2, CallStill DEF callVars, CallInv, CallVarsOK
  <2> QED BY <2>1, <2>2 DEF Next, vars
<1>3. CallInv => FreshAbsence
  BY DEF CallInv, Journal
<1>4. Init => Once!Init
  BY DEF Init, CallsInit, Once!Init
<1>5. CallInv /\ [Next]_vars => [Once!Next]_(Once!once)
  <2> SUFFICES ASSUME CallInv, [Next]_vars PROVE [Once!Next]_(Once!once)
    OBVIOUS
  <2>1. CASE CallsNext
    BY <2>1, CallImplements
  <2>2. CASE UNCHANGED callVars
    BY <2>2 DEF callVars, Once!once
  <2> QED BY <2>1, <2>2 DEF Next, vars
<1> QED BY <1>1, <1>2, <1>3, <1>4, <1>5, PTL DEF Spec, CallsOnce, Once!Spec

(************************** packages and bases as pinned ******************************)
\* What a cache's file may be, what a request may hold, and what it is about to read.
GoodBytes(c, b) == b = "pinned" \/ (c = "go" /\ b = "other")
FetchRec  == [pc : {"idle", "look", "get", "check", "place", "reopen", "extract", "send"}, cache : Caches,
              bytes : Bytes \cup {"none"}]
Holds(f) ==
    /\ f.pc \in {"place", "send"} => GoodBytes(f.cache, f.bytes)
    /\ f.pc = "reopen" => f.cache # "deb" /\ kept[f.cache] # "none"
    /\ f.pc = "extract" => f.cache = "deb" /\ kept["deb"] = "pinned"
KeptInv ==
    /\ kept \in [Caches -> Bytes \cup {"none"}]
    /\ \A c \in Caches : kept[c] = "none" \/ GoodBytes(c, kept[c]) \/ c = "deb"
    /\ dataArchive \in {"none", "pinned"} /\ fetch \in [Fetchers -> FetchRec]
    /\ \A f \in Fetchers : Holds(fetch[f])
    /\ AnsweredTrue

\* What becomes of a request's record.
LEMMA FetchMoves ==
    ASSUME KeptInv, NEW f \in Fetchers, NEW pc \in {"idle", "look", "get", "check", "place", "reopen", "extract", "send"},
           NEW b \in Bytes \cup {"none"}
    PROVE  /\ Go(f, pc) => \E x \in FetchRec : /\ fetch' = [fetch EXCEPT ![f] = x] /\ x.pc = pc
                                               /\ x.cache = fetch[f].cache /\ x.bytes = fetch[f].bytes
           /\ Hold(f, pc, b) => \E x \in FetchRec : /\ fetch' = [fetch EXCEPT ![f] = x] /\ x.pc = pc
                                                    /\ x.cache = fetch[f].cache /\ x.bytes = b
           /\ Refused(f) => \E x \in FetchRec : fetch' = [fetch EXCEPT ![f] = x] /\ x.pc = "idle"
<1>1. fetch[f] \in FetchRec /\ fetch \in [Fetchers -> FetchRec]
  BY DEF KeptInv
<1>2. PICK d : d = fetch[f]
  OBVIOUS
<1>3. ASSUME Go(f, pc) PROVE \E x \in FetchRec : /\ fetch' = [fetch EXCEPT ![f] = x] /\ x.pc = pc
                                                 /\ x.cache = d.cache /\ x.bytes = d.bytes
  <2>1. PICK x : x = [d EXCEPT !.pc = pc]
    OBVIOUS
  <2>2. x \in FetchRec /\ x.pc = pc /\ x.cache = d.cache /\ x.bytes = d.bytes
    BY <1>1, <1>2, <2>1 DEF FetchRec
  <2>3. fetch' = [fetch EXCEPT ![f] = x]
    BY <1>2, <1>3, <2>1 DEF Go
  <2> QED BY <2>2, <2>3
<1>4. ASSUME Hold(f, pc, b) PROVE \E x \in FetchRec : /\ fetch' = [fetch EXCEPT ![f] = x] /\ x.pc = pc
                                                      /\ x.cache = d.cache /\ x.bytes = b
  <2>1. PICK x : x = [d EXCEPT !.pc = pc, !.bytes = b]
    OBVIOUS
  <2>2. x \in FetchRec /\ x.pc = pc /\ x.cache = d.cache /\ x.bytes = b
    BY <1>1, <1>2, <2>1 DEF FetchRec
  <2>3. fetch' = [fetch EXCEPT ![f] = x]
    BY <1>1, <1>2, <1>4, <2>1 DEF Hold
  <2> QED BY <2>2, <2>3
<1>5. NoFetch \in FetchRec /\ NoFetch.pc = "idle"
  BY DEF NoFetch, FetchRec, Caches
<1> QED BY <1>2, <1>3, <1>4, <1>5 DEF Refused

\* A request moves; the caches, if at all, only towards what it is about to read.
LEMMA FetchKeeps ==
    ASSUME KeptInv, NEW f \in Fetchers, NEW x \in FetchRec, fetch' = [fetch EXCEPT ![f] = x], Holds(x)',
           kept' \in [Caches -> Bytes \cup {"none"}],
           \A c \in Caches : kept'[c] = "none" \/ GoodBytes(c, kept'[c]) \/ c = "deb",
           \A c \in Caches \ {"deb"} : kept[c] # "none" => kept'[c] # "none",
           kept["deb"] = "pinned" => kept'["deb"] = "pinned",
           dataArchive' \in {"none", "pinned"}, AnsweredTrue'
    PROVE  KeptInv'
<1>1. "deb" \in Caches
  BY DEF Caches
<1>2. ASSUME NEW g \in Fetchers PROVE Holds(fetch[g])'
  <2>1. CASE g = f
    BY <2>1 DEF KeptInv, Holds
  <2>2. CASE g # f
    <3>1. fetch'[g] = fetch[g] /\ fetch[g] \in FetchRec /\ Holds(fetch[g])
      BY <2>2 DEF KeptInv
    <3>2. PICK d \in FetchRec : d = fetch[g]
      BY <3>1
    <3>3. Holds(d)'
      BY <1>1, <3>1, <3>2 DEF Holds, FetchRec
    <3> QED BY <3>1, <3>2, <3>3 DEF Holds
  <2> QED BY <2>1, <2>2
<1>3. fetch' \in [Fetchers -> FetchRec]
  BY DEF KeptInv
<1> QED BY <1>2, <1>3 DEF KeptInv

LEMMA CacheStep == ASSUME KeptInv, CacheNext PROVE KeptInv'
<1>1. "deb" \in Caches /\ kept \in [Caches -> Bytes \cup {"none"}] /\ dataArchive \in {"none", "pinned"}
  BY DEF KeptInv, Caches
<1>2. ASSUME NEW f \in Fetchers, NEW x \in FetchRec, fetch' = [fetch EXCEPT ![f] = x], Holds(x),
             UNCHANGED <<kept, dataArchive, handed>>
      PROVE  KeptInv'
  BY <1>1, <1>2, FetchKeeps DEF KeptInv, AnsweredTrue, Holds
<1>3. ASSUME NEW x, x.pc \notin {"place", "send", "reopen", "extract"} PROVE Holds(x) /\ Holds(x)'
  BY <1>3 DEF Holds
<1>4. CASE ServePage
  BY <1>4 DEF ServePage, KeptInv, Holds, AnsweredTrue
<1>5. CASE ServerEnds
  <2>1. NoFetch \in FetchRec /\ NoFetch.pc = "idle"
    BY DEF NoFetch, FetchRec, Caches
  <2> QED BY <1>3, <1>5, <2>1 DEF ServerEnds, KeptInv, AnsweredTrue
<1>6. CASE PackageRots
  <2>1. \A f \in Fetchers : fetch[f] \in FetchRec /\ Holds(fetch[f]) /\ fetch[f].pc # "extract"
    BY <1>6 DEF PackageRots, KeptInv, Holds
  <2>2. UNCHANGED <<dataArchive, fetch, handed>> /\ kept' = [kept EXCEPT !["deb"] = "other"]
    BY <1>6 DEF PackageRots
  <2>3. kept' \in [Caches -> Bytes \cup {"none"}] /\ \A c \in Caches \ {"deb"} : kept'[c] = kept[c]
    BY <1>1, <2>2 DEF Bytes
  <2>4. \A f \in Fetchers : Holds(fetch[f])'
    BY <2>1, <2>2, <2>3 DEF Holds, FetchRec
  <2> QED BY <2>2, <2>3, <2>4 DEF KeptInv, AnsweredTrue
<1>7. ASSUME NEW f \in Fetchers, NEW c \in Caches, AskFor(f, c) PROVE KeptInv'
  <2>1. PICK x : x = [NoFetch EXCEPT !.pc = "look", !.cache = c]
    OBVIOUS
  <2>2. x \in FetchRec /\ x.pc = "look"
    BY <2>1 DEF NoFetch, FetchRec, Caches, Bytes
  <2> QED BY <1>2, <1>3, <1>7, <2>1, <2>2 DEF AskFor
<1>8. ASSUME NEW f \in Fetchers, Look(f) PROVE KeptInv'
  <2>1. UNCHANGED <<kept, dataArchive, handed>> /\ fetch[f] \in FetchRec /\ fetch[f].cache \in Caches \ {"deb"}
    BY <1>8 DEF Look, KeptInv, FetchRec
  <2>2. CASE kept[fetch[f].cache] # "none" /\ Hold(f, "send", kept[fetch[f].cache])
    <3>1. kept[fetch[f].cache] \in Bytes \cup {"none"} /\ GoodBytes(fetch[f].cache, kept[fetch[f].cache])
      BY <1>1, <2>1, <2>2 DEF KeptInv
    <3>2. PICK x \in FetchRec : /\ fetch' = [fetch EXCEPT ![f] = x] /\ x.pc = "send" /\ x.cache = fetch[f].cache
                                /\ x.bytes = kept[fetch[f].cache]
      BY <2>2, <3>1, FetchMoves
    <3>3. Holds(x)
      BY <3>1, <3>2 DEF Holds
    <3> QED BY <1>2, <2>1, <3>2, <3>3
  <2>3. CASE Refused(f)
    BY <1>2, <1>3, <2>1, <2>3, FetchMoves
  <2>4. CASE Go(f, "get")
    BY <1>2, <1>3, <2>1, <2>4, FetchMoves
  <2> QED BY <1>8, <2>2, <2>3, <2>4 DEF Look
<1>9. ASSUME NEW f \in Fetchers, Ensure(f) PROVE KeptInv'
  <2>1. UNCHANGED <<dataArchive, handed>> /\ fetch[f] \in FetchRec /\ fetch[f].cache = "deb"
    BY <1>9 DEF Ensure, KeptInv
  <2>2. CASE kept["deb"] = "pinned" /\ Hold(f, "extract", "pinned") /\ UNCHANGED kept
    <3>1. PICK x \in FetchRec : fetch' = [fetch EXCEPT ![f] = x] /\ x.pc = "extract" /\ x.cache = fetch[f].cache
      BY <2>2, FetchMoves DEF Bytes
    <3>2. Holds(x)
      BY <2>1, <2>2, <3>1 DEF Holds
    <3> QED BY <1>2, <2>1, <2>2, <3>1, <3>2
  <2>3. CASE kept["deb"] # "pinned" /\ Go(f, "get") /\ kept' = [kept EXCEPT !["deb"] = "none"]
    <3>1. PICK x \in FetchRec : fetch' = [fetch EXCEPT ![f] = x] /\ x.pc = "get"
      BY <2>3, FetchMoves
    <3>2. kept' \in [Caches -> Bytes \cup {"none"}] /\ \A c \in Caches \ {"deb"} : kept'[c] = kept[c]
      BY <1>1, <2>3
    <3>3. AnsweredTrue'
      BY <2>1 DEF KeptInv, AnsweredTrue
    <3>4. \A c \in Caches : kept'[c] = "none" \/ GoodBytes(c, kept'[c]) \/ c = "deb"
      BY <3>2 DEF KeptInv
    <3> QED BY <1>1, <1>3, <2>1, <2>3, <3>1, <3>2, <3>3, <3>4, FetchKeeps
  <2> QED BY <1>9, <2>2, <2>3 DEF Ensure
<1>10. ASSUME NEW f \in Fetchers, Get(f) PROVE KeptInv'
  BY <1>2, <1>3, <1>10, FetchMoves DEF Get
<1>11. ASSUME NEW f \in Fetchers, CheckBytes(f) PROVE KeptInv'
  <2>1. UNCHANGED <<kept, dataArchive, handed>>
    BY <1>11 DEF CheckBytes
  <2>2. PICK b \in Bytes : IF Checked(fetch[f].cache, b) THEN Hold(f, "place", b) ELSE Refused(f)
    BY <1>11 DEF CheckBytes
  <2>3. CASE Refused(f)
    BY <1>2, <1>3, <2>1, <2>3, FetchMoves
  <2>4. CASE Checked(fetch[f].cache, b) /\ Hold(f, "place", b)
    <3>1. PICK x \in FetchRec : /\ fetch' = [fetch EXCEPT ![f] = x] /\ x.pc = "place" /\ x.cache = fetch[f].cache
                                /\ x.bytes = b
      BY <2>4, FetchMoves
    <3>2. Holds(x)
      BY <2>4, <3>1 DEF Holds, GoodBytes, Checked, Bytes
    <3> QED BY <1>2, <2>1, <3>1, <3>2
  <2> QED BY <2>2, <2>3, <2>4
<1>12. ASSUME NEW f \in Fetchers, Place(f) PROVE KeptInv'
  <2>1. UNCHANGED <<dataArchive, handed>> /\ fetch[f] \in FetchRec /\ GoodBytes(fetch[f].cache, fetch[f].bytes)
    BY <1>12 DEF Place, KeptInv, Holds
  <2>2. CASE Refused(f) /\ UNCHANGED kept
    BY <1>2, <1>3, <2>1, <2>2, FetchMoves
  <2>3. CASE /\ kept' = [kept EXCEPT ![fetch[f].cache] = fetch[f].bytes]
             /\ Go(f, IF fetch[f].cache = "deb" THEN "extract" ELSE "reopen")
    <3>1. PICK x \in FetchRec : /\ fetch' = [fetch EXCEPT ![f] = x] /\ x.cache = fetch[f].cache
                                /\ x.pc = (IF fetch[f].cache = "deb" THEN "extract" ELSE "reopen")
      BY <2>3, FetchMoves
    <3>2. PICK c \in Caches, b \in Bytes : c = fetch[f].cache /\ b = fetch[f].bytes
      BY <2>1 DEF FetchRec, GoodBytes, Bytes
    <3>3. GoodBytes(c, b) /\ kept' = [kept EXCEPT ![c] = b] /\ b # "none"
      BY <2>1, <2>3, <3>2 DEF GoodBytes
    <3>4. kept' \in [Caches -> Bytes \cup {"none"}] /\ kept'[c] = b /\ \A e \in Caches : e # c => kept'[e] = kept[e]
      BY <1>1, <3>3
    <3>5. AnsweredTrue'
      BY <2>1 DEF KeptInv, AnsweredTrue
    <3>6. Holds(x)'
      BY <3>1, <3>2, <3>3, <3>4 DEF Holds, GoodBytes
    <3>7. \A e \in Caches : kept'[e] = "none" \/ GoodBytes(e, kept'[e]) \/ e = "deb"
      BY <3>3, <3>4 DEF KeptInv
    <3>8. kept["deb"] = "pinned" => kept'["deb"] = "pinned"
      BY <1>1, <3>3, <3>4 DEF GoodBytes
    <3>9. \A e \in Caches \ {"deb"} : kept[e] # "none" => kept'[e] # "none"
      BY <3>3, <3>4
    <3> QED BY <1>1, <2>1, <3>1, <3>4, <3>5, <3>6, <3>7, <3>8, <3>9, FetchKeeps
  <2> QED BY <1>12, <2>2, <2>3 DEF Place
<1>13. ASSUME NEW f \in Fetchers, Reopen(f) PROVE KeptInv'
  <2>1. /\ UNCHANGED <<kept, dataArchive, handed>> /\ fetch[f] \in FetchRec /\ fetch[f].cache \in Caches \ {"deb"}
        /\ kept[fetch[f].cache] # "none"
    BY <1>13 DEF Reopen, KeptInv, FetchRec, Holds
  <2>2. CASE Hold(f, "send", kept[fetch[f].cache])
    <3>1. kept[fetch[f].cache] \in Bytes \cup {"none"} /\ GoodBytes(fetch[f].cache, kept[fetch[f].cache])
      BY <1>1, <2>1, <2>2 DEF KeptInv
    <3>2. PICK x \in FetchRec : /\ fetch' = [fetch EXCEPT ![f] = x] /\ x.pc = "send" /\ x.cache = fetch[f].cache
                                /\ x.bytes = kept[fetch[f].cache]
      BY <2>2, <3>1, FetchMoves
    <3>3. Holds(x)
      BY <3>1, <3>2 DEF Holds
    <3> QED BY <1>2, <2>1, <3>2, <3>3
  <2>3. CASE Refused(f)
    BY <1>2, <1>3, <2>1, <2>3, FetchMoves
  <2> QED BY <1>13, <2>2, <2>3 DEF Reopen
<1>14. ASSUME NEW f \in Fetchers, ExtractData(f) PROVE KeptInv'
  <2>1. UNCHANGED <<kept, handed>> /\ kept["deb"] = "pinned"
    BY <1>14 DEF ExtractData, KeptInv, Holds
  <2>2. CASE Refused(f) /\ UNCHANGED dataArchive
    BY <1>2, <1>3, <2>1, <2>2, FetchMoves
  <2>3. CASE /\ dataArchive' = IF dataArchive = "none" THEN kept["deb"] ELSE dataArchive
             /\ Hold(f, "send", dataArchive')
    <3>1. dataArchive' = "pinned"
      BY <1>1, <2>1, <2>3
    <3>2. PICK x \in FetchRec : fetch' = [fetch EXCEPT ![f] = x] /\ x.pc = "send" /\ x.bytes = "pinned"
      BY <2>3, <3>1, FetchMoves DEF Bytes
    <3>3. Holds(x)'
      BY <3>2 DEF Holds, GoodBytes
    <3>4. AnsweredTrue'
      BY <2>1 DEF KeptInv, AnsweredTrue
    <3> QED BY <1>1, <2>1, <3>1, <3>2, <3>3, <3>4, FetchKeeps DEF KeptInv
  <2> QED BY <1>14, <2>2, <2>3 DEF ExtractData
<1>15. ASSUME NEW f \in Fetchers, Send(f) PROVE KeptInv'
  <2>1. UNCHANGED <<kept, dataArchive>> /\ GoodBytes(fetch[f].cache, fetch[f].bytes) /\ Refused(f)
    BY <1>15 DEF Send, KeptInv, Holds
  <2>2. AnsweredTrue'
    BY <1>15, <2>1 DEF Send, KeptInv, AnsweredTrue, GoodBytes
  <2>3. PICK x \in FetchRec : fetch' = [fetch EXCEPT ![f] = x] /\ x.pc = "idle"
    BY <2>1, FetchMoves DEF Bytes
  <2> QED BY <1>1, <1>3, <2>1, <2>2, <2>3, FetchKeeps DEF KeptInv
<1> QED BY <1>4, <1>5, <1>6, <1>7, <1>8, <1>9, <1>10, <1>11, <1>12, <1>13, <1>14, <1>15 DEF CacheNext

\* Within a boot a base's digest is of its whole file; what changed while the machine was
\* down has no mark of this boot, and nobody who checked it in an earlier one is left.
BaseDir == [there : BOOLEAN, rootfs : {"none", "part", "whole", "changed"}, size : Sizes \cup {0}, readonly : BOOLEAN,
            sum : {"none", "whole"}, mark : Nat]
BuilderAt(d) ==
    /\ builder.pc = "unpack" => d.sum = "none" /\ d.rootfs # "changed"
    /\ builder.pc = "unpacking" => d.sum = "none" /\ d.rootfs = "part"
    /\ builder.pc = "sum" => d.rootfs = "whole"
    /\ builder.pc \in {"seal", "created", "mark"} => d.rootfs # "changed"
DirTrue(d) ==
    /\ d.sum = "whole" => d.rootfs \in {"whole", "changed"}
    /\ d.mark <= boot /\ (d.rootfs = "changed" => d.mark < boot)
    /\ node.pc \in {"mark", "pin"} => d.rootfs # "changed"
BaseInv ==
    /\ boot \in Nat \ {0} /\ basedir \in BaseDir
    /\ builder \in [pc : {"idle", "exists", "intent", "unpack", "unpacking", "sum", "seal", "created", "mark"},
                    size : Sizes \cup {0}, open : BOOLEAN]
    /\ node \in [pc : {"down", "serving", "stat", "marker", "mark", "starting", "pin"}, knows : BOOLEAN]
    /\ BuilderAt(basedir) /\ DirTrue(basedir) /\ BaseTrue

LEMMA BaseStep == ASSUME BaseInv, BaseNext PROVE BaseInv'
<1>1. NoDir \in BaseDir /\ NoDir.sum = "none" /\ NoDir.rootfs = "none" /\ NoDir.mark = 0
  BY DEF NoDir, BaseDir
<1>2. \A s \in Sizes : BuildStarts(s) => BaseInv'
  BY DEF BuildStarts, IsOpen, BaseInv, BaseTrue, Whole, BuilderAt, DirTrue
<1>3. CASE BuildReplaces
  <2>1. UNCHANGED <<node, boot, given>> /\ builder.pc = "exists"
    BY <1>3 DEF BuildReplaces
  <2>2. basedir' \in {basedir, NoDir} /\ (Quit \/ Building("intent"))
    BY <1>3 DEF BuildReplaces
  <2>3. /\ builder'.pc \in {"idle", "intent"}
        /\ builder' \in [pc : {"idle", "exists", "intent", "unpack", "unpacking", "sum", "seal", "created", "mark"},
                         size : Sizes \cup {0}, open : BOOLEAN]
    <3>1. CASE Quit
      BY <3>1 DEF Quit, NoBuild
    <3>2. CASE Building("intent")
      BY <3>2 DEF Building, BaseInv
    <3> QED BY <2>2, <3>1, <3>2
  <2>4. BuilderAt(basedir)' /\ BaseTrue'
    BY <2>1, <2>3 DEF BuilderAt, BaseInv, BaseTrue
  <2>5. basedir' \in BaseDir /\ DirTrue(basedir)'
    BY <1>1, <2>1, <2>2 DEF BaseInv, DirTrue
  <2> QED BY <2>1, <2>3, <2>4, <2>5 DEF BaseInv
<1>4. CASE BuildIntent
  <2>1. PICK d : d = [NoDir EXCEPT !.there = TRUE]
    OBVIOUS
  <2>2. d \in BaseDir /\ d.sum = "none" /\ d.rootfs = "none" /\ d.mark = 0
    BY <2>1 DEF NoDir, BaseDir
  <2>3. CASE Quit /\ UNCHANGED basedir
    BY <1>4, <2>3 DEF BuildIntent, Quit, NoBuild, BaseInv, BaseTrue, BuilderAt, DirTrue
  <2>4. CASE basedir' = d /\ Building("unpack")
    BY <1>4, <2>2, <2>4 DEF BuildIntent, Building, BaseInv, BaseTrue, BuilderAt, DirTrue
  <2> QED BY <1>4, <2>1, <2>3, <2>4 DEF BuildIntent
<1>5. CASE Unpack
  BY <1>5 DEF Unpack, Building, BaseDir, BaseInv, BaseTrue, Whole, BuilderAt, DirTrue
<1>6. CASE Unpacked
  BY <1>6 DEF Unpacked, Building, BaseDir, BaseInv, BaseTrue, Whole, BuilderAt, DirTrue
<1>7. CASE BuildFails
  BY <1>1, <1>7 DEF BuildFails, Quit, NoBuild, BaseInv, BaseTrue, Whole, BuilderAt, DirTrue
<1>8. CASE RecordSum
  BY <1>8 DEF RecordSum, Building, BaseDir, BaseInv, BaseTrue, Whole, BuilderAt, DirTrue
<1>9. CASE Seal
  BY <1>9 DEF Seal, Building, BaseDir, BaseInv, BaseTrue, Whole, BuilderAt, DirTrue
<1>10. CASE BuildCreated
  BY <1>10 DEF BuildCreated, Building, BaseInv, BaseTrue, Whole, BuilderAt, DirTrue
<1>11. CASE BuildMarks
  BY <1>11 DEF BuildMarks, Quit, NoBuild, BaseDir, BaseInv, BaseTrue, Whole, BuilderAt, DirTrue
<1>12. CASE BuildDies
  BY <1>12 DEF BuildDies, Quit, NoBuild, BaseInv, BaseTrue, Whole, BuilderAt, DirTrue
<1>13. CASE ManagerOpens
  BY <1>13 DEF ManagerOpens, IsOpen, BaseInv, BaseTrue, Whole, BuilderAt, DirTrue
<1>14. CASE VerifyStat \/ StartStat \/ ManagerEnds
  <2>1. UNCHANGED <<basedir, builder, boot, given>>
    BY <1>14 DEF VerifyStat, StartStat, ManagerEnds
  <2>2. /\ node'.pc \in {"marker", "serving", "starting", "down"}
        /\ node' \in [pc : {"down", "serving", "stat", "marker", "mark", "starting", "pin"}, knows : BOOLEAN]
    <3>1. CASE ManagerEnds
      BY <3>1 DEF ManagerEnds, Down
    <3>2. ASSUME NEW pc \in {"marker", "serving", "starting"}, Node(pc)
          PROVE  /\ node'.pc = pc
                 /\ node' \in [pc : {"down", "serving", "stat", "marker", "mark", "starting", "pin"}, knows : BOOLEAN]
      BY <3>2 DEF Node, BaseInv
    <3> QED BY <1>14, <3>1, <3>2 DEF VerifyStat, StartStat
  <2> QED BY <2>1, <2>2 DEF BaseInv, BaseTrue, BuilderAt, DirTrue
<1>15. CASE VerifyHash
  BY <1>15 DEF VerifyHash, Node, BaseDir, BaseInv, BaseTrue, Whole, BuilderAt, DirTrue
<1>16. CASE VerifyMarks
  BY <1>16 DEF VerifyMarks, Node, BaseDir, BaseInv, BaseTrue, Whole, BuilderAt, DirTrue
<1>17. CASE StartMarker
  BY <1>17 DEF StartMarker, Node, Marked, BaseDir, BaseInv, BaseTrue, Whole, BuilderAt, DirTrue
<1>18. CASE StartPin
  BY <1>18 DEF StartPin, Node, BaseDir, BaseInv, BaseTrue, Whole, BuilderAt, DirTrue
<1>19. CASE BootAgain
  BY <1>19 DEF BootAgain, NoBuild, Down, BaseDir, BaseInv, BaseTrue, Whole, BuilderAt, DirTrue
<1> QED BY <1>2, <1>3, <1>4, <1>5, <1>6, <1>7, <1>8, <1>9, <1>10, <1>11, <1>12, <1>13, <1>14, <1>15, <1>16, <1>17, <1>18,
           <1>19 DEF BaseNext

\* What a guest is given is what the digest that stands for it says, for any number of
\* requests, builds and boots: whatever an upstream sent, wherever a fetch or a build was cut
\* off, and whatever changed on the disk while the machine was down.
THEOREM ArtifactsAreTrue == Spec => []ArtifactsTrue
<1>1. Init => KeptInv /\ BaseInv
  <2> SUFFICES ASSUME Init PROVE KeptInv /\ BaseInv
    OBVIOUS
  <2>1. KeptInv
    <3>1. NoFetch \in FetchRec /\ NoFetch.pc = "idle"
      BY DEF NoFetch, FetchRec, Caches
    <3> QED BY <3>1 DEF Init, CacheInit, KeptInv, Holds, AnsweredTrue
  <2>2. BaseInv
    BY DEF Init, BaseInit, NoDir, NoBuild, Down, BaseDir, BaseInv, BaseTrue, BuilderAt, DirTrue
  <2> QED BY <2>1, <2>2
<1>2. KeptInv /\ BaseInv /\ [Next]_vars => (KeptInv /\ BaseInv)'
  <2> SUFFICES ASSUME KeptInv, BaseInv, [Next]_vars PROVE KeptInv' /\ BaseInv'
    OBVIOUS
  <2>1. UNCHANGED cacheVars => KeptInv'
    BY DEF cacheVars, KeptInv, Holds, AnsweredTrue
  <2>2. UNCHANGED baseVars => BaseInv'
    BY DEF baseVars, BaseInv, BaseTrue, BuilderAt, DirTrue
  <2>3. (CacheNext \/ UNCHANGED cacheVars) /\ (BaseNext \/ UNCHANGED baseVars)
    BY DEF Next, vars
  <2> QED BY <2>1, <2>2, <2>3, CacheStep, BaseStep
<1>3. KeptInv /\ BaseInv => ArtifactsTrue
  BY DEF KeptInv, BaseInv, ArtifactsTrue
<1> QED BY <1>1, <1>2, <1>3, PTL DEF Spec

(******************************** tool calls once *************************************)
\* What is known of one request id: new, it has left no trace; under way, it has no outcome
\* but a lost one; and its replies agree with its record as long as that is kept.
Outcomes == {"none", "undelivered", "uncertain", "answer", "evicted"}
IdTrue(i, c) ==
    /\ c.input = NoInput => /\ sent[i] = 0 /\ dispatches[i] = "none" /\ i \notin reached
                            /\ replies[i] \subseteq {"evicted"} /\ c.result \in {"none", "evicted"}
    /\ sent[i] \in {0, 1}
    /\ dispatches[i] # "none" => replies[i] \subseteq {"evicted"} /\ c.result \in {"none", "evicted"}
    /\ dispatches[i] = "dial" => i \notin reached
    /\ c.result \notin {"none", "evicted"} => c.result \in replies[i] /\ replies[i] \subseteq {c.result, "evicted"}
    /\ \A a, b \in replies[i] \ {"evicted"} : a = b
    /\ "undelivered" \in replies[i] => i \notin reached
McpInv ==
    /\ calls \in [CallIds -> [input : Inputs \cup {NoInput}, result : Outcomes]]
    /\ dispatches \in [CallIds -> {"none", "dial", "written"}]
    /\ replies \in [CallIds -> SUBSET Outcomes] /\ sent \in [CallIds -> Nat]
    /\ \A i \in CallIds : IdTrue(i, calls[i])

LEMMA McpStep == ASSUME McpInv, McpNext PROVE McpInv'
<1>1. PICK i \in CallIds :
        \/ \E input \in Inputs : ToolsCall(i, input)
        \/ ForwardWrites(i) \/ BridgeReads(i) \/ Repeat(i)
        \/ \E r \in {"undelivered", "uncertain", "answer"} : CompleteCall(i, r)
  BY DEF McpNext
<1>2. ASSUME NEW input \in Inputs, ToolsCall(i, input) PROVE McpInv'
  <2>1. UNCHANGED <<replies, reached>>
    BY <1>2 DEF ToolsCall
  <2>2. CASE UNCHANGED <<calls, dispatches, sent>>
    BY <2>1, <2>2 DEF McpInv, IdTrue
  <2>3. CASE /\ ~Reused(i) /\ calls' = [calls EXCEPT ![i] = [input |-> input, result |-> "none"]]
             /\ dispatches' = [dispatches EXCEPT ![i] = "dial"] /\ sent' = [sent EXCEPT ![i] = @ + 1]
    <3>1. calls[i].input = NoInput
      BY <2>3 DEF Reused, Known
    <3>2. /\ calls' \in [CallIds -> [input : Inputs \cup {NoInput}, result : Outcomes]]
          /\ dispatches' \in [CallIds -> {"none", "dial", "written"}] /\ sent' \in [CallIds -> Nat]
      BY <2>3 DEF McpInv, Outcomes
    <3>3. ASSUME NEW j \in CallIds, j # i PROVE IdTrue(j, calls[j])'
      BY <2>1, <2>3, <3>3 DEF McpInv, IdTrue
    <3>4. IdTrue(i, calls[i])'
      BY <2>1, <2>3, <3>1, McpAssumption DEF McpInv, IdTrue
    <3> QED BY <2>1, <3>2, <3>3, <3>4 DEF McpInv
  <2> QED BY <1>2, <2>2, <2>3 DEF ToolsCall
<1>3. CASE ForwardWrites(i)
  BY <1>3 DEF ForwardWrites, McpInv, IdTrue
<1>4. CASE BridgeReads(i)
  <2>1. "undelivered" \notin replies[i] /\ calls[i].input # NoInput /\ dispatches[i] # "dial"
    BY <1>4 DEF BridgeReads, McpInv, IdTrue
  <2> QED BY <1>4, <2>1 DEF BridgeReads, McpInv, IdTrue
<1>5. CASE Repeat(i)
  <2>1. UNCHANGED <<calls, dispatches, sent, reached>> /\ replies' = [replies EXCEPT ![i] = @ \cup {calls[i].result}]
    BY <1>5 DEF Repeat
  <2>2. calls[i].result \in Outcomes /\ calls[i].result # "none"
    BY <1>5 DEF Repeat, McpInv
  <2>3. replies' \in [CallIds -> SUBSET Outcomes]
    BY <2>1, <2>2 DEF McpInv
  <2>4. ASSUME NEW j \in CallIds PROVE IdTrue(j, calls[j])'
    <3>1. CASE j # i
      BY <2>1, <3>1 DEF McpInv, IdTrue
    <3>2. CASE j = i /\ calls[i].result = "evicted"
      <4>1. replies'[i] = replies[i] \cup {"evicted"} /\ IdTrue(i, calls[i])
        BY <2>1, <3>2 DEF McpInv
      <4> QED BY <2>1, <3>2, <4>1 DEF IdTrue
    <3>3. CASE j = i /\ calls[i].result # "evicted"
      <4>1. replies'[i] \subseteq {calls[i].result, "evicted"} /\ calls[i].result \in replies'[i]
        BY <2>1, <2>2, <3>3 DEF McpInv, IdTrue
      <4>2. dispatches[i] = "none" /\ IdTrue(i, calls[i])
        BY <2>2, <3>3 DEF McpInv, IdTrue
      <4>3. calls[i].input # NoInput
        BY <2>2, <3>3 DEF McpInv, IdTrue
      <4> QED BY <2>1, <2>2, <3>3, <4>1, <4>2, <4>3 DEF IdTrue
    <3> QED BY <3>1, <3>2, <3>3
  <2> QED BY <2>1, <2>3, <2>4 DEF McpInv
<1>6. ASSUME NEW r \in {"undelivered", "uncertain", "answer"}, CompleteCall(i, r) PROVE McpInv'
  <2>1. /\ UNCHANGED <<sent, reached>> /\ dispatches' = [dispatches EXCEPT ![i] = "none"]
        /\ replies' = [replies EXCEPT ![i] = @ \cup {r}] /\ dispatches[i] # "none" /\ r \in Forwarded(i)
    BY <1>6 DEF CompleteCall
  <2>2. \A j \in CallIds : \/ calls'[j] = [calls[j] EXCEPT !.result = "evicted"]
                           \/ j = i /\ calls'[j] = [calls[j] EXCEPT !.result = r]
                           \/ j # i /\ calls'[j] = calls[j]
    BY <1>6 DEF CompleteCall
  <2>3. \A j \in CallIds : /\ calls[j] \in [input : Inputs \cup {NoInput}, result : Outcomes]
                           /\ calls'[j] \in [input : Inputs \cup {NoInput}, result : Outcomes]
                           /\ calls'[j].input = calls[j].input
                           /\ calls'[j].result \in {"evicted", IF j = i THEN r ELSE calls[j].result}
    <3> SUFFICES ASSUME NEW j \in CallIds
                 PROVE  /\ calls[j] \in [input : Inputs \cup {NoInput}, result : Outcomes]
                        /\ calls'[j] \in [input : Inputs \cup {NoInput}, result : Outcomes]
                        /\ calls'[j].input = calls[j].input
                        /\ calls'[j].result \in {"evicted", IF j = i THEN r ELSE calls[j].result}
      OBVIOUS
    <3>1. PICK c \in [input : Inputs \cup {NoInput}, result : Outcomes] : c = calls[j]
      BY DEF McpInv
    <3>2. CASE calls'[j] = [c EXCEPT !.result = "evicted"]
      BY <3>1, <3>2 DEF Outcomes
    <3>3. CASE j = i /\ calls'[j] = [c EXCEPT !.result = r]
      BY <3>1, <3>3 DEF Outcomes
    <3>4. CASE j # i /\ calls'[j] = c
      BY <3>1, <3>4
    <3> QED BY <2>2, <3>1, <3>2, <3>3, <3>4
  <2>4. calls' \in [CallIds -> [input : Inputs \cup {NoInput}, result : Outcomes]]
    BY <1>6, <2>3 DEF CompleteCall
  <2>5. replies' \in [CallIds -> SUBSET Outcomes] /\ dispatches' \in [CallIds -> {"none", "dial", "written"}]
    BY <2>1 DEF McpInv, Outcomes
  <2>6. ASSUME NEW j \in CallIds, j # i PROVE IdTrue(j, calls[j])'
    BY <2>1, <2>3, <2>6 DEF McpInv, IdTrue
  <2>7. IdTrue(i, calls[i])'
    <3>1. replies[i] \subseteq {"evicted"} /\ calls[i].input # NoInput /\ sent[i] \in {0, 1}
      BY <2>1 DEF McpInv, IdTrue
    <3>2. r \in replies'[i] /\ replies'[i] \subseteq {r, "evicted"} /\ dispatches'[i] = "none"
      BY <2>1, <3>1 DEF McpInv
    <3>3. r = "undelivered" => i \notin reached
      BY <2>1 DEF Forwarded, McpInv, IdTrue
    <3>4. calls'[i].input # NoInput /\ calls'[i].result \in {"evicted", r}
      BY <2>3, <3>1
    <3> QED BY <2>1, <3>1, <3>2, <3>3, <3>4 DEF IdTrue
  <2> QED BY <2>1, <2>4, <2>5, <2>6, <2>7 DEF McpInv
<1> QED BY <1>1, <1>2, <1>3, <1>4, <1>5, <1>6

LEMMA McpOutcome == McpInv => OneOutcome
<1> SUFFICES ASSUME McpInv, NEW i \in CallIds
             PROVE  sent[i] <= 1 /\ Cardinality(replies[i] \ {"evicted"}) <= 1 /\ ("undelivered" \in replies[i] => i \notin reached)
  BY DEF OneOutcome
<1>1. sent[i] <= 1 /\ ("undelivered" \in replies[i] => i \notin reached) /\ \A a, b \in replies[i] \ {"evicted"} : a = b
  BY DEF McpInv, IdTrue
<1>2. CASE replies[i] \ {"evicted"} = {}
  BY <1>1, <1>2, FS_EmptySet
<1>3. CASE replies[i] \ {"evicted"} # {}
  <2>1. PICK a : replies[i] \ {"evicted"} = {a}
    BY <1>1, <1>3
  <2>2. Cardinality({a}) = 1
    BY FS_Singleton
  <2> QED BY <1>1, <2>1, <2>2
<1> QED BY <1>2, <1>3

\* The actor: what its variables hold.
LineRec    == [kind : {"use", "auth", "result"}, turn : Nat, use : Nat]
ProcessRec == [life : {"none", "idle", "busy", "gone"}, turn : Nat, out : Seq(LineRec)]
EmitRec    == {NoEmit} \cup [what : {"item", "completed", "interrupted"}, turn : Nat]
QueryRec   == [pc : {"none", "bind", "raise", "wait", "allowed", "denied"}, kind : {"none", "permission", "controller"},
               use : Nat, at : Nat, decision : {"none", "accept", "decline", "cancel"}]
ActorVars ==
    /\ proc \in Nat /\ turn \in Nat /\ halted \in BOOLEAN /\ toolUses \in [Uses -> {"none", "seen", "asked"}]
    /\ process \in [Procs -> ProcessRec] /\ emit \in [Procs -> EmitRec] /\ query \in [Queries -> QueryRec]
    /\ reports \in [Turns -> Seq({"completed", "interrupted"})]
    /\ turnsMade \in 0 .. MaxTurns /\ usesMade \in 0 .. MaxUses

\* Requests that were, or are to be, put to the controller.
Claimed(q) == query[q].pc \in {"raise", "wait", "allowed"}
Unanswered(q) == query[q].pc \in {"raise", "wait"} /\ query[q].decision = "none"

\* A request waits only for the turn there is, and is allowed only as it was answered.
QueryInv ==
    \A q \in Queries :
        /\ query[q].pc = "bind" => query[q].at # 0
        /\ Unanswered(q) => query[q].at = turn /\ turn # 0
        /\ query[q].decision = "accept" \/ query[q].pc = "allowed" => q \in answered

\* A turn whose end is reported, or about to be, is no longer there, and ended once.
Ends1(e) == e.what \in {"completed", "interrupted"}
ReportInv ==
    /\ turn # 0 => turn = turnsMade
    /\ \A t \in Turns : Len(reports[t]) <= 1 /\ (reports[t] # <<>> => t <= turnsMade /\ t # turn)
    /\ \A p \in Procs : Ends1(emit[p]) => /\ emit[p].turn \in 1 .. turnsMade /\ emit[p].turn # turn
                                          /\ reports[emit[p].turn] = <<>>
    /\ \A p, r \in Procs : p # r /\ Ends1(emit[p]) /\ Ends1(emit[r]) => emit[p].turn # emit[r].turn

LEMMA ActorRecords ==
    /\ NoProcess \in ProcessRec /\ NoEmit \in EmitRec /\ NoEmit.what = "none" /\ NoQuery \in QueryRec
    /\ \A k \in {"use", "auth", "result"}, t \in Nat, u \in Nat :
          Line(k, t, u) \in LineRec /\ Line(k, t, u).kind = k /\ Line(k, t, u).use = u
  BY DEF NoProcess, NoEmit, NoQuery, Line, LineRec, ProcessRec, EmitRec, QueryRec

\* What becomes of a request's record.
QueryMoved(q, c) == query' = [query EXCEPT ![q] = c]
QueryBound(q, u, pc) == query' = [query EXCEPT ![q].use = u, ![q].pc = pc]

LEMMA QueryGoes ==
    ASSUME ActorVars, NEW q \in Queries, NEW pc \in {"bind", "raise", "wait", "allowed", "denied"},
           query' = [query EXCEPT ![q].pc = pc]
    PROVE  \E c \in QueryRec : /\ QueryMoved(q, c) /\ c.pc = pc /\ c.use = query[q].use /\ c.at = query[q].at
                               /\ c.decision = query[q].decision
<1>1. PICK d \in QueryRec : d = query[q]
  BY DEF ActorVars
<1>2. PICK c : c = [d EXCEPT !.pc = pc]
  OBVIOUS
<1>3. c \in QueryRec /\ c.pc = pc /\ c.use = d.use /\ c.at = d.at /\ c.decision = d.decision
  BY <1>2 DEF QueryRec
<1> QED BY <1>1, <1>2, <1>3 DEF QueryMoved

LEMMA QueryBinds ==
    ASSUME ActorVars, NEW q \in Queries, NEW pc \in {"bind", "raise", "wait", "allowed", "denied"}, NEW u \in Nat,
           QueryBound(q, u, pc)
    PROVE  \E c \in QueryRec : /\ QueryMoved(q, c) /\ c.pc = pc /\ c.use = u /\ c.at = query[q].at
                               /\ c.decision = query[q].decision
<1>1. PICK d \in QueryRec : d = query[q] /\ query \in [Queries -> QueryRec]
  BY DEF ActorVars
<1>2. PICK c : c = [d EXCEPT !.use = u, !.pc = pc]
  OBVIOUS
<1>3. c \in QueryRec /\ c.pc = pc /\ c.use = u /\ c.at = d.at /\ c.decision = d.decision
  BY <1>2 DEF QueryRec
<1> QED BY <1>1, <1>2, <1>3 DEF QueryMoved, QueryBound

LEMMA QueryDecides ==
    ASSUME ActorVars, NEW q \in Queries, NEW x \in {"accept", "decline", "cancel"},
           query' = [query EXCEPT ![q].decision = x]
    PROVE  \E c \in QueryRec : /\ QueryMoved(q, c) /\ c.pc = query[q].pc /\ c.use = query[q].use /\ c.at = query[q].at
                               /\ c.decision = x
<1>1. PICK d \in QueryRec : d = query[q]
  BY DEF ActorVars
<1>2. PICK c : c = [d EXCEPT !.decision = x]
  OBVIOUS
<1>3. c \in QueryRec /\ c.pc = d.pc /\ c.use = d.use /\ c.at = d.at /\ c.decision = x
  BY <1>2 DEF QueryRec
<1> QED BY <1>1, <1>2, <1>3 DEF QueryMoved

LEMMA ActorTypes == ASSUME ActorVars, ActorNext PROVE ActorVars'
<1>1. CASE StartThread
  <2>1. 1 \in Procs => process' \in [Procs -> ProcessRec]
    BY <1>1 DEF StartThread, ActorVars, ProcessRec
  <2>2. 1 \notin Procs => process' = process
    BY <1>1 DEF StartThread, ActorVars
  <2> QED BY <1>1, <2>1, <2>2 DEF StartThread, ActorVars, brokerVars
<1>2. CASE StartTurn
  <2>1. PICK p \in Procs : process' = [process EXCEPT ![p].life = "busy", ![p].turn = turnsMade'] /\ proc' = p
    BY <1>2 DEF StartTurn
  <2>2. turnsMade' \in 0 .. MaxTurns /\ turn' = turnsMade' /\ turnsMade' \in Nat
    BY <1>2, ActorAssumption DEF StartTurn, ActorVars
  <2>3. process' \in [Procs -> ProcessRec]
    BY <2>1, <2>2 DEF ActorVars, ProcessRec
  <2>4. proc' \in Nat /\ halted' \in BOOLEAN /\ toolUses' \in [Uses -> {"none", "seen", "asked"}]
    <3>1. p \in Nat
      BY ActorAssumption DEF Procs
    <3>2. halted' = FALSE /\ toolUses' = [u \in Uses |-> "none"]
      BY <1>2 DEF StartTurn
    <3> QED BY <2>1, <3>1, <3>2
  <2>5. UNCHANGED <<emit, query, reports, usesMade>>
    BY <1>2 DEF StartTurn
  <2> QED BY <2>2, <2>3, <2>4, <2>5 DEF ActorVars
<1>3. CASE InterruptTurn
  BY <1>3 DEF InterruptTurn, ActorVars, brokerVars, counters
<1>4. CASE CompleteLogin
  BY <1>4 DEF CompleteLogin, SignedInAgain, ActorVars, brokerVars, counters
<1>5. ASSUME NEW p \in Procs, ProcessAsks(p) PROVE ActorVars'
  <2>1. usesMade' \in 0 .. MaxUses /\ usesMade' \in Nat /\ process[p] \in ProcessRec
    BY <1>5, ActorAssumption DEF ProcessAsks, ActorVars
  <2>2. Line("use", process[p].turn, usesMade') \in LineRec
    BY <2>1, ActorRecords DEF ProcessRec
  <2>3. Append(process[p].out, Line("use", process[p].turn, usesMade')) \in Seq(LineRec)
    BY <2>1, <2>2 DEF ProcessRec
  <2>4. process' \in [Procs -> ProcessRec]
    BY <1>5, <2>3 DEF ProcessAsks, Outputs, ActorVars, ProcessRec
  <2> QED BY <1>5, <2>1, <2>4 DEF ProcessAsks, ActorVars, brokerVars, stateVars
<1>6. ASSUME NEW p \in Procs, ProcessLosesAuth(p) PROVE ActorVars'
  <2>1. process[p] \in ProcessRec
    BY DEF ActorVars
  <2>2. Line("auth", process[p].turn, 0) \in LineRec
    BY <2>1, ActorRecords DEF ProcessRec
  <2>3. Append(process[p].out, Line("auth", process[p].turn, 0)) \in Seq(LineRec)
    BY <2>1, <2>2 DEF ProcessRec
  <2>4. process' \in [Procs -> ProcessRec]
    BY <1>6, <2>3 DEF ProcessLosesAuth, Outputs, ActorVars, ProcessRec
  <2> QED BY <1>6, <2>4 DEF ProcessLosesAuth, ActorVars, brokerVars, stateVars, counters
<1>7. ASSUME NEW p \in Procs, ProcessResult(p) PROVE ActorVars'
  <2>1. process[p] \in ProcessRec
    BY DEF ActorVars
  <2>2. Line("result", process[p].turn, 0) \in LineRec
    BY <2>1, ActorRecords DEF ProcessRec
  <2>3. Append(process[p].out, Line("result", process[p].turn, 0)) \in Seq(LineRec)
    BY <2>1, <2>2 DEF ProcessRec
  <2>4. process' \in [Procs -> ProcessRec]
    BY <1>7, <2>3 DEF ProcessResult, ActorVars, ProcessRec
  <2> QED BY <1>7, <2>4 DEF ProcessResult, ActorVars, brokerVars, stateVars, counters
<1>8. ASSUME NEW p \in Procs, ProcessExits(p) PROVE ActorVars'
  <2>1. process' \in [Procs -> ProcessRec]
    BY <1>8 DEF ProcessExits, ActorVars, ProcessRec
  <2> QED BY <1>8, <2>1 DEF ProcessExits, ActorVars, brokerVars, stateVars, counters
<1>9. ASSUME NEW p \in Procs, Handle(p) PROVE ActorVars'
  <2>1. process[p] \in ProcessRec /\ process[p].out # <<>>
    BY <1>9 DEF ActorVars, Handle
  <2>2. Tail(process[p].out) \in Seq(LineRec)
    BY <2>1 DEF ProcessRec
  <2>3. process' \in [Procs -> ProcessRec]
    BY <1>9, <2>2 DEF Handle, ActorVars, ProcessRec
  <2>4. emit' \in [Procs -> EmitRec]
    BY <1>9, ActorRecords DEF Handle, ActorVars, EmitRec
  <2>5. CancelPermissions \in [Queries -> QueryRec]
    BY DEF CancelPermissions, ActorVars, QueryRec
  <2>6. \A u : RecordToolUses(u) \in [Uses -> {"none", "seen", "asked"}]
    BY DEF RecordToolUses, ActorVars
  <2>7. /\ query' \in [Queries -> QueryRec] /\ toolUses' \in [Uses -> {"none", "seen", "asked"}]
        /\ turn' \in Nat /\ proc' \in Nat /\ halted' \in BOOLEAN
    <3>1. /\ query' \in {query, CancelPermissions} /\ turn' \in {0, turn} /\ proc' \in {0, proc}
          /\ halted' \in {FALSE, halted}
      BY <1>9 DEF Handle
    <3>2. \/ toolUses' = [u \in Uses |-> "none"] \/ toolUses' = toolUses
          \/ \E u : toolUses' = RecordToolUses(u)
      BY <1>9 DEF Handle
    <3>3. query' \in [Queries -> QueryRec]
      BY <2>5, <3>1 DEF ActorVars
    <3>4. toolUses' \in [Uses -> {"none", "seen", "asked"}]
      BY <2>6, <3>2 DEF ActorVars
    <3>5. halted' \in BOOLEAN
      BY <3>1, Zenon DEF ActorVars
    <3>6. turn' \in Nat /\ proc' \in Nat
      BY <3>1 DEF ActorVars
    <3> QED BY <3>3, <3>4, <3>5, <3>6
  <2> QED BY <1>9, <2>3, <2>4, <2>7 DEF Handle, ActorVars, brokerVars, counters
<1>10. ASSUME NEW p \in Procs, Emit(p) PROVE ActorVars'
  <2>1. emit' \in [Procs -> EmitRec]
    BY <1>10, ActorRecords DEF Emit, ActorVars
  <2>2. emit[p].what # "item" => emit[p].what \in {"completed", "interrupted"}
    BY <1>10 DEF Emit, ActorVars, EmitRec
  <2>3. reports' \in [Turns -> Seq({"completed", "interrupted"})]
    <3>1. CASE emit[p].what = "item"
      BY <1>10, <3>1 DEF Emit, ActorVars
    <3>2. CASE emit[p].what # "item"
      <4>1. PICK w \in {"completed", "interrupted"} : w = emit[p].what
        BY <2>2, <3>2
      <4>2. PICK t : t = emit[p].turn
        OBVIOUS
      <4>3. reports' = [reports EXCEPT ![t] = Append(@, w)]
        BY <1>10, <3>2, <4>1, <4>2 DEF Emit
      <4>4. t \in Turns => Append(reports[t], w) \in Seq({"completed", "interrupted"})
        BY DEF ActorVars
      <4> QED BY <4>3, <4>4 DEF ActorVars
    <3> QED BY <3>1, <3>2
  <2> QED BY <1>10, <2>1, <2>3 DEF Emit, ActorVars, stateVars, counters
<1>11. ASSUME NEW p \in Procs, Finish(p) PROVE ActorVars'
  BY <1>11 DEF Finish, ActorVars, brokerVars, counters
<1>12. ASSUME NEW q \in Queries,
              \/ RequestController(q) \/ \E u \in Uses : RequestPermission(q, u)
              \/ BindToolUse(q) \/ Unbound(q) \/ Raise(q) \/ Reply(q) \/ \E accept \in BOOLEAN : Answer(q, accept)
       PROVE  ActorVars'
  <2>1. query' \in [Queries -> QueryRec]
    <3>1. CASE RequestController(q) \/ \E u \in Uses : RequestPermission(q, u)
      <4>1. PICK c : query' = [query EXCEPT ![q] = c] /\ c \in QueryRec
        BY <3>1 DEF RequestController, RequestPermission, Request, ActorVars, QueryRec, Uses
      <4> QED BY <4>1 DEF ActorVars
    <3>2. CASE BindToolUse(q)
      <4>1. PICK u \in Uses : query' = [query EXCEPT ![q].use = u, ![q].pc = IF turn = query[q].at THEN "raise" ELSE "denied"]
        BY <3>2 DEF BindToolUse, Claimable, ByContent
      <4>2. u \in Nat
        BY ActorAssumption DEF Uses
      <4>3. CASE turn = query[q].at
        <5>1. \E c \in QueryRec : QueryMoved(q, c)
          BY <4>1, <4>2, <4>3, QueryBinds DEF QueryBound
        <5> QED BY <5>1 DEF ActorVars, QueryMoved
      <4>4. CASE turn # query[q].at
        <5>1. \E c \in QueryRec : QueryMoved(q, c)
          BY <4>1, <4>2, <4>4, QueryBinds DEF QueryBound
        <5> QED BY <5>1 DEF ActorVars, QueryMoved
      <4> QED BY <4>3, <4>4
    <3>3. CASE Unbound(q) \/ Raise(q) \/ Reply(q)
      <4>1. PICK pc \in {"wait", "allowed", "denied"} : query' = [query EXCEPT ![q].pc = pc]
        BY <3>3 DEF Unbound, Raise, Reply
      <4>2. \E c \in QueryRec : QueryMoved(q, c)
        BY <4>1, QueryGoes
      <4> QED BY <4>2 DEF ActorVars, QueryMoved
    <3>4. CASE \E accept \in BOOLEAN : Answer(q, accept)
      <4>1. \/ query' = query
            \/ \E d \in {"accept", "decline"} : query' = [query EXCEPT ![q].decision = d]
        BY <3>4 DEF Answer
      <4> QED BY <4>1, QueryDecides DEF ActorVars, QueryMoved
    <3> QED BY <1>12, <3>1, <3>2, <3>3, <3>4
  <2>2. toolUses' \in [Uses -> {"none", "seen", "asked"}]
    BY <1>12 DEF RequestController, RequestPermission, Request, BindToolUse, Unbound, Raise, Reply, Answer, stateVars, ActorVars
  <2>3. UNCHANGED <<proc, turn, halted, process, emit, reports, turnsMade, usesMade>>
    BY <1>12 DEF RequestController, RequestPermission, Request, BindToolUse, Unbound, Raise, Reply, Answer, stateVars,
                 brokerVars, counters
  <2> QED BY <2>1, <2>2, <2>3 DEF ActorVars
<1> QED BY <1>1, <1>2, <1>3, <1>4, <1>5, <1>6, <1>7, <1>8, <1>9, <1>10, <1>11, <1>12 DEF ActorNext

LEMMA ReportStep == ASSUME ActorVars, ReportInv, ActorNext PROVE ReportInv'
<1>1. CASE UNCHANGED <<turn, turnsMade, reports, emit>>
  BY <1>1 DEF ReportInv
<1>2. CASE StartTurn
  <2>1. UNCHANGED <<reports, emit>> /\ turnsMade' = turnsMade + 1 /\ turn' = turnsMade' /\ turnsMade \in Nat
    BY <1>2 DEF StartTurn, ActorVars
  <2> QED BY <2>1, ActorAssumption DEF ReportInv, Turns
<1>3. ASSUME NEW p \in Procs, Handle(p) PROVE ReportInv'
  <2>1. UNCHANGED <<reports, turnsMade>>
    BY <1>3 DEF Handle, brokerVars, counters
  <2>2. PICK e : emit' = [emit EXCEPT ![p] = e] /\ ~Ends1(emit[p])
                 /\ \/ ~Ends1(e) /\ turn' = turn
                    \/ Ends1(e) /\ e.turn = turn /\ turn # 0 /\ turn' = 0
    <3>1. PICK l : l = Head(process[p].out)
      OBVIOUS
    <3>2. PICK e : e = IF turn = 0 THEN NoEmit
                ELSE [what |-> IF l.kind = "result" THEN (IF halted THEN "interrupted" ELSE "completed") ELSE "item", turn |-> turn]
      OBVIOUS
    <3>3. emit' = [emit EXCEPT ![p] = e] /\ emit[p] = NoEmit
      BY <1>3, <3>1, <3>2 DEF Handle
    <3>4. ~Ends1(NoEmit)
      BY DEF Ends1, NoEmit
    <3>5. IF turn # 0 /\ l.kind = "result" THEN turn' = 0 ELSE turn' = turn
      BY <1>3, <3>1 DEF Handle
    <3>6. CASE turn = 0 \/ l.kind # "result"
      <4>1. ~Ends1(e)
        BY <3>2, <3>4, <3>6 DEF Ends1
      <4> QED BY <3>3, <3>4, <3>5, <3>6, <4>1
    <3>7. CASE turn # 0 /\ l.kind = "result"
      <4>1. Ends1(e) /\ e.turn = turn
        BY <3>2, <3>7 DEF Ends1
      <4> QED BY <3>3, <3>4, <3>5, <3>7, <4>1
    <3> QED BY <3>6, <3>7
  <2>3. emit'[p] = e /\ \A r \in Procs : r # p => emit'[r] = emit[r]
    BY <2>2 DEF ActorVars
  <2>4. CASE ~Ends1(e) /\ turn' = turn
    BY <2>1, <2>3, <2>4 DEF ReportInv, Ends1
  <2>5. CASE Ends1(e) /\ e.turn = turn /\ turn # 0 /\ turn' = 0
    <3>1. turn = turnsMade /\ turn \in 1 .. turnsMade /\ turn \in Turns /\ reports[turn] = <<>>
      BY <2>5 DEF ReportInv, ActorVars, Turns
    <3>2. \A r \in Procs : Ends1(emit'[r]) => /\ emit'[r].turn \in 1 .. turnsMade /\ emit'[r].turn # 0
                                              /\ reports[emit'[r].turn] = <<>>
      BY <2>3, <2>5, <3>1, ActorAssumption DEF ReportInv, ActorVars
    <3>3. \A r \in Procs : r # p /\ Ends1(emit[r]) => emit[r].turn # e.turn
      BY <2>5 DEF ReportInv
    <3>4. \A r, q \in Procs : r # q /\ Ends1(emit'[r]) /\ Ends1(emit'[q]) => emit'[r].turn # emit'[q].turn
      BY <2>3, <2>5, <3>3 DEF ReportInv
    <3>5. \A t \in Turns : Len(reports[t]) <= 1 /\ (reports[t] # <<>> => t <= turnsMade /\ t # 0)
      BY DEF ReportInv, Turns
    <3> QED BY <2>1, <2>5, <3>2, <3>4, <3>5 DEF ReportInv, Ends1
  <2> QED BY <2>2, <2>4, <2>5
<1>4. ASSUME NEW p \in Procs, Emit(p) PROVE ReportInv'
  <2>1. UNCHANGED <<turn, turnsMade>> /\ emit' = [emit EXCEPT ![p] = NoEmit] /\ ~Ends1(NoEmit)
    BY <1>4 DEF Emit, stateVars, counters, Ends1, NoEmit
  <2>2. emit'[p] = NoEmit /\ \A r \in Procs : r # p => emit'[r] = emit[r]
    BY <2>1 DEF ActorVars
  <2>3. CASE emit[p].what = "item"
    <3>1. UNCHANGED reports
      BY <1>4, <2>3 DEF Emit
    <3> QED BY <2>1, <2>2, <3>1 DEF ReportInv, Ends1
  <2>4. CASE emit[p].what # "item"
    <3>1. Ends1(emit[p])
      BY <1>4, <2>4 DEF Emit, ActorVars, EmitRec, Ends1
    <3>2. PICK t \in Turns : t = emit[p].turn /\ t <= turnsMade /\ t # turn /\ reports[t] = <<>>
      <4>1. /\ emit[p].turn \in 1 .. turnsMade /\ emit[p].turn # turn /\ reports[emit[p].turn] = <<>>
            /\ turnsMade \in 0 .. MaxTurns
        BY <3>1 DEF ReportInv, ActorVars
      <4>2. emit[p].turn \in Turns /\ emit[p].turn <= turnsMade
        BY <4>1, ActorAssumption DEF Turns
      <4> QED BY <4>1, <4>2
    <3>3. PICK w \in {"completed", "interrupted"} : w = emit[p].what
      BY <3>1 DEF Ends1
    <3>4. reports' = [reports EXCEPT ![t] = Append(reports[t], w)]
      BY <1>4, <2>4, <3>2, <3>3 DEF Emit
    <3>5. reports'[t] = <<w>> /\ Len(reports'[t]) = 1 /\ \A x \in Turns : x # t => reports'[x] = reports[x]
      BY <3>2, <3>4 DEF ActorVars
    <3>6. \A x \in Turns : Len(reports'[x]) <= 1 /\ (reports'[x] # <<>> => x <= turnsMade /\ x # turn)
      <4>1. \A x \in Turns : Len(reports[x]) <= 1 /\ (reports[x] # <<>> => x <= turnsMade /\ x # turn)
        BY DEF ReportInv
      <4>2. Len(reports'[t]) <= 1
        BY <3>5
      <4> QED BY <3>2, <3>5, <4>1, <4>2
    <3>7. \A r \in Procs : r # p /\ Ends1(emit[r]) => emit[r].turn \in Turns /\ emit[r].turn # t /\ reports'[emit[r].turn] = <<>>
      <4> SUFFICES ASSUME NEW r \in Procs, r # p, Ends1(emit[r])
                   PROVE  emit[r].turn \in Turns /\ emit[r].turn # t /\ reports'[emit[r].turn] = <<>>
        OBVIOUS
      <4>1. emit[r].turn \in 1 .. turnsMade /\ reports[emit[r].turn] = <<>> /\ emit[r].turn # t
        BY <3>1, <3>2 DEF ReportInv
      <4>2. emit[r].turn \in Turns
        BY <4>1, ActorAssumption DEF Turns, ActorVars
      <4> QED BY <3>5, <4>1, <4>2
    <3> QED BY <2>1, <2>2, <3>6, <3>7 DEF ReportInv, Ends1
  <2> QED BY <2>3, <2>4
<1>5. \/ UNCHANGED <<turn, turnsMade, reports, emit>> \/ StartTurn
      \/ \E p \in Procs : Handle(p) \/ Emit(p)
  BY DEF ActorNext, StartThread, InterruptTurn, CompleteLogin, SignedInAgain, ProcessAsks, ProcessLosesAuth, ProcessResult,
         ProcessExits, Finish, RequestController, RequestPermission, Request, BindToolUse, Unbound, Raise, Reply, Answer,
         stateVars, brokerVars, counters
<1> QED BY <1>1, <1>2, <1>3, <1>4, <1>5

LEMMA QueryStep == ASSUME ActorVars, QueryInv, ActorNext PROVE QueryInv'
<1>1. CASE UNCHANGED <<turn, query, answered>>
  BY <1>1 DEF QueryInv, Unanswered
<1>2. CASE StartTurn
  BY <1>2 DEF StartTurn, QueryInv, Unanswered
<1>3. ASSUME NEW p \in Procs, Handle(p) PROVE QueryInv'
  <2>1. answered' = answered
    BY <1>3 DEF Handle, brokerVars
  <2>2. CASE UNCHANGED <<turn, query>>
    BY <2>1, <2>2 DEF QueryInv, Unanswered
  <2>3. CASE turn' = 0 /\ query' = CancelPermissions
    <3>1. ASSUME NEW q \in Queries, NEW d \in QueryRec, d = query[q]
          PROVE  LET c == query'[q]
                 IN  /\ c.pc = d.pc /\ c.at = d.at /\ ~(c.pc \in {"raise", "wait"} /\ c.decision = "none")
                     /\ c.decision = "accept" => d.decision = "accept"
      BY <2>3, <3>1 DEF CancelPermissions, QueryRec
    <3>2. \A q \in Queries : /\ query'[q].pc = query[q].pc /\ query'[q].at = query[q].at
                             /\ ~(query'[q].pc \in {"raise", "wait"} /\ query'[q].decision = "none")
                             /\ query'[q].decision = "accept" => query[q].decision = "accept"
      BY <3>1 DEF ActorVars
    <3> QED BY <2>1, <3>2 DEF QueryInv, Unanswered
  <2> QED BY <1>3, <2>2, <2>3 DEF Handle
<1>4. ASSUME NEW q \in Queries, NEW c \in QueryRec, QueryMoved(q, c), turn' = turn, answered \subseteq answered',
             c.pc = "bind" => c.at # 0,
             c.pc \in {"raise", "wait"} /\ c.decision = "none" => c.at = turn /\ turn # 0,
             c.decision = "accept" \/ c.pc = "allowed" => q \in answered'
      PROVE  QueryInv'
  <2>1. query'[q] = c /\ \A r \in Queries : r # q => query'[r] = query[r]
    BY <1>4 DEF ActorVars, QueryMoved
  <2> QED BY <1>4, <2>1 DEF QueryInv, Unanswered
<1>5. ASSUME NEW q \in Queries, RequestController(q) \/ \E u \in Uses : RequestPermission(q, u) PROVE QueryInv'
  <2>1. PICK u \in Nat, kind \in {"permission", "controller"} : Request(q, kind, u)
    BY <1>5, ActorAssumption DEF RequestController, RequestPermission, Uses
  <2>2. PICK c : /\ QueryMoved(q, c)
                 /\ c = [pc |-> IF turn = 0 \/ Pending >= MaxWaiting THEN "denied" ELSE "bind",
                         kind |-> kind, use |-> u, at |-> turn, decision |-> "none"]
    BY <2>1 DEF Request, QueryMoved
  <2>3. c \in QueryRec /\ c.pc \in {"denied", "bind"} /\ c.at = turn /\ c.decision = "none" /\ (c.pc = "bind" => turn # 0)
    BY <2>2 DEF QueryRec, ActorVars
  <2>4. UNCHANGED <<turn, answered>>
    BY <2>1 DEF Request, stateVars, brokerVars
  <2> QED BY <1>4, <2>2, <2>3, <2>4
<1>6. ASSUME NEW q \in Queries, BindToolUse(q) PROVE QueryInv'
  <2>1. PICK u \in Uses : query' = [query EXCEPT ![q].use = u, ![q].pc = IF turn = query[q].at THEN "raise" ELSE "denied"]
    BY <1>6 DEF BindToolUse, Claimable, ByContent
  <2>2. u \in Nat /\ query[q].pc = "bind" /\ UNCHANGED <<turn, answered>>
    BY <1>6, ActorAssumption DEF Uses, BindToolUse, brokerVars
  <2>3. PICK pc \in {"bind", "raise", "wait", "allowed", "denied"} : pc = (IF turn = query[q].at THEN "raise" ELSE "denied")
    OBVIOUS
  <2>4. PICK c \in QueryRec : QueryMoved(q, c) /\ c.pc = pc /\ c.at = query[q].at /\ c.decision = query[q].decision
    <3>1. QueryBound(q, u, pc) /\ u \in Nat
      BY <2>1, <2>2, <2>3 DEF QueryBound
    <3>2. \E c \in QueryRec : /\ QueryMoved(q, c) /\ c.pc = pc /\ c.use = u /\ c.at = query[q].at
                              /\ c.decision = query[q].decision
      BY <3>1, QueryBinds
    <3> QED BY <3>2
  <2> QED BY <1>4, <2>2, <2>3, <2>4 DEF QueryInv
<1>7. ASSUME NEW q \in Queries, Unbound(q) PROVE QueryInv'
  <2>1. UNCHANGED <<turn, answered>>
    BY <1>7 DEF Unbound, stateVars, brokerVars
  <2>2. PICK c \in QueryRec : QueryMoved(q, c) /\ c.pc = "denied" /\ c.decision = query[q].decision
    BY <1>7, QueryGoes DEF Unbound
  <2> QED BY <1>4, <2>1, <2>2 DEF QueryInv
<1>8. ASSUME NEW q \in Queries, Raise(q) PROVE QueryInv'
  <2>1. UNCHANGED <<turn, answered>> /\ query[q].pc = "raise"
    BY <1>8 DEF Raise, stateVars
  <2>2. PICK c \in QueryRec : /\ QueryMoved(q, c) /\ c.pc \in {"wait", "denied"} /\ c.decision = query[q].decision
                              /\ c.at = query[q].at
    BY <1>8, QueryGoes DEF Raise
  <2> QED BY <1>4, <2>1, <2>2 DEF QueryInv, Unanswered
<1>9. ASSUME NEW q \in Queries, Reply(q) PROVE QueryInv'
  <2>1. UNCHANGED <<turn, answered>> /\ query[q].pc = "wait"
    BY <1>9 DEF Reply, stateVars, brokerVars
  <2>2. PICK pc \in {"bind", "raise", "wait", "allowed", "denied"} :
            /\ query' = [query EXCEPT ![q].pc = pc] /\ pc \in {"allowed", "denied"}
            /\ pc = "allowed" => query[q].decision = "accept"
    BY <1>9 DEF Reply
  <2>3. PICK c \in QueryRec : QueryMoved(q, c) /\ c.pc = pc /\ c.decision = query[q].decision
    <3>1. query' = [query EXCEPT ![q].pc = pc]
      BY <2>2
    <3>2. \E c \in QueryRec : /\ QueryMoved(q, c) /\ c.pc = pc /\ c.use = query[q].use /\ c.at = query[q].at
                              /\ c.decision = query[q].decision
      BY <3>1, QueryGoes
    <3> QED BY <3>2
  <2> QED BY <1>4, <2>1, <2>2, <2>3 DEF QueryInv
<1>10. ASSUME NEW q \in Queries, NEW accept \in BOOLEAN, Answer(q, accept) PROVE QueryInv'
  <2>1. turn' = turn
    BY <1>10 DEF Answer, stateVars
  <2>2. CASE UNCHANGED <<query, answered>>
    BY <2>1, <2>2 DEF QueryInv, Unanswered
  <2>3. CASE /\ query' = [query EXCEPT ![q].decision = IF accept THEN "accept" ELSE "decline"]
             /\ answered' = IF accept THEN answered \cup {q} ELSE answered
             /\ query[q].pc = "wait"
    <3>1. PICK x \in {"accept", "decline", "cancel"} : /\ query' = [query EXCEPT ![q].decision = x] /\ x # "cancel"
                                                       /\ x = "accept" => q \in answered'
      BY <2>3
    <3>2. PICK c \in QueryRec : QueryMoved(q, c) /\ c.pc = "wait" /\ c.decision = x
      <4>1. query' = [query EXCEPT ![q].decision = x]
        BY <3>1
      <4>2. \E c \in QueryRec : /\ QueryMoved(q, c) /\ c.pc = query[q].pc /\ c.use = query[q].use /\ c.at = query[q].at
                                /\ c.decision = x
        BY <4>1, QueryDecides
      <4> QED BY <2>3, <4>2
    <3>3. answered \subseteq answered'
      BY <2>3
    <3> QED BY <1>4, <2>1, <3>1, <3>2, <3>3
  <2> QED BY <1>10, <2>2, <2>3 DEF Answer, Waits
<1>11. \/ UNCHANGED <<turn, query, answered>> \/ StartTurn \/ \E p \in Procs : Handle(p)
       \/ \E q \in Queries :
            \/ RequestController(q) \/ \E u \in Uses : RequestPermission(q, u)
            \/ BindToolUse(q) \/ Unbound(q) \/ Raise(q) \/ Reply(q) \/ \E accept \in BOOLEAN : Answer(q, accept)
  BY DEF ActorNext, StartThread, InterruptTurn, CompleteLogin, SignedInAgain, ProcessAsks, ProcessLosesAuth, ProcessResult,
         ProcessExits, Emit, Finish, stateVars, brokerVars, counters
<1> QED BY <1>1, <1>2, <1>3, <1>5, <1>6, <1>7, <1>8, <1>9, <1>10, <1>11

\* A tool call that a process has written and the actor has not read is new to everyone; one
\* that was read is asked about at most once.
UseAt(p, i, u) == i \in DOMAIN process[p].out /\ process[p].out[i].kind = "use" /\ process[p].out[i].use = u
LinesNew ==
    /\ \A p \in Procs, i \in Nat, u \in Nat : UseAt(p, i, u) =>
          u \in 1 .. usesMade /\ toolUses[u] = "none" /\ \A q \in Queries : Claimed(q) => query[q].use # u
    /\ \A p, r \in Procs, i, j \in Nat, u \in Nat : UseAt(p, i, u) /\ UseAt(r, j, u) => p = r /\ i = j
UsesOnce ==
    /\ \A u \in Uses, q \in Queries : toolUses[u] = "seen" /\ Claimed(q) => query[q].use # u
    /\ \A u \in Uses : toolUses[u] # "none" => u <= usesMade
    /\ \A q \in Queries : Claimed(q) => query[q].use \in 1 .. usesMade
    /\ \A q, r \in Queries : q # r /\ Claimed(q) /\ Claimed(r) => query[q].use # query[r].use
UseInv == LinesNew /\ UsesOnce

\* No line is added, no call becomes known and no request is put to the controller.
LEMMA UseQuiet ==
    ASSUME ActorVars, UseInv, usesMade' = usesMade,
           \A p \in Procs, i \in Nat, u \in Nat : UseAt(p, i, u)' => UseAt(p, i, u),
           \A u \in Uses : toolUses'[u] \in {toolUses[u], "none"},
           \A q \in Queries : Claimed(q)' => Claimed(q) /\ query'[q].use = query[q].use
    PROVE  UseInv'
<1>1. \A u \in 1 .. usesMade : u \in Uses
  BY ActorAssumption DEF ActorVars, Uses
<1>2. LinesNew'
  BY <1>1 DEF UseInv, LinesNew
<1>3. UsesOnce'
  BY DEF UseInv, UsesOnce
<1> QED BY <1>2, <1>3 DEF UseInv

LEMMA SameLines ==
    ASSUME ActorVars, \A p \in Procs : process'[p].out = process[p].out
    PROVE  \A p \in Procs, i \in Nat, u \in Nat : UseAt(p, i, u)' => UseAt(p, i, u)
  BY DEF UseAt

\* A line put at the end of a process's output.
LEMMA LineAdded ==
    ASSUME ActorVars, NEW p \in Procs, NEW x \in LineRec, process'[p].out = Append(process[p].out, x),
           \A r \in Procs : r # p => process'[r].out = process[r].out
    PROVE  \A r \in Procs, i \in Nat, u \in Nat : UseAt(r, i, u)' =>
               UseAt(r, i, u) \/ (r = p /\ i = Len(process[p].out) + 1 /\ x.kind = "use" /\ x.use = u)
<1> SUFFICES ASSUME NEW r \in Procs, NEW i \in Nat, NEW u \in Nat, UseAt(r, i, u)'
             PROVE  UseAt(r, i, u) \/ (r = p /\ i = Len(process[p].out) + 1 /\ x.kind = "use" /\ x.use = u)
  OBVIOUS
<1>1. CASE r # p
  BY <1>1 DEF UseAt
<1>2. CASE r = p
  <2>1. PICK o \in Seq(LineRec) : o = process[p].out
    BY DEF ActorVars, ProcessRec
  <2>2. /\ DOMAIN Append(o, x) = 1 .. Len(o) + 1 /\ DOMAIN o = 1 .. Len(o) /\ Len(o) \in Nat
        /\ \A n \in 1 .. Len(o) : Append(o, x)[n] = o[n]
        /\ Append(o, x)[Len(o) + 1] = x
    BY <2>1, AppendProperties, LenProperties
  <2>3. i \in 1 .. Len(o) + 1 /\ Append(o, x)[i].kind = "use" /\ Append(o, x)[i].use = u
    BY <1>2, <2>1, <2>2 DEF UseAt
  <2>4. CASE i = Len(o) + 1
    BY <1>2, <2>1, <2>2, <2>3, <2>4
  <2>5. CASE i \in 1 .. Len(o)
    BY <1>2, <2>1, <2>2, <2>3, <2>5 DEF UseAt
  <2> QED BY <2>2, <2>3, <2>4, <2>5
<1> QED BY <1>1, <1>2

LEMMA UseStepProcess ==
    ASSUME ActorVars, UseInv,
           \/ StartThread \/ StartTurn
           \/ \E p \in Procs : ProcessAsks(p) \/ ProcessLosesAuth(p) \/ ProcessResult(p) \/ ProcessExits(p)
    PROVE  UseInv'
<1>1. CASE StartThread
  <2>1. \A r \in Procs : process'[r].out = process[r].out
    <3>1. CASE 1 \in Procs
      BY <1>1, <3>1 DEF StartThread, ActorVars, ProcessRec
    <3>2. CASE 1 \notin Procs
      BY <1>1, <3>2 DEF StartThread, ActorVars
    <3> QED BY <3>1, <3>2
  <2>2. UNCHANGED <<toolUses, query, usesMade>>
    BY <1>1 DEF StartThread
  <2> QED BY <2>1, <2>2, SameLines, UseQuiet DEF Claimed
<1>2. CASE StartTurn
  <2>1. PICK p \in Procs : process' = [process EXCEPT ![p].life = "busy", ![p].turn = turnsMade']
    BY <1>2 DEF StartTurn
  <2>2. \A r \in Procs : process'[r].out = process[r].out
    BY <2>1 DEF ActorVars, ProcessRec
  <2>3. UNCHANGED <<query, usesMade>> /\ \A u \in Uses : toolUses'[u] = "none"
    BY <1>2 DEF StartTurn
  <2> QED BY <2>2, <2>3, SameLines, UseQuiet DEF Claimed
<1>3. ASSUME NEW p \in Procs, ProcessExits(p) PROVE UseInv'
  <2>1. \A r \in Procs : process'[r].out = process[r].out
    BY <1>3 DEF ProcessExits, ActorVars, ProcessRec
  <2>2. UNCHANGED <<toolUses, query, usesMade>>
    BY <1>3 DEF ProcessExits, stateVars, counters
  <2> QED BY <2>1, <2>2, SameLines, UseQuiet DEF Claimed
<1>4. ASSUME NEW p \in Procs, ProcessLosesAuth(p) \/ ProcessResult(p) PROVE UseInv'
  <2>1. PICK x \in LineRec : /\ process'[p].out = Append(process[p].out, x) /\ x.kind # "use"
                             /\ \A r \in Procs : r # p => process'[r].out = process[r].out
    <3>1. process[p].turn \in Nat
      BY DEF ActorVars, ProcessRec
    <3>2. CASE ProcessLosesAuth(p)
      <4>1. PICK x \in LineRec : x = Line("auth", process[p].turn, 0) /\ x.kind = "auth"
        BY <3>1, ActorRecords
      <4>2. process' = [process EXCEPT ![p].out = Append(process[p].out, x)]
        BY <3>2, <4>1 DEF ProcessLosesAuth, Outputs
      <4> QED BY <4>1, <4>2 DEF ActorVars, ProcessRec
    <3>3. CASE ProcessResult(p)
      <4>1. PICK x \in LineRec : x = Line("result", process[p].turn, 0) /\ x.kind = "result"
        BY <3>1, ActorRecords
      <4>2. process' = [process EXCEPT ![p].life = "idle", ![p].out = Append(process[p].out, x)]
        BY <3>3, <4>1 DEF ProcessResult, ActorVars, ProcessRec
      <4> QED BY <4>1, <4>2 DEF ActorVars, ProcessRec
    <3> QED BY <1>4, <3>2, <3>3
  <2>2. UNCHANGED <<toolUses, query, usesMade>>
    BY <1>4 DEF ProcessLosesAuth, ProcessResult, stateVars, counters
  <2>3. \A r \in Procs, i \in Nat, u \in Nat : UseAt(r, i, u)' => UseAt(r, i, u)
    BY <2>1, LineAdded
  <2> QED BY <2>2, <2>3, UseQuiet DEF Claimed
<1>5. ASSUME NEW p \in Procs, ProcessAsks(p) PROVE UseInv'
  <2>1. UNCHANGED <<toolUses, query>> /\ usesMade' = usesMade + 1 /\ usesMade \in Nat /\ usesMade' \in Nat /\ usesMade' \in Uses
    BY <1>5, ActorAssumption DEF ProcessAsks, stateVars, ActorVars, Uses
  <2>2. PICK x \in LineRec : x = Line("use", process[p].turn, usesMade') /\ x.kind = "use" /\ x.use = usesMade'
    <3>1. process[p].turn \in Nat
      BY DEF ActorVars, ProcessRec
    <3> QED BY <2>1, <3>1, ActorRecords
  <2>3. process' = [process EXCEPT ![p].out = Append(process[p].out, x)]
    BY <1>5, <2>2 DEF ProcessAsks, Outputs
  <2>4. process'[p].out = Append(process[p].out, x) /\ \A r \in Procs : r # p => process'[r].out = process[r].out
    BY <2>3 DEF ActorVars, ProcessRec
  <2>5. \A r \in Procs, i \in Nat, u \in Nat : UseAt(r, i, u)' =>
            UseAt(r, i, u) \/ (r = p /\ i = Len(process[p].out) + 1 /\ u = usesMade')
    BY <2>2, <2>4, LineAdded
  <2>6. \A r \in Procs, i \in Nat, u \in Nat : UseAt(r, i, u) => u # usesMade'
    BY <2>1 DEF UseInv, LinesNew
  <2>7. toolUses[usesMade'] = "none" /\ \A q \in Queries : Claimed(q) => query[q].use # usesMade'
    BY <2>1 DEF UseInv, UsesOnce, ActorVars
  <2>8. LinesNew'
    <3>1. ASSUME NEW r \in Procs, NEW i \in Nat, NEW u \in Nat, UseAt(r, i, u)'
          PROVE  u \in 1 .. usesMade' /\ toolUses'[u] = "none" /\ \A q \in Queries : Claimed(q)' => query'[q].use # u
      BY <2>1, <2>5, <2>7, <3>1 DEF UseInv, LinesNew, Claimed
    <3>2. ASSUME NEW r \in Procs, NEW s \in Procs, NEW i \in Nat, NEW j \in Nat, NEW u \in Nat, UseAt(r, i, u)', UseAt(s, j, u)'
          PROVE  r = s /\ i = j
      <4>1. CASE u = usesMade'
        BY <2>5, <2>6, <3>2, <4>1
      <4>2. CASE u # usesMade'
        BY <2>5, <3>2, <4>2 DEF UseInv, LinesNew
      <4> QED BY <4>1, <4>2
    <3> QED BY <3>1, <3>2 DEF LinesNew
  <2>9. UsesOnce'
    BY <2>1 DEF UseInv, UsesOnce, Claimed, Uses
  <2> QED BY <2>8, <2>9 DEF UseInv
<1> QED BY <1>1, <1>2, <1>3, <1>4, <1>5

LEMMA UseStepHandle == ASSUME ActorVars, UseInv, NEW p \in Procs, Handle(p) PROVE UseInv'
<1>1. PICK o \in Seq(LineRec) : o = process[p].out /\ o # <<>>
  BY DEF ActorVars, ProcessRec, Handle
<1>2. PICK l \in LineRec : l = Head(o)
  BY <1>1
<1>3. process'[p].out = Tail(o) /\ \A r \in Procs : r # p => process'[r].out = process[r].out
  <2>1. process' = [process EXCEPT ![p].out = Tail(o)]
    BY <1>1 DEF Handle
  <2> QED BY <2>1 DEF ActorVars, ProcessRec
<1>4. /\ Tail(o) \in Seq(LineRec) /\ Len(o) \in Nat /\ DOMAIN o = 1 .. Len(o) /\ DOMAIN Tail(o) = 1 .. Len(o) - 1
      /\ \A i \in 1 .. Len(o) - 1 : Tail(o)[i] = o[i + 1]
      /\ o[1] = l /\ 1 \in 1 .. Len(o)
  <2>1. Tail(o) \in Seq(LineRec) /\ Len(Tail(o)) = Len(o) - 1 /\ \A i \in 1 .. Len(Tail(o)) : Tail(o)[i] = o[i + 1]
    BY <1>1, HeadTailProperties
  <2>2. Len(o) \in Nat /\ DOMAIN o = 1 .. Len(o) /\ DOMAIN Tail(o) = 1 .. Len(Tail(o)) /\ Len(o) # 0
    BY <1>1, <2>1, LenProperties, EmptySeq
  <2> QED BY <1>1, <1>2, <2>1, <2>2
<1>5. usesMade' = usesMade /\ usesMade \in Nat /\ \A u \in 1 .. usesMade : u \in Uses
  BY ActorAssumption DEF Handle, counters, ActorVars, Uses
<1>6. \A q \in Queries : query'[q].pc = query[q].pc /\ query'[q].use = query[q].use
  <2>1. query' \in {query, CancelPermissions}
    BY DEF Handle
  <2>2. ASSUME NEW q \in Queries, NEW d \in QueryRec, d = query[q]
        PROVE  CancelPermissions[q].pc = d.pc /\ CancelPermissions[q].use = d.use
    BY <2>2 DEF CancelPermissions, QueryRec
  <2> QED BY <2>1, <2>2 DEF ActorVars
<1>7. \A u \in Uses : \/ toolUses'[u] \in {"none", toolUses[u]}
                      \/ l.kind = "use" /\ l.use = u /\ toolUses'[u] = "seen"
  <2>1. \/ toolUses' = [u \in Uses |-> "none"] \/ toolUses' = toolUses
        \/ l.kind = "use" /\ toolUses' = RecordToolUses(l.use)
    BY <1>1, <1>2 DEF Handle
  <2> QED BY <2>1 DEF RecordToolUses, ActorVars
<1>8. l.kind = "use" => UseAt(p, 1, l.use) /\ l.use \in Nat
  BY <1>1, <1>4 DEF UseAt, LineRec
<1>9. l.kind = "use" => /\ l.use \in 1 .. usesMade /\ \A q \in Queries : Claimed(q) => query[q].use # l.use
  BY <1>8 DEF UseInv, LinesNew
<1>10. \A r \in Procs, i \in Nat, u \in Nat : UseAt(r, i, u)' =>
          IF r = p THEN UseAt(p, i + 1, u) ELSE UseAt(r, i, u)
  <2> SUFFICES ASSUME NEW r \in Procs, NEW i \in Nat, NEW u \in Nat, UseAt(r, i, u)'
               PROVE  IF r = p THEN UseAt(p, i + 1, u) ELSE UseAt(r, i, u)
    OBVIOUS
  <2>1. CASE r # p
    BY <1>3, <2>1 DEF UseAt
  <2>2. CASE r = p
    <3>1. i \in 1 .. Len(o) - 1 /\ o[i + 1].kind = "use" /\ o[i + 1].use = u
      BY <1>3, <1>4, <2>2 DEF UseAt
    <3>2. i + 1 \in 1 .. Len(o)
      BY <1>4, <3>1
    <3> QED BY <1>1, <1>4, <2>2, <3>1, <3>2 DEF UseAt
  <2> QED BY <2>1, <2>2
<1>11. ASSUME NEW r \in Procs, NEW i \in Nat, NEW u \in Nat, UseAt(r, i, u)', l.kind = "use" PROVE u # l.use
  <2>1. CASE r = p
    <3>1. UseAt(p, i + 1, u) /\ i + 1 \in Nat /\ (i + 1 = 1 => i = 0)
      BY <1>10, <1>11, <2>1
    <3>2. i # 0
      BY <1>3, <1>4, <1>11, <2>1 DEF UseAt
    <3> QED BY <1>8, <1>11, <3>1, <3>2 DEF UseInv, LinesNew
  <2>2. CASE r # p
    BY <1>8, <1>10, <1>11, <2>2 DEF UseInv, LinesNew
  <2> QED BY <2>1, <2>2
<1>12. LinesNew'
  <2>1. ASSUME NEW r \in Procs, NEW i \in Nat, NEW u \in Nat, UseAt(r, i, u)'
        PROVE  u \in 1 .. usesMade' /\ toolUses'[u] = "none" /\ \A q \in Queries : Claimed(q)' => query'[q].use # u
    <3>1. PICK j \in Nat : UseAt(r, j, u)
      BY <1>10, <2>1
    <3>2. u \in 1 .. usesMade /\ toolUses[u] = "none" /\ \A q \in Queries : Claimed(q) => query[q].use # u
      BY <3>1 DEF UseInv, LinesNew
    <3>3. u \in Uses /\ ~(l.kind = "use" /\ l.use = u)
      BY <1>5, <1>11, <2>1, <3>2
    <3>4. toolUses'[u] = "none"
      BY <1>7, <3>2, <3>3
    <3> QED BY <1>5, <1>6, <3>2, <3>4 DEF Claimed
  <2>2. ASSUME NEW r \in Procs, NEW s \in Procs, NEW i \in Nat, NEW j \in Nat, NEW u \in Nat, UseAt(r, i, u)', UseAt(s, j, u)'
        PROVE  r = s /\ i = j
    <3>1. PICK m \in Nat : UseAt(r, m, u) /\ m = IF r = p THEN i + 1 ELSE i
      BY <1>10, <2>2
    <3>2. PICK n \in Nat : UseAt(s, n, u) /\ n = IF s = p THEN j + 1 ELSE j
      BY <1>10, <2>2
    <3>3. r = s /\ m = n
      BY <3>1, <3>2 DEF UseInv, LinesNew
    <3> QED BY <3>1, <3>2, <3>3
  <2> QED BY <2>1, <2>2 DEF LinesNew
<1>13. UsesOnce'
  <2>1. \A q \in Queries : Claimed(q)' <=> Claimed(q)
    BY <1>6 DEF Claimed
  <2>2. \A u \in Uses, q \in Queries : toolUses'[u] = "seen" /\ Claimed(q)' => query'[q].use # u
    BY <1>6, <1>7, <1>9, <2>1 DEF UseInv, UsesOnce
  <2>3. \A u \in Uses : toolUses'[u] # "none" => u <= usesMade
    BY <1>5, <1>7, <1>9 DEF UseInv, UsesOnce
  <2> QED BY <1>5, <1>6, <2>1, <2>2, <2>3 DEF UseInv, UsesOnce
<1> QED BY <1>12, <1>13 DEF UseInv

LEMMA UseStep == ASSUME ActorVars, UseInv, ActorNext PROVE UseInv'
<1>1. CASE UNCHANGED <<process, toolUses, query, usesMade>>
  BY <1>1, UseQuiet DEF UseAt, Claimed
<1>2. ASSUME NEW q \in Queries, NEW c \in QueryRec, QueryMoved(q, c), UNCHANGED <<process, toolUses, usesMade>>,
             c.pc \in {"raise", "wait", "allowed"} => Claimed(q) /\ c.use = query[q].use
      PROVE  UseInv'
  <2>1. query'[q] = c /\ \A r \in Queries : r # q => query'[r] = query[r]
    BY <1>2 DEF ActorVars, QueryMoved
  <2>2. \A r \in Queries : Claimed(r)' => Claimed(r) /\ query'[r].use = query[r].use
    BY <1>2, <2>1 DEF Claimed
  <2> QED BY <1>2, <2>2, UseQuiet DEF UseAt
<1>3. ASSUME NEW q \in Queries, RequestController(q) \/ \E u \in Uses : RequestPermission(q, u) PROVE UseInv'
  <2>1. PICK u \in Nat, kind \in {"permission", "controller"} : Request(q, kind, u)
    BY <1>3, ActorAssumption DEF RequestController, RequestPermission, Uses
  <2>2. PICK c : /\ QueryMoved(q, c)
                 /\ c = [pc |-> IF turn = 0 \/ Pending >= MaxWaiting THEN "denied" ELSE "bind",
                         kind |-> kind, use |-> u, at |-> turn, decision |-> "none"]
    BY <2>1 DEF Request, QueryMoved
  <2>3. c \in QueryRec /\ c.pc \in {"denied", "bind"}
    BY <2>2 DEF QueryRec, ActorVars
  <2>4. UNCHANGED <<process, toolUses, usesMade>>
    BY <2>1 DEF Request, stateVars, counters
  <2> QED BY <1>2, <2>2, <2>3, <2>4
<1>4. ASSUME NEW q \in Queries, Unbound(q) \/ Raise(q) \/ Reply(q) PROVE UseInv'
  <2>1. UNCHANGED <<process, toolUses, usesMade>>
    BY <1>4 DEF Unbound, Raise, Reply, stateVars, counters
  <2>2. PICK pc \in {"bind", "raise", "wait", "allowed", "denied"} :
            query' = [query EXCEPT ![q].pc = pc] /\ (pc # "denied" => Claimed(q))
    BY <1>4 DEF Unbound, Raise, Reply, Claimed
  <2>3. query' = [query EXCEPT ![q].pc = pc]
    BY <2>2
  <2>4. \E c \in QueryRec : /\ QueryMoved(q, c) /\ c.pc = pc /\ c.use = query[q].use /\ c.at = query[q].at
                             /\ c.decision = query[q].decision
    BY <2>3, QueryGoes
  <2>5. PICK c \in QueryRec : QueryMoved(q, c) /\ c.pc = pc /\ c.use = query[q].use
    BY <2>4
  <2> QED BY <1>2, <2>1, <2>2, <2>5
<1>5. ASSUME NEW q \in Queries, NEW accept \in BOOLEAN, Answer(q, accept) PROVE UseInv'
  <2>1. UNCHANGED <<process, toolUses, usesMade>>
    BY <1>5 DEF Answer, stateVars, counters
  <2>2. CASE UNCHANGED query
    BY <1>1, <2>1, <2>2
  <2>3. CASE query' = [query EXCEPT ![q].decision = IF accept THEN "accept" ELSE "decline"]
    <3>1. PICK x \in {"accept", "decline", "cancel"} : query' = [query EXCEPT ![q].decision = x]
      BY <2>3
    <3>2. PICK c \in QueryRec : QueryMoved(q, c) /\ c.pc = query[q].pc /\ c.use = query[q].use
      BY <3>1, QueryDecides
    <3> QED BY <1>2, <2>1, <3>2 DEF Claimed
  <2> QED BY <1>5, <2>2, <2>3 DEF Answer
<1>6. ASSUME NEW q \in Queries, BindToolUse(q) PROVE UseInv'
  <2>1. PICK u \in Uses : /\ query' = [query EXCEPT ![q].use = u, ![q].pc = IF turn = query[q].at THEN "raise" ELSE "denied"]
                          /\ toolUses[u] = "seen" /\ toolUses' = [toolUses EXCEPT ![u] = "asked"]
    BY <1>6 DEF BindToolUse, Claimable, ByContent
  <2>2. u \in Nat /\ UNCHANGED <<process, usesMade>>
    BY <1>6, ActorAssumption DEF Uses, BindToolUse, counters
  <2>3. PICK pc \in {"bind", "raise", "wait", "allowed", "denied"} : pc = (IF turn = query[q].at THEN "raise" ELSE "denied")
    OBVIOUS
  <2>4. QueryBound(q, u, pc)
    BY <2>1, <2>3 DEF QueryBound
  <2>5. PICK c \in QueryRec : QueryMoved(q, c) /\ c.pc = pc /\ c.use = u
    BY <2>2, <2>4, QueryBinds
  <2>6. query'[q] = c /\ \A r \in Queries : r # q => query'[r] = query[r]
    BY <2>5 DEF ActorVars, QueryMoved
  <2>7. u \in 1 .. usesMade
    BY <2>1 DEF UseInv, UsesOnce, ActorVars, Uses
  <2>8. toolUses'[u] = "asked" /\ \A v \in Uses : v # u => toolUses'[v] = toolUses[v]
    BY <2>1 DEF ActorVars
  <2>9. \A r \in Procs, i \in Nat, v \in Nat : UseAt(r, i, v) => v # u
    BY <2>1, <2>2 DEF UseInv, LinesNew
  <2>10. \A r \in Procs, i \in Nat, v \in Nat : UseAt(r, i, v)' <=> UseAt(r, i, v)
    BY <2>2 DEF UseAt
  <2>11. \A r \in Queries : Claimed(r)' /\ query'[r].use # u => Claimed(r) /\ query'[r].use = query[r].use
    BY <2>5, <2>6 DEF Claimed
  <2>12. \A v \in 1 .. usesMade : v \in Uses
    BY ActorAssumption DEF ActorVars, Uses
  <2>13. LinesNew'
    BY <2>2, <2>8, <2>9, <2>10, <2>11, <2>12 DEF UseInv, LinesNew
  <2>14. \A r \in Queries : r # q /\ Claimed(r) => query[r].use # u
    BY <2>1 DEF UseInv, UsesOnce
  <2>15. \A r \in Queries : r # q => (Claimed(r)' <=> Claimed(r)) /\ query'[r] = query[r]
    BY <2>6 DEF Claimed
  <2>16. UsesOnce'
    BY <2>2, <2>5, <2>6, <2>7, <2>8, <2>14, <2>15 DEF UseInv, UsesOnce
  <2> QED BY <2>13, <2>16 DEF UseInv
<1>7. \/ UNCHANGED <<process, toolUses, query, usesMade>>
      \/ StartThread \/ StartTurn
      \/ \E p \in Procs : ProcessAsks(p) \/ ProcessLosesAuth(p) \/ ProcessResult(p) \/ ProcessExits(p) \/ Handle(p)
      \/ \E q \in Queries :
            \/ RequestController(q) \/ \E u \in Uses : RequestPermission(q, u)
            \/ BindToolUse(q) \/ Unbound(q) \/ Raise(q) \/ Reply(q) \/ \E accept \in BOOLEAN : Answer(q, accept)
  BY DEF ActorNext, InterruptTurn, CompleteLogin, SignedInAgain, Emit, Finish, stateVars, brokerVars, counters
<1> QED BY <1>1, <1>3, <1>4, <1>5, <1>6, <1>7, UseStepProcess, UseStepHandle

ActorInv == ActorVars /\ QueryInv /\ ReportInv /\ UseInv

\* A tool call is put to the controller once, has one outcome and does not outlive its turn,
\* for any number of processes, turns, calls and requests of the coding user.
THEOREM ToolCallsAreOnce == Spec => []ToolCallsOnce
<1>1. Init => McpInv /\ ActorInv
  <2> SUFFICES ASSUME Init PROVE McpInv /\ ActorInv
    OBVIOUS
  <2>1. McpInv
    BY DEF Init, McpInit, McpInv, NoCall, IdTrue, Outcomes
  <2>2. ActorVars
    <3>1. proc \in Nat /\ turn \in Nat /\ turnsMade \in 0 .. MaxTurns /\ usesMade \in 0 .. MaxUses
      BY ActorAssumption DEF Init, ActorInit
    <3>4. halted \in BOOLEAN
      BY DEF Init, ActorInit
    <3>5. toolUses \in [Uses -> {"none", "seen", "asked"}]
      BY DEF Init, ActorInit
    <3>2. process \in [Procs -> ProcessRec] /\ emit \in [Procs -> EmitRec] /\ query \in [Queries -> QueryRec]
      BY ActorRecords DEF Init, ActorInit
    <3>3. reports \in [Turns -> Seq({"completed", "interrupted"})]
      BY DEF Init, ActorInit
    <3> QED BY <3>1, <3>2, <3>3, <3>4, <3>5 DEF ActorVars
  <2>3. QueryInv /\ UsesOnce
    BY DEF Init, ActorInit, NoQuery, QueryInv, Unanswered, UsesOnce, Claimed
  <2>4. ReportInv
    BY DEF Init, ActorInit, NoEmit, ReportInv, Ends1
  <2>5. LinesNew
    BY DEF Init, ActorInit, NoProcess, LinesNew, UseAt
  <2> QED BY <2>1, <2>2, <2>3, <2>4, <2>5 DEF ActorInv, UseInv
<1>2. McpInv /\ ActorInv /\ [Next]_vars => (McpInv /\ ActorInv)'
  <2> SUFFICES ASSUME McpInv, ActorInv, [Next]_vars PROVE McpInv' /\ ActorInv'
    OBVIOUS
  <2>1. UNCHANGED mcpVars => McpInv'
    BY DEF mcpVars, McpInv, IdTrue
  <2>2. UNCHANGED claudeVars => ActorInv'
    <3> SUFFICES ASSUME UNCHANGED claudeVars PROVE ActorInv'
      OBVIOUS
    <3>1. ActorVars' /\ QueryInv' /\ ReportInv'
      BY DEF claudeVars, ActorInv, ActorVars, QueryInv, Unanswered, ReportInv
    <3>2. UseInv'
      BY DEF claudeVars, ActorInv, UseInv, UsesOnce, LinesNew, UseAt, Claimed
    <3> QED BY <3>1, <3>2 DEF ActorInv
  <2>3. ActorNext => ActorInv'
    BY ActorTypes, QueryStep, ReportStep, UseStep DEF ActorInv
  <2>4. (McpNext \/ UNCHANGED mcpVars) /\ (ActorNext \/ UNCHANGED claudeVars)
    BY DEF Next, vars
  <2> QED BY <2>1, <2>2, <2>3, <2>4, McpStep
<1>3. McpInv /\ ActorInv => ToolCallsOnce
  <2> SUFFICES ASSUME McpInv, ActorInv PROVE AskedOnce /\ NoneOutlivesTurn /\ OneOutcome
    BY DEF ToolCallsOnce
  <2>1. AskedOnce
    BY DEF ActorInv, UseInv, UsesOnce, QueryInv, Claimed, AskedOnce
  <2>2. NoneOutlivesTurn
    BY DEF ActorInv, QueryInv, ReportInv, Unanswered, NoneOutlivesTurn
  <2> QED BY <2>1, <2>2, McpOutcome
<1> QED BY <1>1, <1>2, <1>3, PTL DEF Spec

(******************************** the mail channel **********************************)
ChanRec == [pc : {"none", "intent", "listen", "open", "failed", "closed"}, closing : BOOLEAN,
            revoke : {"no", "relay", "server", "done"}, revoked : BOOLEAN, serving : BOOLEAN, life : BOOLEAN,
            close : {"no", "waits", "done"}, tokens : Int]
MailRec == [pc : {"none", "in", "body", "share", "slot", "send", "up", "reply", "done"}, ch : Channels \cup {Free},
            post : BOOLEAN, cancelled : BOOLEAN, share : BOOLEAN, slot : BOOLEAN]
MailTypes ==
    /\ channel \in [Channels -> ChanRec] /\ mail \in [Mails -> MailRec]
    /\ receipts \in [Channels -> SUBSET {"intent", "ready", "closed"}]
    /\ others \in Nat /\ nodeSlots \in Nat

\* A channel has the lock until it is closed or has failed, serves only while it is open, is
\* revoked after it has begun to close, and its socket is gone when it is closed.
ChannelInv ==
    \A c \in Channels :
        /\ channel[c].pc \in {"intent", "listen", "open"} => mailLock = c
        /\ channel[c].serving => channel[c].pc = "open"
        /\ channel[c].revoke # "no" => channel[c].closing /\ channel[c].pc \in {"open", "closed"}
        /\ channel[c].revoked => channel[c].pc = "failed" \/ channel[c].revoke \in {"server", "done"}
        /\ channel[c].close = "waits" => channel[c].pc = "open"
        /\ channel[c].pc = "closed" => channel[c].closing /\ socket # c
        /\ "closed" \in receipts[c] => channel[c].pc = "closed"

\* What one request may be, given its channel.
LetIn(q) ==
    /\ mail[q].pc = "none" <=> mail[q].ch = Free
    /\ mail[q].pc = "none" => mail[q] = NoMail
    /\ mail[q].slot <=> mail[q].pc \in {"slot", "send", "up"}
    /\ \A c \in Channels : mail[q].ch = c =>
          /\ channel[c].pc \in {"open", "closed"}
          /\ channel[c].pc = "closed" => mail[q].pc = "done"
          /\ channel[c].revoked /\ mail[q].pc \notin {"in", "done"} => mail[q].cancelled
RelayInv == tooLate = {} /\ \A q \in Mails : LetIn(q)

Slotted == {q \in Mails : mail[q].slot}
SlotInv == nodeSlots = others + Cardinality(Slotted)
MailInv == MailTypes /\ ChannelInv /\ RelayInv /\ SlotInv

LEMMA NoMailRec == NoMail \in MailRec /\ Unopened \in ChanRec
  BY MailAssumption DEF NoMail, Unopened, MailRec, ChanRec, Free

\* What becomes of a channel's record, and of a request's.
ChanMoved(c, k) == channel' = [channel EXCEPT ![c] = k]
MailMoved(q, m) == mail' = [mail EXCEPT ![q] = m]

\* The steps that change a channel and no request.
LEMMA ChannelMoves ==
    ASSUME MailTypes, ChannelInv, RelayInv, NEW c \in Channels,
           \/ Listen(c) \/ OpenMail(c) \/ Ready(c) \/ OpenFails(c) \/ Revoke(c) \/ ServerClose(c) \/ ServeEnds(c)
           \/ Close(c) \/ CloseTimesOut(c)
    PROVE  MailTypes' /\ ChannelInv' /\ RelayInv'
<1> USE DEF Listen, OpenMail, Ready, OpenFails, Revoke, ServerClose, ServeEnds, Close, CloseTimesOut
<1>1. channel' \in [Channels -> ChanRec]
  <2>1. CASE Listen(c) \/ OpenMail(c) \/ Ready(c) \/ OpenFails(c)
    BY <2>1 DEF MailTypes, ChanRec
  <2>2. CASE Revoke(c)
    <3>1. PICK k \in ChanRec : k = channel[c]
      BY DEF MailTypes
    <3>2. PICK l : l = [k EXCEPT !.closing = TRUE, !.revoke = "relay"]
      OBVIOUS
    <3>3. l \in ChanRec
      BY <3>2 DEF ChanRec
    <3>4. channel' = [channel EXCEPT ![c] = l]
      BY <3>1, <3>2, <2>2
    <3> QED BY <3>3, <3>4 DEF MailTypes
  <2>4. CASE ServeEnds(c)
    <3>1. PICK k \in ChanRec : k = channel[c]
      BY DEF MailTypes
    <3>2. PICK l : l = [k EXCEPT !.serving = FALSE]
      OBVIOUS
    <3>3. l \in ChanRec
      BY <3>2 DEF ChanRec
    <3>4. channel' = [channel EXCEPT ![c] = l]
      BY <3>1, <3>2, <2>4
    <3> QED BY <3>3, <3>4 DEF MailTypes
  <2>3. CASE Close(c) \/ CloseTimesOut(c) \/ ServerClose(c)
    BY <2>3 DEF MailTypes, ChanRec
  <2> QED BY <2>1, <2>2, <2>3, <2>4
<1>2. MailTypes'
  BY <1>1 DEF MailTypes
<1>3. ChannelInv'
  BY MailAssumption DEF ChannelInv, Free, MailTypes, ChanRec
<1>4. RelayInv'
  BY DEF ChannelInv, RelayInv, LetIn, MailTypes, ChanRec
<1> QED BY <1>2, <1>3, <1>4

\* The tokens are in no invariant.
LEMMA TokensMove ==
    ASSUME MailTypes, ChannelInv, RelayInv, NEW c \in Channels, NEW t \in Int,
           channel' = [channel EXCEPT ![c].tokens = t], UNCHANGED <<mailLock, socket, receipts>>
    PROVE  /\ channel' \in [Channels -> ChanRec] /\ ChannelInv'
           /\ \A d \in Channels : channel'[d].pc = channel[d].pc /\ channel'[d].revoked = channel[d].revoked
<1>1. PICK k \in ChanRec : k = channel[c]
  BY DEF MailTypes
<1>2. PICK l : l = [k EXCEPT !.tokens = t]
  OBVIOUS
<1>3. /\ l \in ChanRec /\ l.pc = k.pc /\ l.closing = k.closing /\ l.revoke = k.revoke /\ l.revoked = k.revoked
      /\ l.serving = k.serving /\ l.close = k.close
  BY <1>2 DEF ChanRec
<1>4. channel' = [channel EXCEPT ![c] = l]
  BY <1>1, <1>2
<1>5. channel'[c] = l /\ \A d \in Channels : d # c => channel'[d] = channel[d]
  BY <1>4 DEF MailTypes
<1>6. channel' \in [Channels -> ChanRec]
  BY <1>3, <1>4 DEF MailTypes
<1> QED BY <1>1, <1>3, <1>5, <1>6 DEF ChannelInv

LEMMA ChannelRefills ==
    ASSUME MailTypes, ChannelInv, RelayInv, NEW c \in Channels, Refill(c)
    PROVE  MailTypes' /\ ChannelInv' /\ RelayInv'
<1>1. PICK t \in Int : channel' = [channel EXCEPT ![c].tokens = t] /\ UNCHANGED <<mailLock, socket, receipts, mail, others, nodeSlots, tooLate>>
  <2>1. channel[c].tokens + 1 \in Int
    BY DEF MailTypes, ChanRec
  <2>2. channel' = [channel EXCEPT ![c].tokens = channel[c].tokens + 1] /\ UNCHANGED <<mailLock, socket, receipts, mail, others, nodeSlots, tooLate>>
    BY DEF Refill, MailTypes, ChanRec
  <2> QED BY <2>1, <2>2
<1>2. channel' = [channel EXCEPT ![c].tokens = t] /\ UNCHANGED <<mailLock, socket, receipts>>
  BY <1>1
<1>3. /\ channel' \in [Channels -> ChanRec] /\ ChannelInv'
      /\ \A d \in Channels : channel'[d].pc = channel[d].pc /\ channel'[d].revoked = channel[d].revoked
  BY <1>2, TokensMove
<1>4. MailTypes'
  BY <1>1, <1>3 DEF MailTypes
<1>5. RelayInv'
  BY <1>1, <1>3 DEF RelayInv, LetIn
<1> QED BY <1>3, <1>4, <1>5

\* The drain: a closed channel has no request left.
LEMMA ChannelCloses ==
    ASSUME MailTypes, ChannelInv, RelayInv, NEW c \in Channels, CloseFinishes(c)
    PROVE  MailTypes' /\ ChannelInv' /\ RelayInv'
<1> USE DEF CloseFinishes, Drained, MailTypes, ChanRec
<1>1. channel' \in [Channels -> ChanRec]
  OBVIOUS
<1>2. MailTypes'
  BY <1>1
<1>3. ChannelInv'
  BY MailAssumption DEF ChannelInv, Free
<1>4. RelayInv'
  BY DEF ChannelInv, RelayInv, LetIn, Active
<1> QED BY <1>2, <1>3, <1>4

\* The steps that cancel the requests of a channel.
LEMMA ChannelCancels ==
    ASSUME MailTypes, ChannelInv, RelayInv, NEW c \in Channels, LifeEnds(c) \/ RelayRevoke(c)
    PROVE  MailTypes' /\ ChannelInv' /\ RelayInv' /\ \A q \in Mails : mail'[q].slot = mail[q].slot
<1>1. channel' \in [Channels -> ChanRec] /\ ChannelInv'
  <2>1. CASE LifeEnds(c)
    <3>1. channel' \in [Channels -> ChanRec]
      <4>1. PICK k \in ChanRec : k = channel[c]
        BY DEF MailTypes
      <4>2. PICK l : l = [k EXCEPT !.life = FALSE]
        OBVIOUS
      <4>3. l \in ChanRec
        BY <4>2 DEF ChanRec
      <4>4. channel' = [channel EXCEPT ![c] = l]
        BY <4>1, <4>2, <2>1 DEF LifeEnds
      <4> QED BY <4>3, <4>4 DEF MailTypes
    <3>2. ChannelInv'
      BY <2>1 DEF LifeEnds, ChannelInv, MailTypes, ChanRec
    <3> QED BY <3>1, <3>2
  <2>2. CASE RelayRevoke(c)
    <3>1. channel' \in [Channels -> ChanRec]
      <4>1. PICK k \in ChanRec : k = channel[c]
        BY DEF MailTypes
      <4>2. PICK l : l = [k EXCEPT !.revoke = "server", !.revoked = TRUE]
        OBVIOUS
      <4>3. l \in ChanRec
        BY <4>2 DEF ChanRec
      <4>4. channel' = [channel EXCEPT ![c] = l]
        BY <4>1, <4>2, <2>2 DEF RelayRevoke
      <4> QED BY <4>3, <4>4 DEF MailTypes
    <3>2. ChannelInv'
      BY <2>2 DEF RelayRevoke, ChannelInv, MailTypes, ChanRec
    <3> QED BY <3>1, <3>2
  <2> QED BY <2>1, <2>2
<1>2. \A d \in Channels : channel'[d].pc = channel[d].pc /\ (channel'[d].revoked => channel[d].revoked \/ (d = c /\ RelayRevoke(c)))
  BY DEF LifeEnds, RelayRevoke, MailTypes, ChanRec
<1>3. \A q \in Mails : /\ mail'[q] = mail[q] \/ mail'[q] = [mail[q] EXCEPT !.cancelled = TRUE]
                       /\ RelayRevoke(c) /\ mail[q].ch = c /\ mail[q].pc # "in" => mail'[q] = [mail[q] EXCEPT !.cancelled = TRUE]
                       /\ mail[q].ch = Free => mail'[q] = mail[q]
  BY MailAssumption DEF LifeEnds, RelayRevoke, Free
<1>4. \A q \in Mails : /\ [mail[q] EXCEPT !.cancelled = TRUE] \in MailRec
                       /\ [mail[q] EXCEPT !.cancelled = TRUE].cancelled
                       /\ [mail[q] EXCEPT !.cancelled = TRUE].pc = mail[q].pc
                       /\ [mail[q] EXCEPT !.cancelled = TRUE].ch = mail[q].ch
                       /\ [mail[q] EXCEPT !.cancelled = TRUE].slot = mail[q].slot
  BY DEF MailTypes, MailRec
<1>5. \A q \in Mails : /\ mail'[q] \in MailRec /\ mail'[q].pc = mail[q].pc /\ mail'[q].ch = mail[q].ch
                       /\ mail'[q].slot = mail[q].slot /\ (mail[q].cancelled => mail'[q].cancelled)
                       /\ RelayRevoke(c) /\ mail[q].ch = c /\ mail[q].pc # "in" => mail'[q].cancelled
  BY <1>3, <1>4 DEF MailTypes
<1>6. MailTypes'
  <2>1. mail' \in [Mails -> MailRec]
    BY <1>5 DEF LifeEnds, RelayRevoke
  <2> QED BY <1>1, <2>1 DEF LifeEnds, RelayRevoke, MailTypes
<1>7. RelayInv'
  BY <1>2, <1>3, <1>5 DEF LifeEnds, RelayRevoke, RelayInv, LetIn
<1> QED BY <1>1, <1>5, <1>6, <1>7

\* What a request's step leaves of the channels.
ChannelsKept ==
    /\ channel' \in [Channels -> ChanRec] /\ ChannelInv' /\ UNCHANGED <<mailLock, socket, receipts>>
    /\ \A d \in Channels : channel'[d].pc = channel[d].pc /\ channel'[d].revoked = channel[d].revoked

LEMMA ChannelsStay == ASSUME MailTypes, ChannelInv, UNCHANGED chanVars PROVE ChannelsKept
  BY DEF chanVars, ChannelsKept, ChannelInv, MailTypes

\* Slots are finite, and one request's change is one slot's.
LEMMA SlotsMove ==
    ASSUME MailTypes, NEW q \in Mails, NEW m \in MailRec, MailMoved(q, m)
    PROVE  /\ Cardinality(Slotted) \in Nat
           /\ mail[q].slot = m.slot => Cardinality(Slotted') = Cardinality(Slotted)
           /\ mail[q].slot /\ ~m.slot => Cardinality(Slotted') = Cardinality(Slotted) - 1
           /\ ~mail[q].slot /\ m.slot => Cardinality(Slotted') = Cardinality(Slotted) + 1
<1>1. mail'[q] = m /\ \A r \in Mails : r # q => mail'[r] = mail[r]
  BY DEF MailTypes, MailMoved
<1>2. IsFiniteSet(Slotted) /\ Cardinality(Slotted) \in Nat
  BY MailAssumption, FS_Subset, FS_CardinalityType DEF Slotted
<1>3. ASSUME mail[q].slot = m.slot PROVE Slotted' = Slotted
  BY <1>1, <1>3 DEF Slotted
<1>4. ASSUME mail[q].slot, ~m.slot PROVE Cardinality(Slotted') = Cardinality(Slotted) - 1
  <2>1. Slotted' = Slotted \ {q} /\ q \in Slotted
    BY <1>1, <1>4 DEF Slotted
  <2> QED BY <1>2, <2>1, FS_RemoveElement
<1>5. ASSUME ~mail[q].slot, m.slot PROVE Cardinality(Slotted') = Cardinality(Slotted) + 1
  <2>1. Slotted' = Slotted \cup {q} /\ q \notin Slotted
    BY <1>1, <1>5 DEF Slotted
  <2> QED BY <1>2, <2>1, FS_AddElement
<1> QED BY <1>2, <1>3, <1>4, <1>5

\* One step of a request that was let in: it keeps its channel and its cancellation, passes the
\* relay only before the revocation, and counts its slot.
LEMMA MailGoesOn ==
    ASSUME MailInv, NEW q \in Mails, NEW m \in MailRec, MailMoved(q, m), ChannelsKept, tooLate' = {}, UNCHANGED others,
           mail[q].pc # "none", m.pc # "none", mail[q].pc # "done", m.ch = mail[q].ch,
           m.slot <=> m.pc \in {"slot", "send", "up"},
           m.pc \notin {"in", "done"} => (m.cancelled = mail[q].cancelled /\ (mail[q].pc # "in" \/ ~channel[mail[q].ch].revoked)),
           mail[q].slot = m.slot => nodeSlots' = nodeSlots,
           mail[q].slot /\ ~m.slot => nodeSlots' = nodeSlots - 1,
           ~mail[q].slot /\ m.slot => nodeSlots' = nodeSlots + 1
    PROVE  MailInv'
<1> USE DEF MailInv
<1>1. mail'[q] = m /\ \A r \in Mails : r # q => mail'[r] = mail[r]
  BY DEF MailTypes, MailMoved
<1>2. mail' \in [Mails -> MailRec]
  BY DEF MailTypes, MailMoved
<1>3. mail[q].slot \in BOOLEAN /\ m.slot \in BOOLEAN
  BY DEF MailTypes, MailRec
<1>4. SlotInv' /\ nodeSlots' \in Nat
  <2>1. /\ Cardinality(Slotted) \in Nat
        /\ mail[q].slot = m.slot => Cardinality(Slotted') = Cardinality(Slotted)
        /\ mail[q].slot /\ ~m.slot => Cardinality(Slotted') = Cardinality(Slotted) - 1
        /\ ~mail[q].slot /\ m.slot => Cardinality(Slotted') = Cardinality(Slotted) + 1
    BY SlotsMove
  <2>2. Cardinality(Slotted') \in Nat
    <3>1. IsFiniteSet(Slotted')
      BY MailAssumption, FS_Subset DEF Slotted
    <3> QED BY <3>1, FS_CardinalityType
  <2>3. CASE mail[q].slot = m.slot
    BY <2>1, <2>2, <2>3 DEF SlotInv, MailTypes
  <2>4. CASE mail[q].slot /\ ~m.slot
    BY <2>1, <2>2, <2>4 DEF SlotInv, MailTypes
  <2>5. CASE ~mail[q].slot /\ m.slot
    BY <2>1, <2>2, <2>5 DEF SlotInv, MailTypes
  <2> QED BY <1>3, <2>3, <2>4, <2>5
<1>5. LetIn(q)'
  BY <1>1 DEF ChannelsKept, RelayInv, LetIn
<1>6. ASSUME NEW r \in Mails, r # q PROVE LetIn(r)'
  BY <1>1, <1>6 DEF ChannelsKept, RelayInv, LetIn
<1>7. MailTypes'
  BY <1>2, <1>4 DEF MailTypes, ChannelsKept
<1> QED BY <1>4, <1>5, <1>6, <1>7 DEF RelayInv, ChannelsKept

\* A request's end gives back what it has.
LEMMA MailReturns ==
    ASSUME MailInv, NEW q \in Mails, mail[q].pc \notin {"none", "done"}, Returns(q), ChannelsKept, tooLate' = {}, UNCHANGED others
    PROVE  MailInv'
<1>1. PICK d \in MailRec : d = mail[q]
  BY DEF MailInv, MailTypes
<1>2. PICK m : m = [d EXCEPT !.pc = "done", !.share = FALSE, !.slot = FALSE]
  OBVIOUS
<1>3. m \in MailRec /\ m.pc = "done" /\ m.ch = d.ch /\ m.slot = FALSE
  BY <1>2 DEF MailRec
<1>4. MailMoved(q, m) /\ nodeSlots' = IF d.slot THEN nodeSlots - 1 ELSE nodeSlots
  BY <1>1, <1>2 DEF Returns, Returned, MailMoved
<1>5. d.slot \in BOOLEAN
  BY DEF MailRec
<1> QED BY <1>1, <1>3, <1>4, <1>5, MailGoesOn

\* A step of a request that keeps its slot.
LEMMA MailMoves ==
    ASSUME MailInv, NEW q \in Mails, NEW pc \in {"body", "share", "send", "up"}, NEW share \in BOOLEAN,
           mail' = [mail EXCEPT ![q].pc = pc, ![q].share = share] \/ MailGoes(q, pc),
           mail[q].pc \notin {"none", "done"}, ChannelsKept, tooLate' = {}, UNCHANGED <<others, nodeSlots>>,
           mail[q].pc # "in" \/ ~channel[mail[q].ch].revoked, mail[q].slot <=> pc \in {"send", "up"}
    PROVE  MailInv'
<1>1. PICK d \in MailRec : d = mail[q]
  BY DEF MailInv, MailTypes
<1>2. PICK m : /\ m = [d EXCEPT !.pc = pc, !.share = share] \/ m = [d EXCEPT !.pc = pc]
               /\ MailMoved(q, m)
  BY <1>1 DEF MailGoes, MailMoved
<1>3. m \in MailRec /\ m.pc = pc /\ m.ch = d.ch /\ m.slot = d.slot /\ m.cancelled = d.cancelled
  BY <1>2 DEF MailRec
<1> QED BY <1>1, <1>2, <1>3, MailGoesOn

\* A step of a request that takes a slot or gives it back.
LEMMA MailSlots ==
    ASSUME MailInv, NEW q \in Mails, NEW pc \in {"slot", "reply"}, NEW has \in BOOLEAN,
           mail' = [mail EXCEPT ![q].pc = pc, ![q].slot = has],
           mail[q].pc \notin {"none", "in", "done"}, ChannelsKept, tooLate' = {}, UNCHANGED others,
           has <=> pc = "slot", mail[q].slot = ~has, nodeSlots' = IF has THEN nodeSlots + 1 ELSE nodeSlots - 1
    PROVE  MailInv'
<1>1. PICK d \in MailRec : d = mail[q]
  BY DEF MailInv, MailTypes
<1>2. PICK m : m = [d EXCEPT !.pc = pc, !.slot = has]
  OBVIOUS
<1>3. m \in MailRec /\ m.pc = pc /\ m.ch = d.ch /\ m.slot = has /\ m.cancelled = d.cancelled
  BY <1>2 DEF MailRec
<1>4. MailMoved(q, m)
  BY <1>1, <1>2 DEF MailMoved
<1> QED BY <1>1, <1>3, <1>4, MailGoesOn

\* A request is let in only by a channel that is neither closing nor revoked.
LEMMA MailComes ==
    ASSUME MailInv, NEW q \in Mails, NEW c \in Channels, NEW ispost \in BOOLEAN, HandleMail(q, c, ispost)
    PROVE  MailInv'
<1> USE DEF MailInv
<1>1. PICK m : m = [NoMail EXCEPT !.pc = "in", !.ch = c, !.post = ispost]
  OBVIOUS
<1>2. m \in MailRec /\ m.pc = "in" /\ m.ch = c /\ m.slot = FALSE
  <2>1. PICK d \in MailRec : d = NoMail /\ d.slot = FALSE
    BY NoMailRec DEF NoMail
  <2> QED BY <1>1, <2>1 DEF MailRec
<1>3. MailMoved(q, m)
  BY <1>1 DEF HandleMail, MailMoved
<1>4. mail'[q] = m /\ (\A r \in Mails : r # q => mail'[r] = mail[r]) /\ mail' \in [Mails -> MailRec]
  BY <1>2, <1>3 DEF MailMoved, MailTypes
<1>5. ChannelsKept /\ tooLate' = {} /\ UNCHANGED <<others, nodeSlots>>
  BY ChannelsStay DEF HandleMail, RelayInv
<1>6. LetIn(q)'
  <2>1. ~channel[c].revoked /\ channel[c].pc = "open"
    BY DEF HandleMail, ChannelInv
  <2> QED BY <1>2, <1>4, <1>5, <2>1, MailAssumption DEF ChannelsKept, LetIn, Free
<1>7. ASSUME NEW r \in Mails, r # q PROVE LetIn(r)'
  BY <1>4, <1>5, <1>7 DEF ChannelsKept, RelayInv, LetIn
<1>8. SlotInv'
  <2>1. ~mail[q].slot /\ ~m.slot
    BY <1>2 DEF HandleMail, NoMail
  <2>2. Slotted' = Slotted
    BY <1>4, <2>1 DEF Slotted
  <2> QED BY <1>5, <2>2 DEF SlotInv
<1>9. MailTypes'
  BY <1>4, <1>5 DEF MailTypes, ChannelsKept
<1> QED BY <1>5, <1>6, <1>7, <1>8, <1>9 DEF RelayInv, ChannelsKept

\* Each step of a request.
LEMMA RequestStep ==
    ASSUME MailInv, NEW q \in Mails,
           EnterRelay(q) \/ ReadBody(q) \/ TakeSlot(q) \/ TakeToken(q) \/ SendUp(q) \/ ReadAnswer(q) \/ ReplyMail(q)
    PROVE  MailInv'
<1>1. tooLate = {} /\ LetIn(q) /\ mail[q] \in MailRec /\ (mail[q].pc # "none" => mail[q].ch \in Channels)
  BY DEF MailInv, RelayInv, LetIn, MailTypes, MailRec
<1>2. UNCHANGED chanVars => ChannelsKept
  BY ChannelsStay DEF MailInv
<1>3. ASSUME mail[q].pc \notin {"none", "done"}, Returns(q), UNCHANGED <<chanVars, others, tooLate>> PROVE MailInv'
  BY <1>1, <1>2, <1>3, MailReturns
<1>4. CASE EnterRelay(q)
  <2>1. CASE Returns(q)
    BY <1>3, <1>4, <2>1 DEF EnterRelay
  <2>2. CASE MailGoes(q, "body") /\ UNCHANGED nodeSlots /\ ~channel[mail[q].ch].revoked
    <3>1. mail[q].pc = "in" /\ ~mail[q].slot /\ ChannelsKept /\ tooLate' = {} /\ UNCHANGED others
      BY <1>1, <1>2, <1>4 DEF EnterRelay, LetIn
    <3> QED BY <2>2, <3>1, MailMoves
  <2> QED BY <1>4, <2>1, <2>2 DEF EnterRelay
<1>5. CASE ReadBody(q)
  <2>1. CASE Returns(q)
    BY <1>3, <1>5, <2>1 DEF ReadBody
  <2>2. CASE mail' = [mail EXCEPT ![q].pc = "share", ![q].share = TRUE] /\ UNCHANGED nodeSlots
    <3>1. mail[q].pc = "body" /\ ~mail[q].slot /\ ChannelsKept /\ tooLate' = {} /\ UNCHANGED others
      BY <1>1, <1>2, <1>5 DEF ReadBody, LetIn
    <3> QED BY <2>2, <3>1, MailMoves
  <2> QED BY <1>5, <2>1, <2>2 DEF ReadBody
<1>6. CASE TakeSlot(q)
  <2>1. CASE Returns(q)
    BY <1>3, <1>6, <2>1 DEF TakeSlot
  <2>2. CASE mail' = [mail EXCEPT ![q].pc = "slot", ![q].slot = TRUE] /\ nodeSlots' = nodeSlots + 1
    <3>1. mail[q].pc = "share" /\ ~mail[q].slot /\ ChannelsKept /\ tooLate' = {} /\ UNCHANGED others
      BY <1>1, <1>2, <1>6 DEF TakeSlot, LetIn
    <3>2. mail[q].slot = FALSE
      BY <1>1, <3>1 DEF MailRec
    <3> QED BY <2>2, <3>1, <3>2, MailSlots
  <2> QED BY <1>6, <2>1, <2>2 DEF TakeSlot
<1>7. CASE TakeToken(q)
  <2>1. CASE Returns(q) /\ UNCHANGED channel
    BY <1>3, <1>7, <2>1 DEF TakeToken, chanVars
  <2>2. CASE /\ channel' = [channel EXCEPT ![mail[q].ch].tokens = IF mail[q].post THEN @ - 1 ELSE @]
             /\ MailGoes(q, "send") /\ UNCHANGED nodeSlots
    <3>1. mail[q].pc = "slot" /\ mail[q].slot /\ tooLate' = {} /\ UNCHANGED <<others, mailLock, socket, receipts>>
      BY <1>1, <1>7 DEF TakeToken, LetIn
    <3>2. PICK c \in Channels : c = mail[q].ch
      BY <1>1, <3>1
    <3>3. PICK t \in Int : channel' = [channel EXCEPT ![c].tokens = t]
      <4>1. channel[c].tokens \in Int /\ channel[c].tokens - 1 \in Int
        BY DEF MailInv, MailTypes, ChanRec
      <4> QED BY <2>2, <3>2, <4>1
    <3>4. ChannelsKept
      <4>1. channel' = [channel EXCEPT ![c].tokens = t]
        BY <3>3
      <4>2. UNCHANGED <<mailLock, socket, receipts>>
        BY <3>1
      <4>3. /\ channel' \in [Channels -> ChanRec] /\ ChannelInv'
            /\ \A d \in Channels : channel'[d].pc = channel[d].pc /\ channel'[d].revoked = channel[d].revoked
        BY <4>1, <4>2, TokensMove DEF MailInv
      <4> QED BY <4>2, <4>3 DEF ChannelsKept
    <3> QED BY <2>2, <3>1, <3>4, MailMoves
  <2> QED BY <1>7, <2>1, <2>2 DEF TakeToken
<1>8. CASE SendUp(q)
  <2>1. CASE Returns(q) /\ UNCHANGED tooLate
    BY <1>3, <1>8, <2>1 DEF SendUp
  <2>2. CASE /\ ~mail[q].cancelled /\ MailGoes(q, "up") /\ UNCHANGED nodeSlots
             /\ tooLate' = IF channel[mail[q].ch].revoked THEN tooLate \cup {q} ELSE tooLate
    <3>1. mail[q].pc = "send" /\ mail[q].slot /\ ChannelsKept /\ UNCHANGED others
      BY <1>1, <1>2, <1>8 DEF SendUp, LetIn
    <3>2. ~channel[mail[q].ch].revoked
      BY <1>1, <2>2, <3>1 DEF LetIn
    <3>3. tooLate' = {}
      BY <1>1, <2>2, <3>2
    <3> QED BY <2>2, <3>1, <3>3, MailMoves
  <2> QED BY <1>8, <2>1, <2>2 DEF SendUp
<1>9. CASE ReadAnswer(q)
  <2>1. CASE Returns(q)
    BY <1>3, <1>9, <2>1 DEF ReadAnswer
  <2>2. CASE mail' = [mail EXCEPT ![q].pc = "reply", ![q].slot = FALSE] /\ nodeSlots' = nodeSlots - 1
    <3>1. mail[q].pc = "up" /\ mail[q].slot /\ ChannelsKept /\ tooLate' = {} /\ UNCHANGED others
      BY <1>1, <1>2, <1>9 DEF ReadAnswer, LetIn
    <3>2. mail[q].slot = TRUE
      BY <1>1, <3>1 DEF MailRec
    <3> QED BY <2>2, <3>1, <3>2, MailSlots
  <2> QED BY <1>9, <2>1, <2>2 DEF ReadAnswer
<1>10. CASE ReplyMail(q)
  BY <1>3, <1>10 DEF ReplyMail
<1> QED BY <1>4, <1>5, <1>6, <1>7, <1>8, <1>9, <1>10

LEMMA MailStep == ASSUME MailInv, MailNext PROVE MailInv'
<1> USE DEF MailInv
<1>1. ASSUME \A q \in Mails : mail'[q].slot = mail[q].slot, UNCHANGED <<others, nodeSlots>> PROVE SlotInv'
  <2>1. Slotted' = Slotted
    BY <1>1 DEF Slotted
  <2> QED BY <1>1, <2>1 DEF SlotInv
<1>2. ASSUME NEW c \in Channels,
             \/ Listen(c) \/ OpenMail(c) \/ Ready(c) \/ OpenFails(c) \/ Revoke(c) \/ ServerClose(c) \/ ServeEnds(c)
             \/ Close(c) \/ CloseTimesOut(c)
      PROVE  MailInv'
  <2>1. UNCHANGED <<mail, others, nodeSlots>>
    BY <1>2 DEF Listen, OpenMail, Ready, OpenFails, Revoke, ServerClose, ServeEnds, Close, CloseTimesOut
  <2> QED BY <1>1, <1>2, <2>1, ChannelMoves
<1>3. ASSUME NEW c \in Channels, Refill(c) PROVE MailInv'
  BY <1>1, <1>3, ChannelRefills DEF Refill
<1>4. ASSUME NEW c \in Channels, CloseFinishes(c) PROVE MailInv'
  BY <1>1, <1>4, ChannelCloses DEF CloseFinishes
<1>5. ASSUME NEW c \in Channels, LifeEnds(c) \/ RelayRevoke(c) PROVE MailInv'
  <2>1. UNCHANGED <<others, nodeSlots>>
    BY <1>5 DEF LifeEnds, RelayRevoke
  <2> QED BY <1>1, <1>5, <2>1, ChannelCancels
<1>6. CASE PathReplaced \/ Inspected
  <2>1. UNCHANGED <<channel, mailLock, receipts, mail, others, nodeSlots, tooLate>> /\ socket' \in {Free, "foreign"}
    BY <1>6 DEF PathReplaced, Inspected
  <2>2. ChannelInv'
    BY <2>1, MailAssumption DEF ChannelInv, Free
  <2>3. RelayInv' /\ MailTypes'
    BY <2>1 DEF RelayInv, LetIn, MailTypes
  <2> QED BY <1>1, <2>1, <2>2, <2>3
<1>7. CASE OtherRelay
  <2>1. UNCHANGED <<channel, mailLock, socket, receipts, mail, tooLate>>
    BY <1>7 DEF OtherRelay, chanVars
  <2>2. IsFiniteSet(Slotted) /\ Cardinality(Slotted) \in Nat
    BY MailAssumption, FS_Subset, FS_CardinalityType DEF Slotted
  <2>3. Slotted' = Slotted
    BY <2>1 DEF Slotted
  <2>4. SlotInv' /\ others' \in Nat /\ nodeSlots' \in Nat
    BY <1>7, <2>2, <2>3 DEF OtherRelay, SlotInv, MailTypes
  <2>5. ChannelInv' /\ RelayInv' /\ MailTypes'
    BY <2>1, <2>4 DEF ChannelInv, RelayInv, LetIn, MailTypes
  <2> QED BY <2>4, <2>5
<1>8. \/ PathReplaced \/ Inspected \/ OtherRelay
      \/ \E c \in Channels :
            \/ Listen(c) \/ OpenMail(c) \/ Ready(c) \/ OpenFails(c) \/ Revoke(c) \/ ServerClose(c) \/ ServeEnds(c)
            \/ Close(c) \/ CloseTimesOut(c) \/ Refill(c) \/ CloseFinishes(c) \/ LifeEnds(c) \/ RelayRevoke(c)
      \/ \E q \in Mails :
            \/ \E c \in Channels, ispost \in BOOLEAN : HandleMail(q, c, ispost)
            \/ EnterRelay(q) \/ ReadBody(q) \/ TakeSlot(q) \/ TakeToken(q) \/ SendUp(q) \/ ReadAnswer(q) \/ ReplyMail(q)
  BY DEF MailNext
<1> QED BY <1>2, <1>3, <1>4, <1>5, <1>6, <1>7, <1>8, MailComes, RequestStep

LEMMA MailFollows == ASSUME MailInv PROVE MailEnds
<1>1. \A c \in Channels : "closed" \in receipts[c] => Active(c) = {} /\ socket # c
  BY DEF MailInv, ChannelInv, RelayInv, LetIn, Active
<1>2. Cardinality({c \in Channels : channel[c].serving}) <= 1
  <2>1. \A c, d \in Channels : channel[c].serving /\ channel[d].serving => c = d
    BY DEF MailInv, ChannelInv
  <2>2. CASE {c \in Channels : channel[c].serving} = {}
    BY <2>2, FS_EmptySet
  <2>3. CASE \E c \in Channels : channel[c].serving
    <3>1. PICK c \in Channels : channel[c].serving
      BY <2>3
    <3>2. {d \in Channels : channel[d].serving} = {c}
      BY <2>1, <3>1
    <3>3. Cardinality({c}) = 1
      BY FS_Singleton
    <3> QED BY <3>2, <3>3
  <2> QED BY <2>2, <2>3
<1>3. nodeSlots = others + Cardinality({q \in Mails : mail[q].slot})
  BY DEF MailInv, SlotInv, Slotted
<1> QED BY <1>1, <1>2, <1>3 DEF MailEnds, MailInv, RelayInv

\* Nothing is sent upstream for a revoked relay, a recorded closure is a drained one, one channel
\* serves at a time and no upstream slot is lost or given back twice: for any number of channels
\* and requests and any of the relay's bounds.
THEOREM MailIsEnded == Spec => []MailEnds
<1>1. Init => MailInv
  <2> SUFFICES ASSUME Init PROVE MailInv
    OBVIOUS
  <2>1. MailTypes
    BY NoMailRec DEF Init, MailInit, MailTypes
  <2>2. ChannelInv /\ RelayInv
    BY MailAssumption DEF Init, MailInit, ChannelInv, RelayInv, LetIn, NoMail, Unopened, Free
  <2>3. SlotInv
    <3>1. Slotted = {}
      BY DEF Init, MailInit, NoMail, Slotted
    <3> QED BY <3>1, FS_EmptySet DEF Init, MailInit, SlotInv
  <2> QED BY <2>1, <2>2, <2>3 DEF MailInv
<1>2. MailInv /\ [Next]_vars => MailInv'
  <2> SUFFICES ASSUME MailInv, [Next]_vars PROVE MailInv'
    OBVIOUS
  <2>1. CASE UNCHANGED mailVars
    BY <2>1 DEF mailVars, MailInv, MailTypes, ChannelInv, RelayInv, LetIn, SlotInv, Slotted
  <2> QED BY <2>1, MailStep DEF Next, vars
<1>3. MailInv => MailEnds
  BY MailFollows
<1> QED BY <1>1, <1>2, <1>3, PTL DEF Spec

(********************************** the Codex seat **********************************)
SeatRecords == [st : {"none", "starting", "bound", "torn"}, nonce : Nat, thread : Nat]
StartRec == [pc : {"idle", "asked", "read", "launch", "wait"}, rec : SeatRecords, run : Nat]
ResetRec == [pc : {"idle", "original", "intent", "remove", "receipt"}, want : SeatRecords]
ArchiveRec == [original : SeatRecords, intent : SeatRecords, receipt : SeatRecords]
Conversation == [id : Nat, run : Nat, root : BOOLEAN, whole : BOOLEAN]
SeatTypes ==
    /\ seatRec \in SeatRecords /\ start \in [Consoles -> StartRec] /\ reset \in [ResetOps -> ResetRec]
    /\ archive \in [ResetOps -> ArchiveRec] /\ removed \in SUBSET SeatRecords
    /\ rollouts \in SUBSET Conversation /\ IsFiniteSet(rollouts) /\ nonces \in Nat /\ launches \in Nat
    /\ scope \in SUBSET Nat

\* The lock is a start's or a reset's; before a launch and in a reset nothing runs, and in a
\* reset there is no conversation; one launch has processes, and only of a recorded start.
Holds1(k) == start[k].pc \in {"read", "launch", "wait"}
LockInv ==
    /\ \A k \in Consoles : Holds1(k) => seatLock = k
    /\ \A k \in Consoles : start[k].pc \in {"read", "launch"} => scope = {}
    /\ \A o \in ResetOps : reset[o].pc # "idle" => seatLock = o /\ scope = {} /\ rollouts = {}
    /\ mains \subseteq scope /\ \A a, b \in scope : a = b
    /\ scope # {} \/ rollouts # {} => seatRec # NoRec

\* What a start that has the lock knows: a fresh one is new to every reset.
StartTrue(k) ==
    /\ start[k].rec.st \in {"starting", "bound"} /\ start[k].rec.nonce <= nonces
    /\ start[k].pc = "read" => seatRec = NoRec /\ rollouts = {} /\ start[k].rec.st = "starting"
    /\ start[k].pc \in {"launch", "wait"} => seatRec = start[k].rec
    /\ start[k].rec.st = "starting" =>
          start[k].rec \notin removed /\ \A o \in ResetOps : archive[o].intent # start[k].rec

\* What a reset under way knows of its record, and has archived of it.
ResetTrue(o) ==
    /\ reset[o].pc \in {"original", "intent", "remove"} => seatRec = reset[o].want /\ seatRec.st = "starting"
    /\ reset[o].pc \in {"intent", "remove"} => archive[o].original = reset[o].want
    /\ reset[o].pc = "receipt" => reset[o].want \in removed

\* What an operation's files say.
ArchiveTrue(o) ==
    /\ archive[o].intent.nonce <= nonces
    /\ archive[o].intent \notin {NoRec, Torn} => archive[o].intent \in removed \cup {seatRec}
    /\ archive[o].receipt \notin {NoRec, Torn} => archive[o].receipt \in removed
RemovedTrue(r) == r.st = "starting" /\ r.nonce <= nonces /\ \E o \in ResetOps : archive[o].original = r
RecordInv ==
    /\ seatRec.st \in {"none", "starting", "bound"} /\ (seatRec.st = "none" => seatRec = NoRec) /\ seatRec.nonce <= nonces
    /\ seatRec \notin removed
    /\ \A k \in Consoles : Holds1(k) => StartTrue(k)
    /\ \A o \in ResetOps : ResetTrue(o) /\ ArchiveTrue(o)
    /\ \A r \in removed : RemovedTrue(r)
SeatInv == SeatTypes /\ LockInv /\ RecordInv

LEMMA SeatRecs ==
    /\ NoRec \in SeatRecords /\ Torn \in SeatRecords /\ Idle \in StartRec /\ NoReset \in ResetRec
    /\ NoRec.st = "none" /\ NoRec.nonce = 0 /\ Torn.st = "torn" /\ Torn.nonce = 0 /\ Idle.pc = "idle" /\ NoReset.pc = "idle"
  BY DEF NoRec, Torn, Idle, NoReset, SeatRecords, StartRec, ResetRec

LEMMA SeatFollows == ASSUME SeatInv PROVE SeatHeld
<1>1. OneActor
  <2>1. CASE scope = {}
    BY <2>1, FS_EmptySet DEF OneActor
  <2>2. CASE scope # {}
    <3>1. PICK a : scope = {a}
      BY <2>2 DEF SeatInv, LockInv
    <3>2. Cardinality({a}) = 1
      BY FS_Singleton
    <3> QED BY <3>1, <3>2 DEF OneActor
  <2> QED BY <2>1, <2>2
<1>2. \A n \in 1..nonces : (\E r \in removed : r.nonce = n) => \E o \in ResetOps : archive[o].original.nonce = n
  BY DEF SeatInv, RecordInv, RemovedTrue
<1>3. \A t \in rollouts : seatRec.st # "none"
  BY DEF SeatInv, LockInv, RecordInv
<1>4. \A o \in ResetOps : archive[o].receipt \notin {NoRec, Torn} =>
          archive[o].receipt \in removed /\ archive[o].receipt # seatRec
  BY DEF SeatInv, RecordInv, ArchiveTrue
<1> QED BY <1>1, <1>2, <1>3, <1>4 DEF SeatHeld, EvidenceHeld

\* What becomes of a start, of a reset and of its files.
StartMoved(k, s) == start' = [start EXCEPT ![k] = s]
ResetMoved(o, x) == reset' = [reset EXCEPT ![o] = x]

\* A step of a start, given what is true of it after the step; nothing of a reset changes.
LEMMA StartMoves ==
    ASSUME SeatInv, NEW k \in Consoles, NEW s \in StartRec, StartMoved(k, s), UNCHANGED <<rollouts, reset, archive, removed>>,
           \A l \in Consoles : l # k => ~Holds1(l),
           \A o \in ResetOps : reset[o].pc = "idle",
           s.pc \in {"read", "launch", "wait"} => seatLock' = k /\ StartTrue(k)',
           s.pc \in {"read", "launch"} => scope' = {},
           mains' \subseteq scope', \A a, b \in scope' : a = b, scope' # {} \/ rollouts # {} => seatRec' # NoRec,
           seatRec' \in SeatRecords, seatRec'.st \in {"none", "starting", "bound"}, seatRec'.st = "none" => seatRec' = NoRec,
           nonces' \in Nat, nonces <= nonces', launches' \in Nat, seatRec'.nonce <= nonces', seatRec' \notin removed,
           scope' \in SUBSET Nat,
           seatRec' = seatRec \/ \A o \in ResetOps : archive[o].intent \in {NoRec, Torn} \cup removed
    PROVE  SeatInv'
<1> USE DEF SeatInv
<1>1. start'[k] = s /\ (\A l \in Consoles : l # k => start'[l] = start[l]) /\ start' \in [Consoles -> StartRec]
  BY DEF SeatTypes, StartMoved
<1>2. SeatTypes'
  BY <1>1 DEF SeatTypes
<1>3. \A l \in Consoles : l # k => ~Holds1(l)'
  BY <1>1 DEF Holds1
<1>4. Holds1(k)' => s.pc \in {"read", "launch", "wait"}
  BY <1>1 DEF Holds1
<1>5. LockInv'
  <2>1. \A l \in Consoles : Holds1(l)' => seatLock' = l
    BY <1>3, <1>4
  <2>2. \A l \in Consoles : start'[l].pc \in {"read", "launch"} => scope' = {}
    BY <1>1, <1>3 DEF Holds1
  <2> QED BY <2>1, <2>2 DEF LockInv
<1>6. \A l \in Consoles : Holds1(l)' => StartTrue(l)'
  BY <1>3, <1>4
<1>7. \A o \in ResetOps : ResetTrue(o)'
  BY DEF ResetTrue
<1>8. \A o \in ResetOps : ArchiveTrue(o)'
  <2> TAKE o \in ResetOps
  <2>1. ArchiveTrue(o) /\ archive[o].intent \in SeatRecords
    BY DEF RecordInv, SeatTypes, ArchiveRec
  <2>2. archive[o].intent.nonce <= nonces'
    BY <2>1 DEF ArchiveTrue, SeatTypes, SeatRecords
  <2> QED BY <2>1, <2>2 DEF ArchiveTrue
<1>9. \A r \in removed' : RemovedTrue(r)'
  <2> TAKE r \in removed'
  <2>1. r \in SeatRecords /\ RemovedTrue(r)
    BY DEF SeatTypes, RecordInv
  <2>2. r.nonce <= nonces'
    BY <2>1 DEF RemovedTrue, SeatTypes, SeatRecords
  <2> QED BY <2>1, <2>2 DEF RemovedTrue
<1> QED BY <1>2, <1>5, <1>6, <1>7, <1>8, <1>9 DEF RecordInv

\* A console that does not have the lock, before and after its step.
LEMMA StartWaits ==
    ASSUME SeatInv, NEW k \in Consoles, NEW s \in StartRec, StartMoved(k, s), s.pc \in {"idle", "asked"},
           UNCHANGED <<seatRec, rollouts, mains, scope, reset, archive, removed, nonces, launches, seatLock>>
    PROVE  SeatInv'
<1> USE DEF SeatInv
<1>1. start'[k] = s /\ (\A l \in Consoles : l # k => start'[l] = start[l]) /\ start' \in [Consoles -> StartRec]
  BY DEF SeatTypes, StartMoved
<1>2. SeatTypes'
  BY <1>1 DEF SeatTypes
<1>3. \A l \in Consoles : Holds1(l)' => Holds1(l) /\ start'[l] = start[l]
  BY <1>1 DEF Holds1
<1>4. LockInv'
  <2>1. \A l \in Consoles : Holds1(l)' => seatLock' = l
    BY <1>3 DEF LockInv
  <2>2. \A l \in Consoles : start'[l].pc \in {"read", "launch"} => scope' = {}
    BY <1>1 DEF LockInv
  <2> QED BY <2>1, <2>2 DEF LockInv
<1>5. \A l \in Consoles : Holds1(l)' => StartTrue(l)'
  BY <1>3 DEF RecordInv, StartTrue
<1>6. \A o \in ResetOps : ResetTrue(o)' /\ ArchiveTrue(o)'
  BY DEF RecordInv, ResetTrue, ArchiveTrue
<1>7. \A r \in removed' : RemovedTrue(r)'
  BY DEF RecordInv, RemovedTrue
<1> QED BY <1>2, <1>4, <1>5, <1>6, <1>7 DEF RecordInv

\* Whoever has the lock is alone.
LEMMA LockAlone ==
    ASSUME SeatInv
    PROVE  /\ \A k \in Consoles : seatLock = k \/ seatLock = Unlocked =>
                 (\A l \in Consoles : l # k => ~Holds1(l)) /\ \A o \in ResetOps : reset[o].pc = "idle"
           /\ \A o \in ResetOps : seatLock = o \/ seatLock = Unlocked =>
                 (\A l \in Consoles : ~Holds1(l)) /\ \A x \in ResetOps : x # o => reset[x].pc = "idle"
  BY SeatAssumption DEF SeatInv, LockInv, Unlocked

\* A start that gives the lock back leaves the record as it is.
LEMMA StartGivesUp ==
    ASSUME SeatInv, NEW k \in Consoles, Holds1(k), start' = [start EXCEPT ![k] = Idle], seatLock' = Unlocked,
           UNCHANGED <<seatRec, rollouts, mains, scope, reset, archive, removed, nonces, launches>>
    PROVE  SeatInv'
<1>1. (\A l \in Consoles : l # k => ~Holds1(l)) /\ \A o \in ResetOps : reset[o].pc = "idle"
  BY LockAlone DEF SeatInv, LockInv
<1>2. StartMoved(k, Idle) /\ Idle \in StartRec /\ Idle.pc = "idle"
  BY SeatRecs DEF StartMoved
<1>3. /\ mains' \subseteq scope' /\ (\A a, b \in scope' : a = b) /\ (scope' # {} \/ rollouts # {} => seatRec' # NoRec)
      /\ seatRec' \in SeatRecords /\ seatRec'.st \in {"none", "starting", "bound"} /\ (seatRec'.st = "none" => seatRec' = NoRec)
      /\ nonces' \in Nat /\ nonces <= nonces' /\ launches' \in Nat /\ seatRec'.nonce <= nonces' /\ seatRec' \notin removed /\ scope' \in SUBSET Nat
  BY DEF SeatInv, SeatTypes, LockInv, RecordInv
<1> QED BY <1>1, <1>2, <1>3, StartMoves

LEMMA StepAsk == ASSUME SeatInv, NEW k \in Consoles, Ask(k) PROVE SeatInv'
<1>1. PICK d \in StartRec : d = start[k]
  BY DEF SeatInv, SeatTypes
<1>2. PICK s : s = [d EXCEPT !.pc = "asked"]
  OBVIOUS
<1>3. s \in StartRec /\ s.pc = "asked"
  BY <1>2 DEF StartRec
<1>4. StartMoved(k, s) /\ UNCHANGED <<seatRec, rollouts, mains, scope, reset, archive, removed, nonces, launches, seatLock>>
  BY <1>1, <1>2 DEF Ask, StartMoved, codingVars, resetVars
<1> QED BY <1>3, <1>4, StartWaits

LEMMA StepAdmit == ASSUME SeatInv, NEW k \in Consoles, Admit(k) PROVE SeatInv'
<1>1. CASE start' = [start EXCEPT ![k] = Idle] /\ UNCHANGED <<seatLock, nonces>>
  <2>1. StartMoved(k, Idle) /\ Idle \in StartRec /\ Idle.pc = "idle"
    BY <1>1, SeatRecs DEF StartMoved
  <2>2. UNCHANGED <<seatRec, rollouts, mains, scope, reset, archive, removed, nonces, launches, seatLock>>
    BY <1>1 DEF Admit, codingVars, resetVars
  <2> QED BY <2>1, <2>2, StartWaits
<1>2. CASE /\ seatLock = Unlocked /\ scope = {} /\ seatRec.st # "starting" /\ (seatRec = NoRec => rollouts = {})
           /\ seatLock' = k /\ nonces' = (IF seatRec = NoRec THEN nonces + 1 ELSE nonces)
           /\ start' = [start EXCEPT ![k] = [pc |-> IF seatRec = NoRec THEN "read" ELSE "launch", run |-> 0,
                   rec |-> IF seatRec = NoRec THEN [st |-> "starting", nonce |-> nonces', thread |-> 0] ELSE seatRec]]
  <2>1. (\A l \in Consoles : l # k => ~Holds1(l)) /\ \A o \in ResetOps : reset[o].pc = "idle"
    BY <1>2, LockAlone
  <2>2. UNCHANGED <<seatRec, rollouts, mains, scope, reset, archive, removed, launches>>
    BY DEF Admit, codingVars, resetVars
  <2>3. /\ mains' \subseteq scope' /\ (\A a, b \in scope' : a = b) /\ (scope' # {} \/ rollouts # {} => seatRec' # NoRec)
        /\ seatRec' \in SeatRecords /\ seatRec'.st \in {"none", "starting", "bound"} /\ (seatRec'.st = "none" => seatRec' = NoRec)
        /\ launches' \in Nat /\ seatRec' \notin removed /\ seatRec.nonce \in Nat /\ nonces \in Nat /\ scope' \in SUBSET Nat
    BY <2>2 DEF SeatInv, SeatTypes, LockInv, RecordInv, SeatRecords
  <2>4. nonces' \in Nat /\ nonces <= nonces' /\ seatRec'.nonce <= nonces'
    BY <1>2, <2>2, <2>3 DEF SeatInv, RecordInv
  <2>5. CASE seatRec = NoRec
    <3>1. PICK r \in SeatRecords : r = [st |-> "starting", nonce |-> nonces', thread |-> 0]
      BY <2>4 DEF SeatRecords
    <3>2. PICK s \in StartRec : s = [pc |-> "read", run |-> 0, rec |-> r]
      BY DEF StartRec
    <3>3. StartMoved(k, s) /\ start'[k] = s
      BY <1>2, <2>5, <3>1, <3>2 DEF StartMoved, SeatInv, SeatTypes
    <3>4. r \notin removed
      BY <1>2, <2>3, <2>5, <3>1 DEF SeatInv, RecordInv, RemovedTrue
    <3>5. \A o \in ResetOps : archive[o].intent # r
      BY <1>2, <2>3, <2>5, <3>1 DEF SeatInv, RecordInv, ArchiveTrue
    <3>6. StartTrue(k)'
      BY <1>2, <2>2, <2>4, <2>5, <3>1, <3>2, <3>3, <3>4, <3>5 DEF StartTrue
    <3> QED BY <1>2, <2>1, <2>2, <2>3, <2>4, <3>2, <3>3, <3>6, StartMoves
  <2>6. CASE seatRec # NoRec
    <3>1. PICK s \in StartRec : s = [pc |-> "launch", run |-> 0, rec |-> seatRec]
      BY <2>3 DEF StartRec, SeatInv, SeatTypes
    <3>2. StartMoved(k, s) /\ start'[k] = s
      BY <1>2, <2>6, <3>1 DEF StartMoved, SeatInv, SeatTypes
    <3>3. StartTrue(k)'
      BY <1>2, <2>2, <2>3, <2>4, <2>6, <3>1, <3>2 DEF StartTrue
    <3> QED BY <1>2, <2>1, <2>2, <2>3, <2>4, <3>1, <3>2, <3>3, StartMoves
  <2> QED BY <2>5, <2>6
<1> QED BY <1>1, <1>2 DEF Admit, NoCodingProcesses

LEMMA StepWriteStarting == ASSUME SeatInv, NEW k \in Consoles, WriteStarting(k) PROVE SeatInv'
<1>1. start[k].pc = "read" /\ Holds1(k) /\ UNCHANGED <<rollouts, mains, scope, reset, archive, removed, nonces, launches>>
  BY DEF WriteStarting, Holds1, codingVars, resetVars
<1>2. CASE start' = [start EXCEPT ![k] = Idle] /\ seatLock' = Unlocked /\ UNCHANGED seatRec
  BY <1>1, <1>2, StartGivesUp
<1>3. CASE seatRec' = start[k].rec /\ start' = [start EXCEPT ![k].pc = "launch"] /\ UNCHANGED seatLock
  <2>1. PICK d \in StartRec : d = start[k]
    BY DEF SeatInv, SeatTypes
  <2>2. PICK s : s = [d EXCEPT !.pc = "launch"]
    OBVIOUS
  <2>3. s \in StartRec /\ s.pc = "launch" /\ s.rec = d.rec /\ d.rec \in SeatRecords
    BY <2>2 DEF StartRec
  <2>4. StartMoved(k, s) /\ start'[k] = s
    BY <1>3, <2>1, <2>2 DEF StartMoved, SeatInv, SeatTypes
  <2>5. seatLock = k /\ scope = {} /\ mains = {}
    BY <1>1 DEF SeatInv, LockInv
  <2>6. (\A l \in Consoles : l # k => ~Holds1(l)) /\ \A o \in ResetOps : reset[o].pc = "idle"
    BY <2>5, LockAlone
  <2>7. /\ d.rec.st = "starting" /\ d.rec.nonce <= nonces /\ seatRec = NoRec /\ rollouts = {}
        /\ d.rec \notin removed /\ \A o \in ResetOps : archive[o].intent # d.rec
    BY <1>1, <2>1 DEF SeatInv, RecordInv, StartTrue
  <2>8. StartTrue(k)'
    BY <1>1, <1>3, <2>1, <2>3, <2>4, <2>7 DEF StartTrue
  <2>9. nonces \in Nat /\ launches \in Nat
    BY DEF SeatInv, SeatTypes
  <2>10. \A o \in ResetOps : archive[o].intent \in {NoRec, Torn} \cup removed
    BY <2>7 DEF SeatInv, RecordInv, ArchiveTrue
  <2> QED BY <1>1, <1>3, <2>1, <2>3, <2>4, <2>5, <2>6, <2>7, <2>8, <2>9, <2>10, StartMoves
<1> QED BY <1>2, <1>3 DEF WriteStarting

LEMMA StepLaunch == ASSUME SeatInv, NEW k \in Consoles, Launch(k) PROVE SeatInv'
<1>1. start[k].pc = "launch" /\ Holds1(k) /\ UNCHANGED <<seatRec, rollouts, reset, archive, removed, nonces>>
  BY DEF Launch, Holds1, resetVars
<1>2. CASE start' = [start EXCEPT ![k] = Idle] /\ seatLock' = Unlocked /\ UNCHANGED <<launches, mains, scope>>
  BY <1>1, <1>2, StartGivesUp
<1>3. CASE /\ launches' = launches + 1 /\ mains' = mains \cup {launches'} /\ scope' = scope \cup {launches'}
           /\ start' = [start EXCEPT ![k].pc = "wait", ![k].run = launches'] /\ UNCHANGED seatLock
  <2>1. PICK d \in StartRec : d = start[k]
    BY DEF SeatInv, SeatTypes
  <2>2. nonces \in Nat /\ launches' \in Nat /\ seatRec \in SeatRecords
    BY <1>3 DEF SeatInv, SeatTypes
  <2>3. PICK s : s = [d EXCEPT !.pc = "wait", !.run = launches']
    OBVIOUS
  <2>4. s \in StartRec /\ s.pc = "wait" /\ s.rec = d.rec
    BY <2>2, <2>3 DEF StartRec
  <2>5. StartMoved(k, s) /\ start'[k] = s
    BY <1>3, <2>1, <2>3 DEF StartMoved, SeatInv, SeatTypes
  <2>6. seatLock = k /\ scope = {} /\ mains = {}
    BY <1>1 DEF SeatInv, LockInv
  <2>7. (\A l \in Consoles : l # k => ~Holds1(l)) /\ \A o \in ResetOps : reset[o].pc = "idle"
    BY <2>6, LockAlone
  <2>8. StartTrue(k) /\ seatRec = d.rec /\ d.rec.st \in {"starting", "bound"} /\ seatRec # NoRec /\ seatRec.nonce <= nonces /\ seatRec \notin removed
    BY <1>1, <2>1, SeatRecs DEF SeatInv, RecordInv, StartTrue
  <2>9. StartTrue(k)'
    BY <1>1, <2>1, <2>4, <2>5, <2>8 DEF StartTrue
  <2>10. mains' = {launches'} /\ scope' = {launches'}
    BY <1>3, <2>6
  <2> QED BY <1>1, <1>3, <2>2, <2>4, <2>5, <2>6, <2>7, <2>8, <2>9, <2>10, StartMoves
<1> QED BY <1>2, <1>3 DEF Launch

LEMMA BoundThread == ASSUME SeatTypes, Bindable PROVE (CHOOSE t \in Candidates : TRUE) \in Nat
<1>1. Candidates # {}
  BY FS_EmptySet DEF Bindable
<1>2. Candidates \subseteq Nat
  BY DEF Candidates, SeatTypes, Conversation
<1> QED BY <1>1, <1>2

BoundRec(k) == [start[k].rec EXCEPT !.st = "bound", !.thread = CHOOSE t \in Candidates : TRUE]

\* The start's record, bound: a record of no reset.
LEMMA Binds ==
    ASSUME SeatInv, NEW k \in Consoles, start[k].pc = "wait", start[k].rec.st = "starting", Bindable,
           NEW b, b = BoundRec(k)
    PROVE  /\ b \in SeatRecords /\ b.st = "bound" /\ b.nonce <= nonces /\ b \notin removed /\ b # NoRec
           /\ \A o \in ResetOps : archive[o].intent \in {NoRec, Torn} \cup removed
<1>1. PICK r \in SeatRecords : r = start[k].rec
  BY DEF SeatInv, SeatTypes, StartRec
<1>2. PICK t \in Nat : t = CHOOSE u \in Candidates : TRUE
  BY BoundThread DEF SeatInv
<1>3. b = [r EXCEPT !.st = "bound", !.thread = t]
  BY <1>1, <1>2 DEF BoundRec
<1>4. b \in SeatRecords /\ b.st = "bound" /\ b.nonce = r.nonce
  BY <1>3 DEF SeatRecords
<1>5. Holds1(k) /\ StartTrue(k)
  BY DEF Holds1, SeatInv, RecordInv
<1>6. r.nonce <= nonces /\ seatRec = r /\ \A o \in ResetOps : archive[o].intent # r
  BY <1>1, <1>5 DEF StartTrue
<1>7. \A o \in ResetOps : archive[o].intent \in {NoRec, Torn} \cup removed
  BY <1>6 DEF SeatInv, RecordInv, ArchiveTrue
<1>8. b \notin removed /\ b # NoRec
  BY <1>4, SeatRecs DEF SeatInv, RecordInv, RemovedTrue
<1> QED BY <1>4, <1>6, <1>7, <1>8

LEMMA StepBind == ASSUME SeatInv, NEW k \in Consoles, Bind(k) \/ Waited(k) PROVE SeatInv'
<1>1. start[k].pc = "wait" /\ Holds1(k) /\ UNCHANGED <<rollouts, mains, scope, reset, archive, removed, nonces, launches>>
  BY DEF Bind, Waited, Holds1, codingVars, resetVars
<1>2. /\ seatLock = k /\ nonces \in Nat /\ launches \in Nat /\ scope \in SUBSET Nat
      /\ mains \subseteq scope /\ \A x, y \in scope : x = y
  BY <1>1 DEF SeatInv, SeatTypes, LockInv
<1>3. (\A l \in Consoles : l # k => ~Holds1(l)) /\ \A o \in ResetOps : reset[o].pc = "idle"
  BY <1>2, LockAlone
<1>4. PICK b : b = BoundRec(k)
  OBVIOUS
<1>5. start[k].rec.st = "starting" /\ Bindable =>
        /\ b \in SeatRecords /\ b.st = "bound" /\ b.nonce <= nonces /\ b \notin removed /\ b # NoRec
        /\ \A o \in ResetOps : archive[o].intent \in {NoRec, Torn} \cup removed
  <2> SUFFICES ASSUME start[k].rec.st = "starting", Bindable
               PROVE  /\ b \in SeatRecords /\ b.st = "bound" /\ b.nonce <= nonces /\ b \notin removed /\ b # NoRec
                      /\ \A o \in ResetOps : archive[o].intent \in {NoRec, Torn} \cup removed
    OBVIOUS
  <2> QED BY <1>1, <1>4, Binds
<1>6. CASE Bind(k)
  <2>1. start[k].rec.st = "starting" /\ Bindable /\ seatRec' = b /\ start' = [start EXCEPT ![k].rec = b] /\ UNCHANGED seatLock
    BY <1>4, <1>6 DEF Bind, BoundRec
  <2>2. PICK d \in StartRec : d = start[k]
    BY DEF SeatInv, SeatTypes
  <2>3. PICK s : s = [d EXCEPT !.rec = b]
    OBVIOUS
  <2>4. s \in StartRec /\ s.pc = d.pc /\ s.rec = b
    BY <1>5, <2>1, <2>3 DEF StartRec
  <2>5. StartMoved(k, s) /\ start'[k] = s
    BY <2>1, <2>2, <2>3 DEF StartMoved, SeatInv, SeatTypes
  <2>6. StartTrue(k)'
    BY <1>1, <1>5, <2>1, <2>2, <2>4, <2>5 DEF StartTrue
  <2> QED BY <1>1, <1>2, <1>3, <1>5, <2>1, <2>2, <2>4, <2>5, <2>6, StartMoves
<1>7. CASE Waited(k) /\ start[k].rec.st = "starting" /\ Bindable
  <2>1. seatRec' = b /\ start' = [start EXCEPT ![k] = Idle] /\ seatLock' = Unlocked
    BY <1>4, <1>7 DEF Waited, BoundRec
  <2>2. StartMoved(k, Idle) /\ Idle \in StartRec /\ Idle.pc = "idle"
    BY <2>1, SeatRecs DEF StartMoved
  <2> QED BY <1>1, <1>2, <1>3, <1>5, <1>7, <2>1, <2>2, StartMoves
<1>8. CASE Waited(k) /\ ~(start[k].rec.st = "starting" /\ Bindable)
  <2>1. start' = [start EXCEPT ![k] = Idle] /\ seatLock' = Unlocked /\ UNCHANGED seatRec
    BY <1>8 DEF Waited
  <2> QED BY <1>1, <2>1, StartGivesUp
<1> QED BY <1>6, <1>7, <1>8

\* What the actor does, or its end, or the guest's.
LEMMA ActorMoves ==
    ASSUME SeatInv, UNCHANGED <<seatRec, seatLock, start, reset, archive, removed, nonces, launches>>,
           scope' \subseteq scope, mains' \subseteq scope', rollouts' \in SUBSET Conversation, IsFiniteSet(rollouts'),
           rollouts' = rollouts \/ scope # {}
    PROVE  SeatInv'
<1>1. SeatTypes'
  BY DEF SeatInv, SeatTypes
<1>2. LockInv'
  BY DEF SeatInv, LockInv, Holds1
<1>3. \A k \in Consoles : Holds1(k)' => StartTrue(k)'
  BY DEF SeatInv, LockInv, RecordInv, Holds1, StartTrue
<1>4. \A o \in ResetOps : ResetTrue(o)' /\ ArchiveTrue(o)'
  BY DEF SeatInv, RecordInv, ResetTrue, ArchiveTrue
<1>5. \A r \in removed' : RemovedTrue(r)'
  BY DEF SeatInv, RecordInv, RemovedTrue
<1> QED BY <1>1, <1>2, <1>3, <1>4, <1>5 DEF SeatInv, RecordInv

LEMMA StepActor ==
    ASSUME SeatInv,
           \/ Reboot \/ \E t \in rollouts : FirstLine(t)
           \/ \E r \in scope : ActorEnds(r) \/ OrphansEnd(r) \/ \E root \in BOOLEAN : NewThread(r, root)
    PROVE  SeatInv'
<1>1. UNCHANGED <<seatRec, seatLock, start, reset, archive, removed, nonces, launches>>
  BY DEF Reboot, FirstLine, ActorEnds, OrphansEnd, NewThread, resetVars
<1>2. mains \subseteq scope /\ rollouts \in SUBSET Conversation /\ IsFiniteSet(rollouts)
  BY DEF SeatInv, SeatTypes, LockInv
<1>3. CASE Reboot \/ \E r \in scope : ActorEnds(r) \/ OrphansEnd(r)
  <2>1. scope' \subseteq scope /\ mains' \subseteq scope' /\ rollouts' = rollouts
    <3>1. CASE Reboot
      BY <3>1 DEF Reboot
    <3>2. ASSUME NEW r \in scope, OrphansEnd(r) PROVE scope' \subseteq scope /\ mains' \subseteq scope' /\ rollouts' = rollouts
      BY <1>2, <3>2 DEF OrphansEnd
    <3>3. ASSUME NEW r \in scope, ActorEnds(r) PROVE scope' \subseteq scope /\ mains' \subseteq scope' /\ rollouts' = rollouts
      BY <1>2, <3>3 DEF ActorEnds
    <3> QED BY <1>3, <3>1, <3>2, <3>3
  <2> QED BY <1>1, <1>2, <2>1, ActorMoves
<1>4. ASSUME NEW r \in scope, NEW root \in BOOLEAN, NewThread(r, root) PROVE SeatInv'
  <2>1. Cardinality(rollouts) \in Nat
    BY <1>2, FS_CardinalityType
  <2>2. mains' \subseteq scope' /\ scope' = scope /\ mains' = mains /\ r \in mains
    BY <1>2, <1>4 DEF NewThread
  <2>3. PICK n \in Nat : rollouts' = rollouts \cup {[id |-> n, run |-> r, root |-> root, whole |-> FALSE]}
    BY <1>4, <2>1 DEF NewThread
  <2>4. PICK t : t = [id |-> n, run |-> r, root |-> root, whole |-> FALSE]
    OBVIOUS
  <2>5. t \in Conversation
    BY <2>4 DEF Conversation, SeatInv, SeatTypes
  <2>6. rollouts' = rollouts \cup {t}
    BY <2>3, <2>4
  <2>7. IsFiniteSet(rollouts')
    BY <1>2, <2>6, FS_AddElement
  <2> QED BY <1>1, <1>2, <2>2, <2>5, <2>6, <2>7, ActorMoves
<1>5. ASSUME NEW t \in rollouts, FirstLine(t) PROVE SeatInv'
  <2>1. mains' \subseteq scope' /\ scope' = scope /\ scope # {}
    BY <1>2, <1>5 DEF FirstLine
  <2>2. PICK u : u = [t EXCEPT !.whole = TRUE]
    OBVIOUS
  <2>3. u \in Conversation
    BY <1>2, <2>2 DEF Conversation
  <2>4. rollouts' = (rollouts \ {t}) \cup {u}
    BY <1>5, <2>2 DEF FirstLine
  <2>5. IsFiniteSet(rollouts \ {t})
    BY <1>2, FS_RemoveElement
  <2>6. IsFiniteSet(rollouts')
    BY <2>4, <2>5, FS_AddElement
  <2> QED BY <1>1, <1>2, <2>1, <2>3, <2>4, <2>6, ActorMoves
<1> QED BY <1>3, <1>4, <1>5

\* The broker's end: whatever of a file was being written, none that was there changes.
LEMMA LeftFiles ==
    ASSUME SeatTypes, NEW o \in ResetOps, NEW a \in Left(o)
    PROVE  /\ a \in ArchiveRec
           /\ a.original = archive[o].original \/ (archive[o].original = NoRec /\ a.original = Torn)
           /\ a.intent = archive[o].intent \/ (archive[o].intent = NoRec /\ a.intent = Torn)
           /\ a.receipt = archive[o].receipt \/ (archive[o].receipt = NoRec /\ a.receipt = Torn)
<1>1. PICK b \in ArchiveRec : b = archive[o]
  BY DEF SeatTypes
<1>2. \/ a = b
      \/ a = [b EXCEPT !.original = IF b.original = NoRec THEN Torn ELSE b.original]
      \/ a = [b EXCEPT !.intent = IF b.intent = NoRec THEN Torn ELSE b.intent]
      \/ a = [b EXCEPT !.receipt = IF b.receipt = NoRec THEN Torn ELSE b.receipt]
  BY <1>1 DEF Left
<1>3. PICK x \in SeatRecords, y \in SeatRecords, z \in SeatRecords :
        /\ x = IF b.original = NoRec THEN Torn ELSE b.original
        /\ y = IF b.intent = NoRec THEN Torn ELSE b.intent
        /\ z = IF b.receipt = NoRec THEN Torn ELSE b.receipt
  BY SeatRecs DEF ArchiveRec
<1>4. a = b \/ a = [b EXCEPT !.original = x] \/ a = [b EXCEPT !.intent = y] \/ a = [b EXCEPT !.receipt = z]
  BY <1>2, <1>3
<1> QED BY <1>1, <1>3, <1>4 DEF ArchiveRec

LEMMA StepBrokerEnds == ASSUME SeatInv, BrokerEnds PROVE SeatInv'
<1> USE DEF SeatInv
<1>1. UNCHANGED <<seatRec, rollouts, mains, scope, removed, nonces, launches>>
  BY DEF BrokerEnds, codingVars
<1>2. \A o \in ResetOps : archive'[o] \in Left(o)
  BY DEF BrokerEnds
<1>3. \A o \in ResetOps :
        /\ archive'[o] \in ArchiveRec
        /\ archive'[o].original = archive[o].original \/ (archive[o].original = NoRec /\ archive'[o].original = Torn)
        /\ archive'[o].intent = archive[o].intent \/ (archive[o].intent = NoRec /\ archive'[o].intent = Torn)
        /\ archive'[o].receipt = archive[o].receipt \/ (archive[o].receipt = NoRec /\ archive'[o].receipt = Torn)
  BY <1>2, LeftFiles
<1>4. archive' \in [ResetOps -> ArchiveRec]
  <2>1. archive' = [o \in ResetOps |-> archive'[o]]
    BY DEF BrokerEnds
  <2> QED BY <1>3, <2>1
<1>5. /\ start' \in [Consoles -> StartRec] /\ reset' \in [ResetOps -> ResetRec]
      /\ (\A k \in Consoles : start'[k].pc = "idle") /\ \A o \in ResetOps : reset'[o].pc = "idle"
  BY SeatRecs DEF BrokerEnds
<1>6. SeatTypes'
  BY <1>1, <1>4, <1>5 DEF SeatTypes
<1>7. LockInv'
  BY <1>1, <1>5 DEF LockInv, Holds1
<1>8. \A o \in ResetOps : ResetTrue(o)' /\ ArchiveTrue(o)'
  BY <1>1, <1>3, <1>5, SeatRecs DEF RecordInv, ResetTrue, ArchiveTrue, SeatTypes
<1>9. \A r \in removed' : RemovedTrue(r)'
  BY <1>1, <1>3, SeatRecs DEF RecordInv, RemovedTrue
<1>10. \A k \in Consoles : ~Holds1(k)'
  BY <1>5 DEF Holds1
<1> QED BY <1>1, <1>6, <1>7, <1>8, <1>9, <1>10 DEF RecordInv

\* A step of a reset: its files are only added to, and the record goes only into the archive.
LEMMA ResetMoves ==
    ASSUME SeatInv, NEW o \in ResetOps, NEW x \in ResetRec, ResetMoved(o, x),
           UNCHANGED <<start, rollouts, mains, scope, nonces, launches>>,
           \A l \in Consoles : ~Holds1(l), \A y \in ResetOps : y # o => reset[y].pc = "idle",
           x.pc # "idle" => seatLock' = o /\ scope = {} /\ rollouts = {},
           archive' \in [ResetOps -> ArchiveRec], \A y \in ResetOps : y # o => archive'[y] = archive[y],
           archive'[o].original = archive[o].original \/ archive[o].original = NoRec,
           ResetTrue(o)', ArchiveTrue(o)',
           \/ seatRec' = seatRec /\ removed' = removed
           \/ /\ seatRec' = NoRec /\ removed' = removed \cup {seatRec} /\ seatRec.st = "starting" /\ scope = {} /\ rollouts = {}
              /\ archive[o].original = seatRec /\ archive' = archive
    PROVE  SeatInv'
<1> USE DEF SeatInv
<1>1. reset'[o] = x /\ (\A y \in ResetOps : y # o => reset'[y] = reset[y]) /\ reset' \in [ResetOps -> ResetRec]
  BY DEF SeatTypes, ResetMoved
<1>2. seatRec' \in SeatRecords /\ removed' \in SUBSET SeatRecords
  BY SeatRecs DEF SeatTypes
<1>3. SeatTypes'
  BY <1>1, <1>2 DEF SeatTypes
<1>4. \A l \in Consoles : ~Holds1(l)'
  BY DEF Holds1
<1>5. LockInv'
  BY <1>1, <1>4 DEF LockInv, Holds1
<1>6. \A y \in ResetOps : ResetTrue(y)'
  BY <1>1 DEF ResetTrue
<1>7. \A y \in ResetOps : ArchiveTrue(y)'
  BY DEF RecordInv, ArchiveTrue
<1>8. \A r \in removed' : RemovedTrue(r)'
  <2> TAKE r \in removed'
  <2>1. CASE r \in removed
    <3>1. RemovedTrue(r) /\ r # NoRec
      BY <2>1, SeatRecs DEF RecordInv, RemovedTrue
    <3> QED BY <3>1 DEF RemovedTrue
  <2>2. CASE r \notin removed
    BY <2>2 DEF RecordInv, RemovedTrue
  <2> QED BY <2>1, <2>2
<1>9. /\ seatRec'.st \in {"none", "starting", "bound"} /\ (seatRec'.st = "none" => seatRec' = NoRec) /\ seatRec'.nonce <= nonces'
      /\ seatRec' \notin removed'
  BY SeatRecs DEF RecordInv, RemovedTrue, SeatTypes
<1> QED BY <1>3, <1>4, <1>5, <1>6, <1>7, <1>8, <1>9 DEF RecordInv

\* A reset under way has the lock, and knows its record.
LEMMA ResetHas ==
    ASSUME SeatInv, NEW o \in ResetOps, reset[o].pc # "idle"
    PROVE  /\ seatLock = o /\ scope = {} /\ rollouts = {} /\ (\A l \in Consoles : ~Holds1(l))
           /\ \A y \in ResetOps : y # o => reset[y].pc = "idle"
           /\ ResetTrue(o) /\ ArchiveTrue(o) /\ reset[o] \in ResetRec /\ archive[o] \in ArchiveRec
  BY LockAlone DEF SeatInv, LockInv, RecordInv, SeatTypes

\* A reset that ends, its receipt written or not.
LEMMA ResetStops ==
    ASSUME SeatInv, NEW o \in ResetOps, reset[o].pc # "idle", ResetEnds(o), archive' \in [ResetOps -> ArchiveRec],
           \A y \in ResetOps : y # o => archive'[y] = archive[y], archive'[o].original = archive[o].original, ArchiveTrue(o)',
           UNCHANGED <<seatRec, removed, start, rollouts, mains, scope, nonces, launches>>
    PROVE  SeatInv'
<1>1. ResetMoved(o, NoReset) /\ NoReset \in ResetRec /\ NoReset.pc = "idle"
  BY SeatRecs DEF ResetEnds, ResetMoved
<1>2. ResetTrue(o)'
  BY <1>1 DEF ResetMoved, ResetTrue, SeatInv, SeatTypes
<1> QED BY <1>1, <1>2, ResetHas, ResetMoves

LEMMA StepAbandon ==
    ASSUME SeatInv, NEW o \in ResetOps, NEW want \in {seatRec, archive[o].original} \ {NoRec, Torn}, AbandonStart(o, want)
    PROVE  SeatInv'
<1>1. UNCHANGED <<seatRec, rollouts, mains, scope, start, archive, removed, launches, nonces>>
  BY DEF AbandonStart, codingVars
<1>2. CASE UNCHANGED <<reset, seatLock>>
  BY <1>1, <1>2 DEF SeatInv, SeatTypes, LockInv, RecordInv, Holds1, StartTrue, ResetTrue, ArchiveTrue, RemovedTrue
<1>3. CASE /\ seatLock = Unlocked /\ scope = {} /\ (Abandons(want) \/ Resumes(o, want))
           /\ reset' = [reset EXCEPT ![o] = [pc |-> IF Abandons(want) THEN "original" ELSE "receipt", want |-> want]]
           /\ seatLock' = o
  <2>1. (\A l \in Consoles : ~Holds1(l)) /\ \A y \in ResetOps : y # o => reset[y].pc = "idle"
    BY <1>3, LockAlone
  <2>2. want \in SeatRecords /\ want \notin {NoRec, Torn}
    BY DEF SeatInv, SeatTypes, ArchiveRec
  <2>3. PICK x : x = [pc |-> IF Abandons(want) THEN "original" ELSE "receipt", want |-> want]
    OBVIOUS
  <2>4. x \in ResetRec /\ ResetMoved(o, x) /\ rollouts = {}
    BY <1>3, <2>2, <2>3 DEF ResetRec, ResetMoved, Abandons, Resumes
  <2>5. reset'[o] = x
    BY <2>4 DEF ResetMoved, SeatInv, SeatTypes
  <2>6. ResetTrue(o)'
    <3>1. CASE Abandons(want)
      BY <1>1, <2>3, <2>5, <3>1 DEF Abandons, ResetTrue
    <3>2. CASE ~Abandons(want) /\ Resumes(o, want)
      <4>1. want \in removed
        BY <2>2, <3>2 DEF Resumes, SeatInv, RecordInv, ArchiveTrue
      <4> QED BY <1>1, <2>3, <2>5, <3>2, <4>1 DEF ResetTrue
    <3> QED BY <1>3, <3>1, <3>2
  <2>7. ArchiveTrue(o)' /\ archive' \in [ResetOps -> ArchiveRec]
    BY <1>1 DEF SeatInv, SeatTypes, RecordInv, ArchiveTrue
  <2> QED BY <1>1, <1>3, <2>1, <2>4, <2>6, <2>7, ResetMoves
<1> QED BY <1>2, <1>3 DEF AbandonStart, NoCodingProcesses

\* A file that is written, and the step the operation then takes.
ArchiveMoved(o, a) == archive' = [archive EXCEPT ![o] = a]
LEMMA OriginalWritten ==
    ASSUME SeatInv, NEW o \in ResetOps, NEW want \in SeatRecords, archive' = [archive EXCEPT ![o]["original"] = want]
    PROVE  \E a \in ArchiveRec : ArchiveMoved(o, a) /\ a.original = want /\ a.intent = archive[o].intent /\ a.receipt = archive[o].receipt
<1>1. PICK b \in ArchiveRec : b = archive[o]
  BY DEF SeatInv, SeatTypes
<1>2. PICK a : a = [b EXCEPT !["original"] = want]
  OBVIOUS
<1>3. a \in ArchiveRec /\ a.original = want /\ a.intent = b.intent /\ a.receipt = b.receipt
  BY <1>2 DEF ArchiveRec
<1> QED BY <1>1, <1>2, <1>3 DEF ArchiveMoved

LEMMA IntentWritten ==
    ASSUME SeatInv, NEW o \in ResetOps, NEW want \in SeatRecords, archive' = [archive EXCEPT ![o]["intent"] = want]
    PROVE  \E a \in ArchiveRec : ArchiveMoved(o, a) /\ a.intent = want /\ a.original = archive[o].original /\ a.receipt = archive[o].receipt
<1>1. PICK b \in ArchiveRec : b = archive[o]
  BY DEF SeatInv, SeatTypes
<1>2. PICK a : a = [b EXCEPT !["intent"] = want]
  OBVIOUS
<1>3. a \in ArchiveRec /\ a.intent = want /\ a.original = b.original /\ a.receipt = b.receipt
  BY <1>2 DEF ArchiveRec
<1> QED BY <1>1, <1>2, <1>3 DEF ArchiveMoved

LEMMA ReceiptWritten ==
    ASSUME SeatInv, NEW o \in ResetOps, NEW want \in SeatRecords, archive' = [archive EXCEPT ![o].receipt = want]
    PROVE  \E a \in ArchiveRec : ArchiveMoved(o, a) /\ a.receipt = want /\ a.original = archive[o].original /\ a.intent = archive[o].intent
<1>1. PICK b \in ArchiveRec : b = archive[o]
  BY DEF SeatInv, SeatTypes
<1>2. PICK a : a = [b EXCEPT !.receipt = want]
  OBVIOUS
<1>3. a \in ArchiveRec /\ a.receipt = want /\ a.original = b.original /\ a.intent = b.intent
  BY <1>2 DEF ArchiveRec
<1> QED BY <1>1, <1>2, <1>3 DEF ArchiveMoved

\* The operation's next step, its files written as they are.
LEMMA ResetPc ==
    ASSUME SeatInv, NEW o \in ResetOps, NEW pc \in {"intent", "remove", "receipt"}, ResetGoes(o, pc)
    PROVE  \E x \in ResetRec : ResetMoved(o, x) /\ reset'[o] = x /\ x.pc = pc /\ x.want = reset[o].want
<1>1. PICK d \in ResetRec : d = reset[o]
  BY DEF SeatInv, SeatTypes
<1>2. PICK x : x = [d EXCEPT !.pc = pc]
  OBVIOUS
<1>3. x \in ResetRec /\ x.pc = pc /\ x.want = d.want
  BY <1>2 DEF ResetRec
<1>4. ResetMoved(o, x)
  BY <1>1, <1>2 DEF ResetGoes, ResetMoved
<1>5. reset'[o] = x
  BY <1>4 DEF ResetMoved, SeatInv, SeatTypes
<1> QED BY <1>1, <1>3, <1>4, <1>5

LEMMA StepPut == ASSUME SeatInv, NEW o \in ResetOps, PutOriginal(o) \/ PutIntent(o) PROVE SeatInv'
<1>1. UNCHANGED <<seatRec, removed, rollouts, mains, scope, start, launches, nonces>> /\ reset[o].pc \in {"original", "intent"}
  BY DEF PutOriginal, PutIntent, codingVars
<1>2. /\ seatLock = o /\ scope = {} /\ rollouts = {} /\ (\A l \in Consoles : ~Holds1(l))
      /\ \A y \in ResetOps : y # o => reset[y].pc = "idle"
      /\ ResetTrue(o) /\ ArchiveTrue(o) /\ reset[o] \in ResetRec /\ archive[o] \in ArchiveRec
  BY <1>1, ResetHas
<1>3. PICK want \in SeatRecords : want = reset[o].want
  BY <1>2 DEF ResetRec
<1>4. want = seatRec /\ want.st = "starting" /\ want.nonce <= nonces
  BY <1>1, <1>2, <1>3 DEF ResetTrue, SeatInv, RecordInv
<1>5. CASE ResetEnds(o) /\ UNCHANGED archive
  <2>1. ArchiveTrue(o)' /\ archive' \in [ResetOps -> ArchiveRec]
    BY <1>1, <1>2, <1>5 DEF SeatInv, SeatTypes, ArchiveTrue
  <2> QED BY <1>1, <1>5, <2>1, ResetStops
<1>6. CASE PutOriginal(o) /\ archive[o].original \in {NoRec, want} /\ archive' = [archive EXCEPT ![o]["original"] = want] /\ ResetGoes(o, "intent") /\ UNCHANGED seatLock
  <2>1. \E a \in ArchiveRec : ArchiveMoved(o, a) /\ a.original = want /\ a.intent = archive[o].intent /\ a.receipt = archive[o].receipt
    BY <1>6, OriginalWritten
  <2>2. PICK a \in ArchiveRec : ArchiveMoved(o, a) /\ a.original = want /\ a.intent = archive[o].intent /\ a.receipt = archive[o].receipt
    BY <2>1
  <2>3. archive'[o] = a /\ (\A y \in ResetOps : y # o => archive'[y] = archive[y]) /\ archive' \in [ResetOps -> ArchiveRec]
    BY <2>2 DEF ArchiveMoved, SeatInv, SeatTypes
  <2>4. \E x \in ResetRec : ResetMoved(o, x) /\ reset'[o] = x /\ x.pc = "intent" /\ x.want = reset[o].want
    BY <1>6, ResetPc
  <2>5. PICK x \in ResetRec : ResetMoved(o, x) /\ reset'[o] = x /\ x.pc = "intent" /\ x.want = reset[o].want
    BY <2>4
  <2>6. ResetTrue(o)' /\ ArchiveTrue(o)'
    BY <1>1, <1>2, <1>3, <1>4, <2>2, <2>3, <2>5 DEF ResetTrue, ArchiveTrue
  <2>7. archive'[o].original = archive[o].original \/ archive[o].original = NoRec
    BY <1>6, <2>2, <2>3
  <2> QED BY <1>1, <1>2, <1>6, <2>3, <2>5, <2>6, <2>7, ResetMoves
<1>7. CASE PutIntent(o) /\ archive' = [archive EXCEPT ![o]["intent"] = want] /\ ResetGoes(o, "remove") /\ UNCHANGED seatLock
  <2>1. \E a \in ArchiveRec : ArchiveMoved(o, a) /\ a.intent = want /\ a.original = archive[o].original /\ a.receipt = archive[o].receipt
    BY <1>7, IntentWritten
  <2>2. PICK a \in ArchiveRec : ArchiveMoved(o, a) /\ a.intent = want /\ a.original = archive[o].original /\ a.receipt = archive[o].receipt
    BY <2>1
  <2>3. archive'[o] = a /\ (\A y \in ResetOps : y # o => archive'[y] = archive[y]) /\ archive' \in [ResetOps -> ArchiveRec]
    BY <2>2 DEF ArchiveMoved, SeatInv, SeatTypes
  <2>4. \E x \in ResetRec : ResetMoved(o, x) /\ reset'[o] = x /\ x.pc = "remove" /\ x.want = reset[o].want
    BY <1>7, ResetPc
  <2>5. PICK x \in ResetRec : ResetMoved(o, x) /\ reset'[o] = x /\ x.pc = "remove" /\ x.want = reset[o].want
    BY <2>4
  <2>6. reset[o].pc = "intent"
    BY <1>7 DEF PutIntent
  <2>7. ResetTrue(o)' /\ ArchiveTrue(o)'
    BY <1>1, <1>2, <1>3, <1>4, <2>2, <2>3, <2>5, <2>6 DEF ResetTrue, ArchiveTrue
  <2> QED BY <1>1, <1>2, <1>7, <2>2, <2>3, <2>5, <2>7, ResetMoves
<1> QED BY <1>3, <1>5, <1>6, <1>7 DEF PutOriginal, PutIntent, Writes

LEMMA StepRemove == ASSUME SeatInv, NEW o \in ResetOps, RemoveRecord(o) PROVE SeatInv'
<1>1. UNCHANGED <<archive, rollouts, mains, scope, start, launches, nonces>> /\ reset[o].pc = "remove"
  BY DEF RemoveRecord, codingVars
<1>2. /\ seatLock = o /\ scope = {} /\ rollouts = {} /\ (\A l \in Consoles : ~Holds1(l))
      /\ \A y \in ResetOps : y # o => reset[y].pc = "idle"
      /\ ResetTrue(o) /\ ArchiveTrue(o) /\ reset[o] \in ResetRec /\ archive[o] \in ArchiveRec
  BY <1>1, ResetHas
<1>3. seatRec = reset[o].want /\ seatRec.st = "starting" /\ archive[o].original = seatRec
  BY <1>1, <1>2 DEF ResetTrue
<1>4. seatRec' = NoRec /\ removed' = removed \cup {seatRec} /\ ResetGoes(o, "receipt") /\ UNCHANGED seatLock
  BY <1>3 DEF RemoveRecord
<1>5. \E x \in ResetRec : ResetMoved(o, x) /\ reset'[o] = x /\ x.pc = "receipt" /\ x.want = reset[o].want
  BY <1>4, ResetPc
<1>6. PICK x \in ResetRec : ResetMoved(o, x) /\ reset'[o] = x /\ x.pc = "receipt" /\ x.want = reset[o].want
  BY <1>5
<1>7. ResetTrue(o)' /\ ArchiveTrue(o)'
  BY <1>1, <1>2, <1>3, <1>4, <1>6 DEF ResetTrue, ArchiveTrue
<1>8. archive' \in [ResetOps -> ArchiveRec] /\ archive' = archive
  BY <1>1 DEF SeatInv, SeatTypes
<1> QED BY <1>1, <1>2, <1>3, <1>4, <1>6, <1>7, <1>8, ResetMoves

LEMMA StepReceipt == ASSUME SeatInv, NEW o \in ResetOps, PutReceipt(o) PROVE SeatInv'
<1>1. UNCHANGED <<seatRec, removed, rollouts, mains, scope, start, launches, nonces>> /\ reset[o].pc = "receipt" /\ ResetEnds(o)
  BY DEF PutReceipt, codingVars
<1>2. ResetTrue(o) /\ ArchiveTrue(o) /\ reset[o] \in ResetRec /\ archive[o] \in ArchiveRec
  BY <1>1, ResetHas
<1>3. CASE archive[o].receipt = NoRec
  <2>1. PICK want \in SeatRecords : want = reset[o].want
    BY <1>2 DEF ResetRec
  <2>2. archive' = [archive EXCEPT ![o].receipt = want]
    BY <1>3, <2>1 DEF PutReceipt
  <2>3. \E a \in ArchiveRec : ArchiveMoved(o, a) /\ a.receipt = want /\ a.original = archive[o].original /\ a.intent = archive[o].intent
    BY <2>2, ReceiptWritten
  <2>4. PICK a \in ArchiveRec : ArchiveMoved(o, a) /\ a.receipt = want /\ a.original = archive[o].original /\ a.intent = archive[o].intent
    BY <2>3
  <2>5. archive'[o] = a /\ (\A y \in ResetOps : y # o => archive'[y] = archive[y]) /\ archive' \in [ResetOps -> ArchiveRec]
    BY <2>4 DEF ArchiveMoved, SeatInv, SeatTypes
  <2>6. ArchiveTrue(o)'
    BY <1>1, <1>2, <2>1, <2>4, <2>5 DEF ResetTrue, ArchiveTrue
  <2> QED BY <1>1, <2>4, <2>5, <2>6, ResetStops
<1>4. CASE archive[o].receipt # NoRec
  <2>1. archive' = archive /\ archive' \in [ResetOps -> ArchiveRec]
    BY <1>4 DEF PutReceipt, SeatInv, SeatTypes, ArchiveRec
  <2>2. ArchiveTrue(o)'
    BY <1>1, <1>2, <2>1 DEF ArchiveTrue
  <2> QED BY <1>1, <2>1, <2>2, ResetStops
<1> QED BY <1>3, <1>4

\* The seat has one actor, whatever ended before it and however, and an account of every start:
\* in place, or archived as it was by the reset that removed it. For any number of consoles,
\* resets, launches and conversations.
THEOREM SeatIsHeld == Spec => []SeatHeld
<1>1. Init => SeatInv
  <2> SUFFICES ASSUME Init PROVE SeatInv
    OBVIOUS
  <2>1. [original |-> NoRec, intent |-> NoRec, receipt |-> NoRec] \in ArchiveRec
    BY SeatRecs DEF ArchiveRec
  <2>2. SeatTypes
    BY <2>1, SeatRecs, FS_EmptySet DEF Init, SeatInit, SeatTypes
  <2>3. LockInv
    BY SeatRecs DEF Init, SeatInit, LockInv, Holds1
  <2>4. RecordInv
    BY SeatRecs DEF Init, SeatInit, RecordInv, Holds1, ResetTrue, ArchiveTrue
  <2> QED BY <2>2, <2>3, <2>4 DEF SeatInv
<1>2. SeatInv /\ [Next]_vars => SeatInv'
  <2> SUFFICES ASSUME SeatInv, [Next]_vars PROVE SeatInv'
    OBVIOUS
  <2>1. CASE UNCHANGED <<seatRec, rollouts, mains, scope, seatLock, start, reset, archive, removed, launches, nonces>>
    BY <2>1 DEF SeatInv, SeatTypes, LockInv, RecordInv, Holds1, StartTrue, ResetTrue, ArchiveTrue, RemovedTrue
  <2>2. BrokerStarts \/ UNCHANGED seatVars => UNCHANGED <<seatRec, rollouts, mains, scope, seatLock, start, reset, archive, removed, launches, nonces>>
    BY DEF BrokerStarts, seatVars, codingVars, resetVars
  <2>3. CASE SeatNext
    BY <2>1, <2>2, <2>3, StepBrokerEnds, StepActor, StepAsk, StepAdmit, StepWriteStarting, StepLaunch, StepBind,
       StepAbandon, StepPut, StepRemove, StepReceipt DEF SeatNext
  <2> QED BY <2>1, <2>2, <2>3 DEF Next, vars
<1>3. SeatInv => SeatHeld
  BY SeatFollows
<1> QED BY <1>1, <1>2, <1>3, PTL DEF Spec

(***************************** induction over data ***********************************)
\* A set of natural numbers that is not empty has a least one.
LEMMA LeastNat ==
    ASSUME NEW T, T \subseteq Nat, T # {}
    PROVE  \E x \in T : \A y \in T : x <= y
<1> DEFINE R == OpToRel(<, Nat)
<1>1. IsWellFoundedOn(R, Nat)
  BY NatLessThanWellFounded
<1>2. \A a, b \in Nat : <<a, b>> \in R <=> a < b
  BY DEF OpToRel
<1> HIDE DEF R
<1>3. PICK x \in T : \A y \in T : <<y, x>> \notin R
  BY <1>1, WFMin
<1>4. \A y \in T : x <= y
  <2> SUFFICES ASSUME NEW y \in T PROVE x <= y
    OBVIOUS
  <2>1. x \in Nat /\ y \in Nat
    OBVIOUS
  <2>2. ~(y < x)
    BY <1>2, <1>3, <2>1
  <2> QED BY <2>1, <2>2
<1> QED BY <1>4

\* A set that has zero and with each number the next one has them all.
LEMMA AllNats ==
    ASSUME NEW P, 0 \in P, \A n \in Nat : n \in P => n + 1 \in P
    PROVE  Nat \subseteq P
<1> DEFINE T == {n \in Nat : n \notin P}
<1> SUFFICES ASSUME T # {} PROVE FALSE
  OBVIOUS
<1>1. PICK x \in T : \A y \in T : x <= y
  <2> HIDE DEF T
  <2>1. T \subseteq Nat
    BY DEF T
  <2> QED BY <2>1, LeastNat
<1>2. x # 0 /\ x \in Nat
  OBVIOUS
<1>3. x - 1 \in Nat /\ x - 1 \notin T
  BY <1>1, <1>2
<1> QED BY <1>2, <1>3

(********************************* the qualification *********************************)
\* The steps as they are listed, and what follows each.
LEMMA StepsAre ==
    /\ Steps = <<"claim", "registered", "boot", "transport", "isolation", "mail", "listing">>
    /\ DOMAIN Steps = 1 .. 7 /\ DOMAIN Observe = 1 .. 4
  BY DEF Steps, Observe

LEMMA AfterStepIs ==
    /\ AfterStep("claim") = "registered" /\ AfterStep("registered") = "boot" /\ AfterStep("boot") = "transport"
    /\ AfterStep("transport") = "isolation" /\ AfterStep("isolation") = "mail" /\ AfterStep("mail") = "listing"
    /\ AfterStep("listing") = "end"
<1>1. Len(Steps) = 7
  BY StepsAre
<1>2. ASSUME NEW s, NEW i \in 1 .. 7, Steps[i] = s, \A k \in 1 .. 7 : Steps[k] = s => k = i
      PROVE  AfterStep(s) = IF i = 7 THEN "end" ELSE Steps[i + 1]
  <2>1. (CHOOSE k \in DOMAIN Steps : Steps[k] = s) = i
    BY <1>2, StepsAre
  <2>2. AfterStep(s) = IF (CHOOSE k \in DOMAIN Steps : Steps[k] = s) = Len(Steps) THEN "end"
                       ELSE Steps[(CHOOSE k \in DOMAIN Steps : Steps[k] = s) + 1]
    BY DEF AfterStep
  <2> QED BY <1>1, <2>1, <2>2
<1>3. \A k \in 1 .. 7 : k = 1 \/ k = 2 \/ k = 3 \/ k = 4 \/ k = 5 \/ k = 6 \/ k = 7
  OBVIOUS
<1>4. /\ Steps[1] = "claim" /\ Steps[2] = "registered" /\ Steps[3] = "boot" /\ Steps[4] = "transport"
      /\ Steps[5] = "isolation" /\ Steps[6] = "mail" /\ Steps[7] = "listing"
  BY StepsAre
<1> QED BY <1>2, <1>3, <1>4

QualRec == [registered : BOOLEAN, attempted : BOOLEAN, boot : BOOLEAN, scope : BOOLEAN, complete : BOOLEAN,
            safe : BOOLEAN, retirement : BOOLEAN, err : BOOLEAN, custody : BOOLEAN]
Observing == {"transport", "isolation", "mail", "listing"}
Ending == {"cleanup", "stop", "list", "retire", "decide"}
QualTypes ==
    /\ qpc \in {"idle", "claim", "registered", "boot", "end"} \cup Observing \cup Ending
    /\ recorded \in BOOLEAN /\ qual \in QualRec /\ qjournal \in BOOLEAN
    /\ regRow \in {"fresh", "claimed", "retired"} /\ vm \in {"none", "running", "stopped"} /\ boots \in Nat
Observed(s) == Before(s) \in stages /\ After(s) \in stages
AllObserved == Observed("transport") /\ Observed("isolation") /\ Observed("mail") /\ Observed("listing")
Untouched == regRow = "fresh" /\ vm = "none" /\ boots = 0

\* The steps up to the end: what the run knows is what is there.
StepsInv ==
    /\ qpc = "claim" => Untouched /\ ~qual.attempted /\ ~qual.registered /\ ~qual.boot
    /\ qpc \in {"registered", "boot", "end"} \cup Observing => regRow = "claimed" /\ qual.attempted /\ qual.registered
    /\ qpc \in {"registered", "boot"} => vm = "none" /\ boots = 0 /\ ~qual.boot
    /\ qpc \in {"end"} \cup Observing => vm = "running" /\ qual.boot /\ qual.scope
    /\ qpc \in {"claim", "registered", "boot", "end"} \cup Observing =>
          ~qual.safe /\ ~qual.retirement /\ ~qual.complete /\ (recorded => Before(qpc) \in stages)
    /\ qpc = "isolation" => Observed("transport")
    /\ qpc = "mail" => Observed("transport") /\ Observed("isolation")
    /\ qpc = "listing" => Observed("transport") /\ Observed("isolation") /\ Observed("mail")
    /\ qpc = "end" => AllObserved /\ ~recorded
    /\ qpc = "registered" => ~recorded
\* The cleanup: what is said to be safe or retired is.
EndingInv ==
    qpc \in Ending =>
    /\ (qual.attempted \/ regRow = "fresh") /\ (qual.registered => qual.attempted /\ regRow # "fresh") /\ (qual.boot \/ vm = "none")
    /\ qual.complete => qual.registered /\ AllObserved
    /\ qpc \in {"cleanup", "stop"} => ~qual.safe
    /\ qual.safe => vm # "running"
    /\ qpc # "decide" => regRow # "retired" /\ ~qual.retirement
    /\ qpc = "decide" /\ qual.safe /\ (qual.registered \/ qual.retirement) => regRow = "retired"
    /\ recorded => qpc = "retire" /\ qual.registered /\ qual.safe /\ Before("retire") \in stages
\* What is there at any time, whatever died.
JournaledInv ==
    /\ ~qjournal => qpc = "idle" /\ Untouched /\ ~recorded
    /\ (qjournal /\ qpc = "idle") \/ terminal = "none"
    /\ (regRow # "fresh" => Before("claim") \in stages) /\ (vm # "none" => Before("boot") \in stages)
    /\ (regRow = "retired" => Before("retire") \in stages /\ vm # "running") /\ boots <= 1
    /\ terminal \in {"complete", "failed_stopped"} => vm # "running" /\ regRow # "claimed"
    /\ terminal = "complete" => AllObserved
    /\ qpc = "idle" => ~recorded
QualInv == QualTypes /\ StepsInv /\ EndingInv /\ JournaledInv

LEMMA QualTold == ASSUME QualInv PROVE TerminalTrue
<1>1. ASSUME NEW i \in DOMAIN Observe PROVE Observe[i] \in Observing
  BY StepsAre DEF Observe, Observing
<1>2. AllObserved => \A i \in DOMAIN Observe : {Before(Observe[i]), After(Observe[i])} \subseteq stages
  BY <1>1 DEF AllObserved, Observed, Observing
<1> QED BY <1>2 DEF QualInv, JournaledInv, TerminalTrue

LEMMA Tags ==
    /\ \A s, t : Before(s) = Before(t) => s = t
    /\ \A s, t : Before(s) # After(t)
  BY DEF Before, After

\* A run that begins, and a run that ends early.
LEMMA PhaseRuns == ASSUME QualInv, RunPhase PROVE QualInv'
<1>1. CASE UNCHANGED <<qpc, qual, qjournal>>
  BY <1>1 DEF RunPhase, worldVars, QualInv, QualTypes, StepsInv, EndingInv, JournaledInv, Observed, AllObserved, Untouched
<1>2. CASE ~qjournal /\ qjournal' = TRUE /\ qual' = NoQual /\ qpc' \in {"idle", "claim"}
  <2>1. UNCHANGED <<recorded, stages, regRow, vm, boots, terminal>> /\ Untouched /\ ~recorded /\ terminal = "none"
    BY <1>2 DEF RunPhase, worldVars, QualInv, JournaledInv
  <2>2. NoQual \in QualRec
    BY DEF NoQual, QualRec
  <2>3. /\ ~NoQual.attempted /\ ~NoQual.registered /\ ~NoQual.boot /\ ~NoQual.safe /\ ~NoQual.retirement /\ ~NoQual.complete
    BY DEF NoQual
  <2> QED BY <1>2, <2>1, <2>2, <2>3 DEF QualInv, QualTypes, StepsInv, EndingInv, JournaledInv, Observing, Ending, Untouched
<1> QED BY <1>1, <1>2 DEF RunPhase

LEMMA PhaseStops ==
    ASSUME QualInv, qpc \notin {"idle"}, qpc' = "idle", recorded' = FALSE, UNCHANGED <<qual, qjournal, stages, regRow, vm, boots>>,
           terminal' \in {"complete", "failed_stopped"} => vm # "running" /\ regRow # "claimed",
           terminal' = "complete" => AllObserved
    PROVE  QualInv'
<1>1. qjournal
  BY DEF QualInv, JournaledInv
<1>2. QualTypes' /\ StepsInv' /\ EndingInv'
  BY DEF QualInv, QualTypes, StepsInv, EndingInv, Observing, Ending
<1>3. AllObserved' <=> AllObserved
  BY DEF AllObserved, Observed
<1>4. JournaledInv'
  BY <1>1, <1>3 DEF QualInv, QualTypes, JournaledInv
<1> QED BY <1>2, <1>4 DEF QualInv

LEMMA TerminalWritten == ASSUME QualInv, WriteTerminal PROVE QualInv'
<1>1. /\ qpc = "decide" /\ qpc' = "idle" /\ terminal' \in {Outcome, "torn"} /\ recorded = FALSE
      /\ UNCHANGED <<recorded, qual, qjournal, stages, regRow, vm, boots>>
  BY DEF WriteTerminal, worldVars, QualInv, QualTypes, EndingInv, Ending
<1>2. /\ qual.attempted \/ regRow = "fresh"
      /\ qual.complete => qual.registered /\ AllObserved
      /\ qual.safe => vm # "running"
      /\ qual.safe /\ (qual.registered \/ qual.retirement) => regRow = "retired"
  BY <1>1 DEF QualInv, EndingInv, Ending
<1>3. Outcome = "complete" => qual.complete /\ qual.safe
  BY DEF Outcome
<1>4. Outcome = "failed_stopped" => qual.safe /\ (~qual.attempted \/ qual.retirement)
  BY DEF Outcome
<1>5. Outcome \in {"complete", "failed_stopped"} => vm # "running" /\ regRow # "claimed"
  BY <1>2, <1>3, <1>4
<1> QED BY <1>1, <1>2, <1>3, <1>5, PhaseStops

LEMMA PhaseDead == ASSUME QualInv, PhaseDies PROVE QualInv'
<1>1. terminal = "none" /\ terminal' \in {terminal, "torn"}
  BY DEF PhaseDies, QualInv, JournaledInv
<1> QED BY <1>1, PhaseStops DEF PhaseDies, worldVars

\* More is recorded, and nothing else is there: what held of the records holds.
LEMMA MoreRecords ==
    ASSUME QualInv, stages \subseteq stages', UNCHANGED <<qjournal, regRow, vm, boots, terminal>>, qpc \notin {"idle"},
           qpc' \notin {"idle"}, qpc' \in {"claim", "registered", "boot", "end"} \cup Observing \cup Ending
    PROVE  JournaledInv'
  BY DEF QualInv, JournaledInv, Untouched, AllObserved, Observed

\* A step that fails goes to the cleanup with what the run knew.
LEMMA StepFails ==
    ASSUME QualInv, qpc \in {"claim", "registered", "boot", "end"} \cup Observing,
           stages \subseteq stages', UNCHANGED <<qjournal, regRow, vm, boots, terminal>>, NEW custody \in BOOLEAN, Fails(custody)
    PROVE  QualInv'
<1>1. /\ qual' = [qual EXCEPT !.err = TRUE, !.custody = @ \/ custody] /\ qpc' = "cleanup" /\ recorded' = FALSE
  BY DEF Fails
<1>2. /\ qual' \in QualRec /\ qual'.attempted = qual.attempted /\ qual'.registered = qual.registered /\ qual'.boot = qual.boot
      /\ qual'.safe = qual.safe /\ qual'.retirement = qual.retirement /\ qual'.complete = qual.complete
  BY <1>1 DEF QualInv, QualTypes, QualRec
<1>3. JournaledInv'
  BY <1>1, MoreRecords DEF Ending, Observing
<1>4. QualTypes'
  BY <1>1, <1>2 DEF QualInv, QualTypes, Ending
<1>5. StepsInv'
  BY <1>1 DEF StepsInv, Observing
<1>6. EndingInv'
  BY <1>1, <1>2 DEF QualInv, StepsInv, EndingInv, Ending, Observing, Untouched
<1> QED BY <1>3, <1>4, <1>5, <1>6 DEF QualInv

LEMMA StageRecorded == ASSUME QualInv, NEW i \in DOMAIN Steps, RecordStage(Steps[i]) PROVE QualInv'
<1>1. PICK s \in {"claim", "registered", "boot"} \cup Observing : s = Steps[i] /\ RecordStage(s)
  BY StepsAre DEF Observing
<1>2. qpc = s /\ ~recorded /\ UNCHANGED <<qjournal, regRow, vm, boots, terminal>>
  BY <1>1 DEF RecordStage, worldVars
<1>3. CASE \E c \in BOOLEAN : Fails(c) /\ stages' \in {stages, stages \cup {Before(s)}}
  BY <1>2, <1>3, StepFails
<1>4. CASE /\ stages' = stages \cup {Before(s)} /\ recorded' = (s # "registered")
           /\ qpc' = (IF s = "registered" THEN AfterStep(s) ELSE s) /\ UNCHANGED qual
  <2>1. Before(s) \in stages' /\ stages \subseteq stages'
    BY <1>4
  <2>2. qpc' = IF s = "registered" THEN "boot" ELSE s
    BY <1>4, AfterStepIs
  <2>3. JournaledInv'
    BY <1>2, <2>1, <2>2, MoreRecords DEF Observing
  <2>4. QualTypes'
    BY <1>2, <1>4, <2>2 DEF QualInv, QualTypes
  <2>5. EndingInv'
    BY <2>2 DEF EndingInv, Ending, Observing
  <2>6. StepsInv'
    <3>1. CASE s = "registered"
      BY <1>2, <1>4, <2>1, <2>2, <3>1 DEF QualInv, StepsInv, Observing, Untouched
    <3>2. CASE s # "registered"
      BY <1>2, <1>4, <2>1, <2>2, <3>2 DEF QualInv, StepsInv, Observing, Untouched, AllObserved, Observed
    <3> QED BY <3>1, <3>2
  <2> QED BY <2>3, <2>4, <2>5, <2>6 DEF QualInv
<1> QED BY <1>1, <1>3, <1>4 DEF RecordStage

LEMMA Executed == ASSUME QualInv, NEW i \in DOMAIN Observe, Execute(Observe[i]) PROVE QualInv'
<1>1. PICK s \in Observing : s = Observe[i] /\ Execute(s)
  BY StepsAre DEF Observing, Observe
<1>2. qpc = s /\ recorded /\ UNCHANGED <<qjournal, regRow, vm, boots, terminal>>
  BY <1>1 DEF Execute, worldVars
<1>3. CASE \E c \in BOOLEAN : Fails(c) /\ stages' \in {stages, stages \cup {After(s)}}
  BY <1>2, <1>3, StepFails
<1>4. CASE stages' = stages \cup {After(s)} /\ qpc' = AfterStep(s) /\ recorded' = FALSE /\ UNCHANGED qual
  <2>1. Before(s) \in stages' /\ After(s) \in stages' /\ stages \subseteq stages'
    BY <1>2, <1>4 DEF QualInv, StepsInv
  <2>2. qpc' = IF s = "transport" THEN "isolation" ELSE IF s = "isolation" THEN "mail" ELSE IF s = "mail" THEN "listing" ELSE "end"
    BY <1>4, AfterStepIs DEF Observing
  <2>3. JournaledInv'
    BY <1>2, <2>1, <2>2, MoreRecords DEF Observing
  <2>4. QualTypes'
    BY <1>2, <1>4, <2>2 DEF QualInv, QualTypes, Observing
  <2>5. EndingInv'
    BY <2>2 DEF EndingInv, Ending, Observing
  <2>6. Observed(s)' /\ \A t : Observed(t) => Observed(t)'
    BY <2>1 DEF Observed
  <2>7. StepsInv'
    BY <1>2, <1>4, <2>2, <2>6 DEF QualInv, StepsInv, Observing, AllObserved
  <2> QED BY <2>3, <2>4, <2>5, <2>7 DEF QualInv
<1> QED BY <1>1, <1>3, <1>4 DEF Execute

LEMMA PhaseClaimed == ASSUME QualInv, Claim PROVE QualInv'
<1>1. /\ qpc = "claim" /\ recorded /\ recorded' = FALSE /\ regRow' \in {regRow, "claimed"}
      /\ UNCHANGED <<qjournal, stages, vm, boots, terminal>> /\ Untouched /\ Before("claim") \in stages
      /\ ~qual.registered /\ ~qual.boot /\ ~qual.safe /\ ~qual.retirement /\ ~qual.complete
  BY DEF Claim, QualInv, StepsInv
<1>2. JournaledInv'
  BY <1>1 DEF Claim, QualInv, JournaledInv, Untouched, AllObserved, Observed, AfterStepIs
<1>3. CASE /\ regRow' = "claimed" /\ qual' = [qual EXCEPT !.attempted = TRUE, !.registered = TRUE] /\ qpc' = AfterStep("claim")
  <2>1. qpc' = "registered"
    BY <1>3, AfterStepIs
  <2>2. /\ qual' \in QualRec /\ qual'.attempted /\ qual'.registered /\ qual'.boot = qual.boot
        /\ qual'.safe = qual.safe /\ qual'.retirement = qual.retirement /\ qual'.complete = qual.complete
    BY <1>3 DEF QualInv, QualTypes, QualRec
  <2>3. QualTypes' /\ StepsInv' /\ EndingInv'
    BY <1>1, <1>3, <2>1, <2>2 DEF QualInv, QualTypes, StepsInv, EndingInv, Observing, Ending, Untouched
  <2> QED BY <1>2, <2>3 DEF QualInv
<1>4. CASE qual' = [qual EXCEPT !.attempted = TRUE, !.err = TRUE] /\ qpc' = "cleanup"
  <2>2. /\ qual' \in QualRec /\ qual'.attempted /\ qual'.registered = qual.registered /\ qual'.boot = qual.boot
        /\ qual'.safe = qual.safe /\ qual'.retirement = qual.retirement /\ qual'.complete = qual.complete
    BY <1>4 DEF QualInv, QualTypes, QualRec
  <2>3. QualTypes' /\ StepsInv' /\ EndingInv'
    BY <1>1, <1>4, <2>2 DEF QualInv, QualTypes, StepsInv, EndingInv, Observing, Ending, Untouched
  <2> QED BY <1>2, <2>3 DEF QualInv
<1> QED BY <1>3, <1>4 DEF Claim

LEMMA Booted == ASSUME QualInv, Boot PROVE QualInv'
<1>1. /\ qpc = "boot" /\ recorded /\ recorded' = FALSE /\ vm' \in {vm, "running"} /\ boots' = (IF vm' = "running" THEN boots + 1 ELSE boots)
      /\ UNCHANGED <<qjournal, stages, regRow, terminal>> /\ Before("boot") \in stages /\ vm = "none" /\ boots = 0
      /\ regRow = "claimed" /\ qual.attempted /\ qual.registered
      /\ ~qual.safe /\ ~qual.retirement /\ ~qual.complete
  BY DEF Boot, QualInv, StepsInv, Observing
<1>2. boots' \in Nat /\ boots' <= 1
  BY <1>1
<1>3. qpc' \in {"transport", "cleanup"}
  BY AfterStepIs DEF Boot
<1>4. JournaledInv'
  BY <1>1, <1>2, <1>3 DEF QualInv, JournaledInv, Untouched, AllObserved, Observed
<1>5. CASE vm' = "running" /\ qual' = [qual EXCEPT !.boot = TRUE, !.scope = TRUE] /\ qpc' = AfterStep("boot")
  <2>1. qpc' = "transport"
    BY <1>5, AfterStepIs
  <2>2. /\ qual' \in QualRec /\ qual'.attempted = qual.attempted /\ qual'.registered = qual.registered /\ qual'.boot /\ qual'.scope
        /\ qual'.safe = qual.safe /\ qual'.retirement = qual.retirement /\ qual'.complete = qual.complete
    BY <1>5 DEF QualInv, QualTypes, QualRec
  <2>3. QualTypes' /\ StepsInv' /\ EndingInv'
    BY <1>1, <1>2, <1>5, <2>1, <2>2 DEF QualInv, QualTypes, StepsInv, EndingInv, Observing, Ending, Untouched
  <2> QED BY <1>4, <2>3 DEF QualInv
<1>6. CASE \E s \in BOOLEAN : qual' = [qual EXCEPT !.boot = TRUE, !.scope = s, !.err = TRUE] /\ qpc' = "cleanup"
  <2>2. /\ qual' \in QualRec /\ qual'.attempted = qual.attempted /\ qual'.registered = qual.registered /\ qual'.boot
        /\ qual'.safe = qual.safe /\ qual'.retirement = qual.retirement /\ qual'.complete = qual.complete
    BY <1>6 DEF QualInv, QualTypes, QualRec
  <2>3. QualTypes' /\ StepsInv' /\ EndingInv'
    BY <1>1, <1>2, <1>6, <2>2 DEF QualInv, QualTypes, StepsInv, EndingInv, Observing, Ending, Untouched
  <2> QED BY <1>4, <2>3 DEF QualInv
<1> QED BY <1>5, <1>6 DEF Boot

LEMMA Verified == ASSUME QualInv, Verify PROVE QualInv'
<1>1. /\ qpc = "end" /\ qpc' = "cleanup" /\ UNCHANGED <<recorded, qjournal, stages, regRow, vm, boots, terminal>> /\ AllObserved
      /\ regRow = "claimed" /\ qual.attempted /\ qual.registered /\ qual.boot /\ ~qual.safe /\ ~qual.retirement
  BY DEF Verify, worldVars, QualInv, StepsInv, Observing
<1>2. /\ qual' \in QualRec /\ qual'.attempted = qual.attempted /\ qual'.registered = qual.registered /\ qual'.boot = qual.boot
      /\ qual'.safe = qual.safe /\ qual'.retirement = qual.retirement
  BY DEF Verify, QualInv, QualTypes, QualRec
<1>3. JournaledInv'
  BY <1>1, MoreRecords DEF Ending
<1>4. ~recorded
  BY <1>1 DEF QualInv, StepsInv
<1>5. QualTypes' /\ StepsInv' /\ EndingInv'
  BY <1>1, <1>2, <1>4 DEF QualInv, QualTypes, StepsInv, EndingInv, Observing, Ending, AllObserved, Observed
<1> QED BY <1>3, <1>5 DEF QualInv

\* What the cleanup knows before it stops anything.
CleanupFacts ==
    /\ (qual.attempted \/ regRow = "fresh") /\ (qual.registered => qual.attempted /\ regRow # "fresh") /\ (qual.boot \/ vm = "none")
    /\ (qual.complete => qual.registered /\ AllObserved) /\ regRow # "retired" /\ ~qual.retirement
LEMMA InventoryMade == ASSUME QualInv, Inventory PROVE QualInv'
<1>1. /\ qpc = "cleanup" /\ UNCHANGED <<recorded, qjournal, regRow, vm, boots, terminal>> /\ ~recorded /\ ~qual.safe /\ CleanupFacts
  BY DEF Inventory, worldVars, QualInv, EndingInv, Ending, CleanupFacts
<1>2. stages \subseteq stages' /\ (AllObserved => AllObserved')
  BY DEF Inventory, AllObserved, Observed
<1>3. CASE qual.boot
  <2>1. qpc' = "stop"
    BY <1>3 DEF Inventory
  <2>2. /\ qual' \in QualRec /\ qual'.attempted = qual.attempted /\ qual'.registered = qual.registered /\ qual'.boot = qual.boot
        /\ qual'.safe = qual.safe /\ qual'.retirement = qual.retirement /\ qual'.complete = qual.complete
    BY <1>3 DEF Inventory, QualInv, QualTypes, QualRec
  <2>3. JournaledInv'
    BY <1>1, <1>2, <2>1, MoreRecords DEF Ending
  <2>4. QualTypes' /\ StepsInv' /\ EndingInv'
    BY <1>1, <1>2, <2>1, <2>2 DEF QualInv, QualTypes, StepsInv, EndingInv, Observing, Ending, CleanupFacts
  <2> QED BY <2>3, <2>4 DEF QualInv
<1>4. CASE ~qual.boot
  <2>1. qpc' = "retire" /\ qual' = [qual EXCEPT !.safe = TRUE]
    BY <1>4 DEF Inventory
  <2>2. /\ qual' \in QualRec /\ qual'.attempted = qual.attempted /\ qual'.registered = qual.registered /\ qual'.boot = qual.boot
        /\ qual'.safe /\ qual'.retirement = qual.retirement /\ qual'.complete = qual.complete
    BY <2>1 DEF QualInv, QualTypes, QualRec
  <2>3. JournaledInv'
    BY <1>1, <1>2, <2>1, MoreRecords DEF Ending
  <2>4. QualTypes' /\ StepsInv' /\ EndingInv'
    BY <1>1, <1>2, <1>4, <2>1, <2>2 DEF QualInv, QualTypes, StepsInv, EndingInv, Observing, Ending, CleanupFacts
  <2> QED BY <2>3, <2>4 DEF QualInv
<1> QED BY <1>3, <1>4 DEF QualInv, QualTypes, QualRec

LEMMA VMStopped == ASSUME QualInv, Stop PROVE QualInv'
<1>1. /\ qpc = "stop" /\ qpc' = "list" /\ UNCHANGED <<recorded, qjournal, stages, regRow, boots, terminal>> /\ ~recorded /\ CleanupFacts
  BY DEF Stop, QualInv, EndingInv, Ending, CleanupFacts
<1>2. vm' \in {"none", "running", "stopped"} /\ (vm' # "none" => vm # "none") /\ (vm' = "running" => vm = "running")
  BY DEF Stop, QualInv, QualTypes
<1>3. /\ qual' \in QualRec /\ qual'.attempted = qual.attempted /\ qual'.registered = qual.registered /\ qual'.boot = qual.boot
      /\ qual'.retirement = qual.retirement /\ qual'.complete = qual.complete /\ (qual'.safe => vm' # "running")
  <2>1. CASE vm' # "running" /\ qual' = [qual EXCEPT !.safe = TRUE]
    BY <2>1 DEF QualInv, QualTypes, QualRec
  <2>2. CASE \E e \in BOOLEAN : qual' = [qual EXCEPT !.safe = FALSE, !.err = @ \/ e]
    BY <2>2 DEF QualInv, QualTypes, QualRec
  <2> QED BY <2>1, <2>2 DEF Stop
<1>4. AllObserved' <=> AllObserved
  BY <1>1 DEF AllObserved, Observed
<1>5. JournaledInv'
  BY <1>1, <1>2, <1>4 DEF QualInv, JournaledInv, CleanupFacts, Untouched
<1>6. QualTypes' /\ StepsInv' /\ EndingInv'
  BY <1>1, <1>2, <1>3, <1>4 DEF QualInv, QualTypes, StepsInv, EndingInv, Observing, Ending, CleanupFacts
<1> QED BY <1>5, <1>6 DEF QualInv

LEMMA HostListed == ASSUME QualInv, HostListing PROVE QualInv'
<1>1. /\ qpc = "list" /\ qpc' = "retire" /\ UNCHANGED <<recorded, qjournal, stages, regRow, vm, boots, terminal>> /\ ~recorded
      /\ CleanupFacts /\ (qual.safe => vm # "running")
  BY DEF HostListing, worldVars, QualInv, EndingInv, Ending, CleanupFacts
<1>2. /\ qual' \in QualRec /\ qual'.attempted = qual.attempted /\ qual'.registered = qual.registered /\ qual'.boot = qual.boot
      /\ qual'.retirement = qual.retirement /\ qual'.complete = qual.complete /\ (qual'.safe => qual.safe)
  <2>1. CASE UNCHANGED qual
    BY <2>1 DEF QualInv, QualTypes
  <2>2. CASE qual' = [qual EXCEPT !.safe = FALSE, !.err = TRUE]
    BY <2>2 DEF QualInv, QualTypes, QualRec
  <2> QED BY <2>1, <2>2 DEF HostListing
<1>3. JournaledInv'
  BY <1>1, MoreRecords DEF Ending
<1>4. AllObserved' <=> AllObserved
  BY <1>1 DEF AllObserved, Observed
<1>5. QualTypes' /\ StepsInv' /\ EndingInv'
  BY <1>1, <1>2, <1>4 DEF QualInv, QualTypes, StepsInv, EndingInv, Observing, Ending, CleanupFacts
<1> QED BY <1>3, <1>5 DEF QualInv

LEMMA RetireRecorded == ASSUME QualInv, RetireBefore PROVE QualInv'
<1>1. /\ qpc = "retire" /\ UNCHANGED <<qjournal, regRow, vm, boots, terminal>> /\ ~recorded
      /\ CleanupFacts /\ (qual.safe => vm # "running")
  BY DEF RetireBefore, worldVars, QualInv, EndingInv, Ending, CleanupFacts
<1>2. stages \subseteq stages' /\ (AllObserved => AllObserved')
  BY DEF RetireBefore, AllObserved, Observed
<1>3. qpc' \in {"retire", "decide"}
  BY <1>1 DEF RetireBefore
<1>4. JournaledInv'
  BY <1>1, <1>2, <1>3, MoreRecords DEF Ending
<1>5. CASE qual.registered /\ qual.safe /\ stages' = stages \cup {Before("retire")} /\ recorded' = TRUE /\ UNCHANGED <<qpc, qual>>
  <2>1. QualTypes' /\ StepsInv' /\ EndingInv'
    BY <1>1, <1>2, <1>5 DEF QualInv, QualTypes, StepsInv, EndingInv, Observing, Ending, CleanupFacts
  <2> QED BY <1>4, <2>1 DEF QualInv
<1>6. CASE UNCHANGED recorded /\ qual' = [qual EXCEPT !.safe = FALSE, !.err = TRUE, !.custody = TRUE] /\ qpc' = "decide"
  <2>1. /\ qual' \in QualRec /\ qual'.attempted = qual.attempted /\ qual'.registered = qual.registered /\ qual'.boot = qual.boot
        /\ qual'.retirement = qual.retirement /\ qual'.complete = qual.complete /\ ~qual'.safe
    BY <1>6 DEF QualInv, QualTypes, QualRec
  <2>2. QualTypes' /\ StepsInv' /\ EndingInv'
    BY <1>1, <1>2, <1>6, <2>1 DEF QualInv, QualTypes, StepsInv, EndingInv, Observing, Ending, CleanupFacts
  <2> QED BY <1>4, <2>2 DEF QualInv
<1>7. CASE ~(qual.registered /\ qual.safe) /\ qpc' = "decide" /\ UNCHANGED <<recorded, stages, qual>>
  <2>1. QualTypes' /\ StepsInv' /\ EndingInv'
    BY <1>1, <1>2, <1>7 DEF QualInv, QualTypes, StepsInv, EndingInv, Observing, Ending, CleanupFacts
  <2> QED BY <1>4, <2>1 DEF QualInv
<1> QED BY <1>5, <1>6, <1>7 DEF RetireBefore

LEMMA Retired == ASSUME QualInv, Retire PROVE QualInv'
<1>1. /\ qpc = "retire" /\ recorded /\ recorded' = FALSE /\ qpc' = "decide" /\ regRow' \in {regRow, "retired"}
      /\ UNCHANGED <<qjournal, stages, vm, boots, terminal>> /\ CleanupFacts /\ qual.registered /\ vm # "running" /\ Before("retire") \in stages
  BY DEF Retire, QualInv, EndingInv, Ending, CleanupFacts
<1>2. AllObserved' <=> AllObserved
  BY <1>1 DEF AllObserved, Observed
<1>3. /\ qual' \in QualRec /\ qual'.attempted = qual.attempted /\ qual'.registered = qual.registered /\ qual'.boot = qual.boot
      /\ qual'.complete = qual.complete /\ (qual'.safe => regRow' = "retired")
  <2>1. CASE regRow' = "retired" /\ qual' = [qual EXCEPT !.retirement = TRUE]
    BY <2>1 DEF QualInv, QualTypes, QualRec
  <2>2. CASE qual' = [qual EXCEPT !.retirement = TRUE, !.safe = FALSE, !.err = TRUE]
    BY <2>2 DEF QualInv, QualTypes, QualRec
  <2> QED BY <2>1, <2>2 DEF Retire
<1>4. JournaledInv'
  BY <1>1, <1>2 DEF QualInv, QualTypes, JournaledInv, CleanupFacts, Untouched
<1>5. QualTypes' /\ StepsInv' /\ EndingInv'
  BY <1>1, <1>2, <1>3 DEF QualInv, QualTypes, StepsInv, EndingInv, Observing, Ending, CleanupFacts
<1> QED BY <1>4, <1>5 DEF QualInv

LEMMA QualStep == ASSUME QualInv, QualNext PROVE QualInv'
  BY PhaseRuns, PhaseClaimed, Booted, Verified, InventoryMade, VMStopped, HostListed, RetireRecorded, Retired, TerminalWritten,
     PhaseDead, StageRecorded, Executed DEF QualNext

LEMMA QualKept == ASSUME QualInv, UNCHANGED qualVars PROVE QualInv'
  BY DEF qualVars, QualInv, QualTypes, StepsInv, EndingInv, JournaledInv, Observed, AllObserved, Untouched
LEMMA QualBegun == ASSUME QualInit PROVE QualInv
<1>1. NoQual \in QualRec
  BY DEF NoQual, QualRec
<1>2. qpc = "idle" /\ recorded = FALSE /\ qual \in QualRec /\ qjournal = FALSE /\ Untouched /\ terminal = "none"
  BY <1>1 DEF QualInit, Untouched
<1>3. QualTypes
  BY <1>2 DEF QualTypes, Untouched
<1>4. StepsInv /\ EndingInv
  BY <1>2 DEF StepsInv, EndingInv, Observing, Ending
<1>5. JournaledInv
  BY <1>2 DEF JournaledInv, Untouched
<1> QED BY <1>3, <1>4, <1>5 DEF QualInv

(******************************* the install's progress ******************************)
\* What the latest event accepted and the longest gap so far say of the stamps S met: the mark is
\* the latest stamp, the gap is a silence among them up to the order's tolerance, and a silence
\* among them longer than the tolerance is after the mark or within the gap.
Measured(S, m, g) ==
    /\ S \subseteq Nat \ {0} /\ m \in Nat /\ g \in Nat
    /\ S = {} => m = 0 /\ g = 0
    /\ S # {} => m \in S /\ \A t \in S : t <= m
    /\ g > 0 => \E u, x \in S : g = x - u /\ x <= m /\ \A t \in S : t <= u \/ t >= x - Tolerance
    /\ \A a \in S, b \in Int : (b - a > Tolerance /\ \A t \in S : t <= a \/ t >= b) => m = a \/ g >= b - a

LEMMA MeasuredOn ==
    ASSUME NEW S, NEW m, NEW g, Measured(S, m, g), NEW x \in Nat \ {0}, m = 0 \/ m - x <= Tolerance,
           NEW n, n = (IF x > m THEN x ELSE m), NEW h, h = (IF m # 0 /\ x - m > g THEN x - m ELSE g)
    PROVE  Measured(S \cup {x}, n, h)
<1>1. /\ S \subseteq Nat \ {0} /\ m \in Nat /\ g \in Nat /\ Tolerance \in Nat
      /\ S = {} => m = 0 /\ g = 0
      /\ S # {} => m \in S /\ \A t \in S : t <= m
  BY TraceBounds DEF Measured
<1>2. n \in Nat /\ h \in Nat /\ S \cup {x} \subseteq Nat \ {0} /\ n \in S \cup {x}
  BY <1>1
<1>3. \A t \in S \cup {x} : t <= n
  BY <1>1
<1>4. ASSUME h > 0 PROVE \E u, y \in S \cup {x} : h = y - u /\ y <= n /\ \A t \in S \cup {x} : t <= u \/ t >= y - Tolerance
  <2>1. CASE m # 0 /\ x - m > g
    <3>1. m \in S /\ h = x - m /\ x <= n /\ \A t \in S : t <= m
      BY <1>1, <2>1
    <3>2. x >= x - Tolerance
      BY <1>1
    <3> QED BY <3>1, <3>2
  <2>2. CASE ~(m # 0 /\ x - m > g)
    <3>1. PICK u \in S, y \in S : g = y - u /\ y <= m /\ \A t \in S : t <= u \/ t >= y - Tolerance
      BY <1>4, <2>2 DEF Measured
    <3>2. m # 0 /\ u \in Nat /\ y \in Nat
      BY <1>1, <3>1
    <3>3. y <= n /\ x >= y - Tolerance /\ h = y - u
      BY <1>1, <2>2, <3>1, <3>2
    <3> QED BY <3>1, <3>3
  <2> QED BY <2>1, <2>2
<1>5. ASSUME NEW a \in S \cup {x}, NEW b \in Int, b - a > Tolerance, \A t \in S \cup {x} : t <= a \/ t >= b
      PROVE  n = a \/ h >= b - a
  <2>0. a \in Nat /\ h >= g /\ b > a
    BY <1>1, <1>5
  <2>1. CASE a \in S
    <3>1. m = a \/ g >= b - a
      BY <1>5, <2>1 DEF Measured
    <3>2. CASE g >= b - a
      BY <1>1, <1>2, <2>0, <3>2
    <3>3. CASE m = a
      <4>1. x <= a \/ x >= b
        BY <1>5
      <4>2. CASE x <= a
        BY <1>1, <3>3, <4>2
      <4>3. CASE x >= b
        <5>1. m # 0 /\ x - m >= b - a
          BY <1>1, <2>0, <2>1, <3>3, <4>3
        <5> QED BY <1>1, <1>2, <2>0, <5>1
      <4> QED BY <4>1, <4>2, <4>3
    <3> QED BY <3>1, <3>2, <3>3
  <2>2. CASE a \notin S
    <3>1. a = x
      BY <2>2
    <3>2. CASE S = {}
      BY <1>1, <3>1, <3>2
    <3>3. CASE S # {}
      <4>1. m \in S /\ (m <= a \/ m >= b) /\ m # 0
        BY <1>1, <1>5, <3>3
      <4>2. m <= a
        BY <1>1, <1>5, <2>0, <3>1, <4>1
      <4> QED BY <1>1, <3>1, <4>2
    <3> QED BY <3>2, <3>3
  <2> QED BY <2>1, <2>2
<1> QED BY <1>2, <1>3, <1>4, <1>5 DEF Measured

\* What is measured is true of the silences.
Silent(S, e, d) == \E a \in S, b \in S \cup {e} : b - a > d /\ \A t \in S : t <= a \/ t >= b
LEMMA MeasuredTold ==
    ASSUME NEW S, NEW m, NEW g, Measured(S, m, g), NEW e \in Int
    PROVE  /\ g > Threshold => Silent(S, e, Threshold - Tolerance)
           /\ m # 0 /\ e - m > Threshold => Silent(S, e, Threshold - Tolerance)
           /\ Silent(S, e, Threshold) => g > Threshold \/ (m # 0 /\ e - m > Threshold)
<1>1. /\ S \subseteq Nat \ {0} /\ m \in Nat /\ g \in Nat /\ Tolerance \in Nat /\ Threshold \in Nat /\ Tolerance <= Threshold
      /\ S = {} => m = 0 /\ g = 0
      /\ S # {} => m \in S /\ \A t \in S : t <= m
  BY TraceBounds DEF Measured
<1>2. ASSUME g > Threshold PROVE Silent(S, e, Threshold - Tolerance)
  <2>1. PICK u \in S, x \in S : g = x - u /\ x <= m /\ \A t \in S : t <= u \/ t >= x - Tolerance
    BY <1>1, <1>2 DEF Measured
  <2> DEFINE later == {t \in S : t > u}
  <2>2. later \subseteq Nat /\ x \in later
    <3>1. x \in Nat /\ u \in Nat /\ x > u
      BY <1>1, <1>2, <2>1
    <3> QED BY <1>1, <3>1
  <2>3. PICK b \in later : \A t \in later : b <= t
    <3> HIDE DEF later
    <3> QED BY <2>2, LeastNat
  <2>4. b \in S /\ b > u /\ b >= x - Tolerance /\ \A t \in S : t <= u \/ t >= b
    BY <1>1, <2>1, <2>3
  <2>5. b - u > Threshold - Tolerance
    BY <1>1, <1>2, <2>1, <2>4
  <2> QED BY <2>4, <2>5 DEF Silent
<1>3. ASSUME m # 0, e - m > Threshold PROVE Silent(S, e, Threshold - Tolerance)
  <2>1. m \in S /\ \A t \in S : t <= m
    BY <1>1, <1>3
  <2>2. e - m > Threshold - Tolerance
    BY <1>1, <1>3
  <2> QED BY <2>1, <2>2 DEF Silent
<1>4. ASSUME Silent(S, e, Threshold) PROVE g > Threshold \/ (m # 0 /\ e - m > Threshold)
  <2>1. PICK a \in S, b \in S \cup {e} : b - a > Threshold /\ \A t \in S : t <= a \/ t >= b
    BY <1>4 DEF Silent
  <2>2. a \in Nat /\ a # 0 /\ b \in Int /\ b - a > Tolerance
    BY <1>1, <2>1
  <2>3. m = a \/ g >= b - a
    BY <2>1, <2>2 DEF Measured
  <2>4. CASE g >= b - a
    BY <1>1, <2>1, <2>2, <2>4
  <2>5. CASE m = a
    <3>1. b \notin S
      BY <1>1, <2>1, <2>2, <2>5
    <3> QED BY <2>1, <2>2, <2>5, <3>1
  <2> QED BY <2>3, <2>4, <2>5
<1> QED BY <1>2, <1>3, <1>4

EventRec == [use : Nat, id : Nat, event : Events, at : Nat]
Progress(p) ==
    \E m, g, s, c, n, t, a, u :
        u \in BOOLEAN /\ p = [mark |-> m, gap |-> g, unbound |-> u, states |-> s, cut |-> c, shorts |-> n, transfer |-> t, active |-> a]
LEMMA Larger == ASSUME NEW x \in Int, NEW y \in Int PROVE Max({x, y}) = IF y > x THEN y ELSE x
<1> DEFINE z == IF y > x THEN y ELSE x
<1>1. z \in {x, y} /\ \A w \in {x, y} : z >= w
  OBVIOUS
<1>2. \A v \in {x, y} : (\A w \in {x, y} : v >= w) => v = z
  OBVIOUS
<1>3. Max({x, y}) = CHOOSE v \in {x, y} : \A w \in {x, y} : v >= w
  BY DEF Max
<1> HIDE DEF z
<1>4. Max({x, y}) = z
  BY <1>1, <1>2, <1>3
<1> QED BY <1>4 DEF z

EventFrom(r, p, e, q) == r.now \in Int /\ Progress(p) /\ e \in EventRec /\ q = RegistryEvent(r, p, e)
EventAccepted(p, e, q) ==
    /\ ~p.unbound /\ (p.mark = 0 \/ p.mark - e.at <= Tolerance)
    /\ q.mark = Mark(p, e) /\ q.gap = IF p.mark # 0 THEN Max({p.gap, e.at - p.mark}) ELSE p.gap
EventKept(p, e, q) == \A x : x # e.id /\ (x \in p.cut \/ x \notin DOMAIN p.states) => x \in q.cut \/ x \notin DOMAIN q.states
\* One event more: what is accepted is measured from the mark, and what may be cut short is kept.
LEMMA EventTaken ==
    ASSUME NEW r, r.now \in Int, NEW p, Progress(p), NEW e \in EventRec,
           NEW q, q = RegistryEvent(r, p, e)
    PROVE  /\ Progress(q)
           /\ ~q.unbound => EventAccepted(p, e, q)
           /\ EventKept(p, e, q)
           /\ e.event = "send_short" /\ ~(e.at > r.now) => e.id \in q.cut
<1>1. PICK m, g, s, c, n, t, a, u :
          u \in BOOLEAN /\ p = [mark |-> m, gap |-> g, unbound |-> u, states |-> s, cut |-> c, shorts |-> n, transfer |-> t, active |-> a]
  BY DEF Progress
<1>2. p.states = s /\ p.cut = c /\ p.unbound = u /\ p.mark = m /\ p.gap = g
  BY <1>1
<1>3. CASE e.at > r.now
  <2>1. q = [p EXCEPT !.unbound = TRUE]
    BY <1>3 DEF RegistryEvent
  <2>2. q = [mark |-> m, gap |-> g, unbound |-> TRUE, states |-> s, cut |-> c, shorts |-> n, transfer |-> t, active |-> a]
    BY <1>1, <2>1
  <2>3. Progress(q)
    BY <2>2, TRUE \in BOOLEAN DEF Progress
  <2>4. q.unbound /\ q.cut = c /\ q.states = s
    BY <2>2
  <2>5. EventKept(p, e, q)
    BY <1>2, <2>4 DEF EventKept
  <2> QED BY <1>3, <2>3, <2>4, <2>5
<1>4. CASE ~(e.at > r.now)
  <2>1. PICK acc \in BOOLEAN : acc = (e.at \in Created..r.end /\ (p.mark = 0 \/ p.mark - e.at <= Tolerance))
    OBVIOUS
  <2>2. PICK m2, g2, s2, c2, n2, t2, a2 :
           /\ m2 = IF acc THEN Mark(p, e) ELSE p.mark
           /\ g2 = IF acc /\ p.mark # 0 THEN Max({p.gap, e.at - p.mark}) ELSE p.gap
           /\ s2 = IF e.event # "received" /\ Closed(p, e.id) THEN p.states ELSE [x \in DOMAIN p.states \cup {e.id} |-> IF x = e.id THEN e.event ELSE p.states[x]]
           /\ c2 = IF e.event = "received" THEN Cut(p, e) \ {e.id} ELSE Cut(p, e)
           /\ n2 = IF e.event = "send_short" THEN p.shorts + 1 ELSE p.shorts
           /\ t2 = IF Transferred(p, e) THEN Max({p.transfer, e.at}) ELSE p.transfer
           /\ a2 = IF acc /\ r.output # 0 /\ e.at >= r.output THEN p.active + 1 ELSE p.active
    OBVIOUS
  <2>3. q = [mark |-> m2, gap |-> g2, unbound |-> p.unbound \/ ~acc, states |-> s2, cut |-> c2, shorts |-> n2, transfer |-> t2, active |-> a2]
    BY <1>4, <2>1, <2>2 DEF RegistryEvent
  <2>4. Progress(q)
    <3>1. (p.unbound \/ ~acc) \in BOOLEAN
      OBVIOUS
    <3> QED BY <2>3, <3>1 DEF Progress
  <2>5. q.mark = m2 /\ q.gap = g2 /\ q.unbound = (p.unbound \/ ~acc) /\ q.states = s2 /\ q.cut = c2
    BY <2>3
  <2>6. c \subseteq Cut(p, e) /\ (e.event = "send_short" => e.id \in Cut(p, e))
    BY <1>2 DEF Cut
  <2>7. DOMAIN s2 \subseteq DOMAIN s \cup {e.id}
    BY <1>2, <2>2
  <2>8. EventKept(p, e, q)
    <3>1. \A x : x # e.id => (x \in p.cut => x \in q.cut) /\ (x \notin DOMAIN p.states => x \notin DOMAIN q.states)
      BY <1>2, <2>2, <2>5, <2>6, <2>7
    <3> QED BY <3>1 DEF EventKept
  <2>9. e.event = "send_short" => e.id \in q.cut
    BY <2>2, <2>5, <2>6
  <2>10. ASSUME ~q.unbound PROVE ~p.unbound /\ acc /\ q.mark = Mark(p, e) /\ q.gap = IF p.mark # 0 THEN Max({p.gap, e.at - p.mark}) ELSE p.gap
    BY <2>2, <2>5, <2>10
  <2>11. ~q.unbound => EventAccepted(p, e, q)
    BY <2>1, <2>10 DEF EventAccepted
  <2> QED BY <1>4, <2>4, <2>8, <2>9, <2>11
<1> QED BY <1>3, <1>4

\* The same, apart.
LEMMA EventProgress == ASSUME NEW r, NEW p, NEW e, NEW q, EventFrom(r, p, e, q) PROVE Progress(q)
BY EventTaken DEF EventFrom
LEMMA EventMeasured == ASSUME NEW r, NEW p, NEW e, NEW q, EventFrom(r, p, e, q), ~q.unbound PROVE EventAccepted(p, e, q)
BY EventTaken DEF EventFrom
LEMMA EventDoubt ==
    ASSUME NEW r, NEW p, NEW e, NEW q, EventFrom(r, p, e, q), NEW x, x # e.id, x \in p.cut \/ x \notin DOMAIN p.states
    PROVE  x \in q.cut \/ x \notin DOMAIN q.states
<1>1. EventKept(p, e, q)
  BY EventTaken DEF EventFrom
<1> QED BY <1>1 DEF EventKept
LEMMA EventCut ==
    ASSUME NEW r, NEW p, NEW e, NEW q, EventFrom(r, p, e, q), e.event = "send_short", ~(e.at > r.now)
    PROVE  e.id \in q.cut
BY EventTaken DEF EventFrom

\* What was read up to the k-th event.
ProgressAt(r, c, k) == IF k < r.from THEN NoProgress ELSE RegistryEvent(r, c[k - 1], trace[k])
LEMMA ProgressIs ==
    ASSUME NEW r, r.from \in Nat, r.from > 0, NEW j \in Nat
    PROVE  \E c : c = [i \in 0 .. j |-> ProgressAt(r, c, i)] /\ ProgressTo(r, j) = c[j]
<1> DEFINE P == {n \in Nat : \E c : c = [i \in 0 .. n |-> ProgressAt(r, c, i)]}
<1>1. 0 \in P
  <2> DEFINE d == [i \in 0 .. 0 |-> NoProgress]
  <2>1. d = [i \in 0 .. 0 |-> ProgressAt(r, d, i)]
    BY DEF ProgressAt
  <2> QED BY <2>1
<1>2. ASSUME NEW n \in Nat, n \in P PROVE n + 1 \in P
  <2>1. PICK c : c = [i \in 0 .. n |-> ProgressAt(r, c, i)]
    BY <1>2
  <2> DEFINE d == [i \in 0 .. n + 1 |-> IF i = n + 1 THEN ProgressAt(r, c, i) ELSE c[i]]
  <2>2. ASSUME NEW i \in 0 .. n + 1 PROVE ProgressAt(r, d, i) = ProgressAt(r, c, i)
    <3>1. i # 0 => i - 1 \in 0 .. n + 1 /\ i - 1 # n + 1
      OBVIOUS
    <3>2. i # 0 => d[i - 1] = c[i - 1]
      BY <3>1
    <3> HIDE DEF d
    <3> QED BY <3>2 DEF ProgressAt
  <2>3. \A i \in 0 .. n + 1 : d[i] = ProgressAt(r, c, i)
    BY <2>1
  <2>4. d = [i \in 0 .. n + 1 |-> ProgressAt(r, d, i)]
    BY <2>2, <2>3
  <2> HIDE DEF d
  <2>5. \E e : e = [i \in 0 .. n + 1 |-> ProgressAt(r, e, i)]
    BY <2>4
  <2> QED BY <2>5
<1>3. j \in P
  <2> HIDE DEF P
  <2> QED BY <1>1, <1>2, AllNats
<1>4. \E c : c = [i \in 0 .. j |-> ProgressAt(r, c, i)]
  BY <1>3
<1>5. ProgressTo(r, j) = (CHOOSE c : c = [i \in 0 .. j |-> ProgressAt(r, c, i)])[j]
  BY DEF ProgressTo, ProgressAt
<1> QED BY <1>4, <1>5

\* The registry's log and the requests in service: an id is given once while the registry is open,
\* so that between the events of one request no event has its id, and a request that sent too
\* little only completes.
LogTypes(t, hs) == hs \subseteq EventRec /\ t \in Seq(EventRec)
Served(t, hs, c, s, n) ==
    /\ \A h \in hs : h.id <= s /\ h.use <= n /\ h.at <= c
    /\ \A g, h \in hs : g.id = h.id \/ g.use = h.use => g = h
    /\ \A i \in 1 .. Len(t) : t[i].use <= n /\ t[i].at # 0 /\ t[i].at <= c
InService(t, h) ==
    /\ \A i \in 1 .. Len(t) : t[i].use = h.use => t[i].id = h.id
    /\ \A i, k \in 1 .. Len(t) : i < k /\ t[i].use = h.use /\ t[k].id = h.id => t[k].use = h.use
    /\ \A i \in 1 .. Len(t) : t[i].use = h.use /\ t[i].event = "send_short" =>
          /\ \A k \in 1 .. Len(t) : i < k => t[k].use # h.use
          /\ (h.event = "send_short" /\ h.at = 0) \/ (h.event = "completed" /\ h.at >= t[i].at)
Shorted(t, j, i) ==
    t[j].use = t[i].use /\ t[j].event = "send_short" /\ t[i].event = "completed" =>
        /\ t[j].id = t[i].id /\ t[j].at <= t[i].at
        /\ \A k \in 1 .. Len(t) : j < k /\ k < i => t[k].id # t[i].id
AllShorted(t) == \A j, i \in 1 .. Len(t) : j < i => Shorted(t, j, i)
TraceTypes == clock \in Nat \ {0} /\ sequence \in Nat /\ requests \in Nat /\ ended \in Nat /\ LogTypes(trace, handlers)
TraceInv ==
    /\ TraceTypes /\ Served(trace, handlers, clock, sequence, requests)
    /\ (\A h \in handlers : InService(trace, h)) /\ AllShorted(trace)

\* A read.
LEMMA ReadIs ==
    ASSUME TraceInv, NEW F, NEW O, NEW r \in Reads(F, O)
    PROVE  r.now \in Int /\ r.end \in Int /\ r.from \in F
<1>1. PICK n \in Created..clock : r \in [now : {n}, from : F, end : Ends(n), output : {o \in O : o <= n}, changed : BOOLEAN]
  BY DEF Reads
<1>2. r.now = n /\ r.end \in Ends(n) /\ r.from \in F
  BY <1>1
<1>3. r.end = n \/ r.end = ended
  BY <1>2 DEF Ends
<1> QED BY <1>2, <1>3, TraceBounds DEF TraceInv, TraceTypes, LogTypes

LEMMA NoneYet == Progress(NoProgress) /\ NoProgress.mark = 0 /\ NoProgress.gap = 0 /\ DOMAIN NoProgress.states = {}
<1>1. NoProgress.mark = 0 /\ NoProgress.gap = 0 /\ DOMAIN NoProgress.states = {}
  BY DEF NoProgress
<1>2. FALSE \in BOOLEAN
  OBVIOUS
<1> QED BY <1>1, <1>2 DEF NoProgress, Progress

\* Every event read so far was measured, unless one could not be placed.
LEMMA AllMeasured ==
    ASSUME TraceInv, NEW r, r.from = 1, r.now \in Int, r.end \in Int, NEW p, p = RegistryProgress(r), ~p.unbound
    PROVE  Measured({trace[i].at : i \in 1 .. Len(trace)}, p.mark, p.gap)
<1>1. trace \in Seq(EventRec) /\ Len(trace) \in Nat
  BY DEF TraceInv, TraceTypes, LogTypes
<1>2. PICK c : c = [k \in 0 .. Len(trace) |-> ProgressAt(r, c, k)] /\ p = c[Len(trace)]
  BY <1>1, ProgressIs DEF RegistryProgress
<1> DEFINE S(n) == {trace[i].at : i \in 1 .. n}
<1> DEFINE Good(q, n) == Progress(q) /\ (~q.unbound => Measured(S(n), q.mark, q.gap))
<1> DEFINE P == {n \in Nat : n <= Len(trace) => Good(c[n], n)}
<1>3. 0 \in P
  <2>1. c[0] = NoProgress
    BY <1>1, <1>2 DEF ProgressAt
  <2>2. S(0) = {}
    OBVIOUS
  <2>3. Measured({}, 0, 0)
    BY DEF Measured
  <2>4. Good(NoProgress, 0)
    <3> HIDE DEF S
    <3> QED BY <2>2, <2>3, NoneYet
  <2> HIDE DEF Good
  <2> QED BY <2>1, <2>4
<1>4. ASSUME NEW n \in Nat, n \in P PROVE n + 1 \in P
  <2> SUFFICES ASSUME n + 1 <= Len(trace) PROVE Good(c[n + 1], n + 1)
    OBVIOUS
  <2>1. PICK q : q = c[n] /\ Good(q, n)
    <3> HIDE DEF Good
    <3> QED BY <1>1, <1>4
  <2>a. n + 1 \in 0 .. Len(trace) /\ (n + 1) - 1 = n /\ ~(n + 1 < 1) /\ n + 1 \in 1 .. Len(trace)
    BY <1>1
  <2>2. PICK e \in EventRec : e = trace[n + 1]
    BY <1>1, <2>a
  <2>3. PICK h : h = RegistryEvent(r, q, e)
    OBVIOUS
  <2>4. c[n + 1] = h
    BY <1>2, <2>1, <2>2, <2>3, <2>a DEF ProgressAt
  <2>5. Progress(q)
    BY <2>1
  <2>6. /\ Progress(h)
        /\ ~h.unbound => /\ ~q.unbound /\ (q.mark = 0 \/ q.mark - e.at <= Tolerance)
                         /\ h.mark = Mark(q, e) /\ h.gap = IF q.mark # 0 THEN Max({q.gap, e.at - q.mark}) ELSE q.gap
    <3>1. EventFrom(r, q, e, h)
      BY <2>3, <2>5 DEF EventFrom
    <3>2. Progress(h)
      BY <3>1, EventProgress
    <3>3. ~h.unbound => EventAccepted(q, e, h)
      BY <3>1, EventMeasured
    <3> QED BY <3>2, <3>3 DEF EventAccepted
  <2>7. ASSUME ~h.unbound PROVE Measured(S(n + 1), h.mark, h.gap)
    <3>1. Measured(S(n), q.mark, q.gap)
      BY <2>1, <2>6, <2>7
    <3>2. S(n + 1) = S(n) \cup {e.at}
      <4>1. 1 .. n + 1 = (1 .. n) \cup {n + 1}
        OBVIOUS
      <4> QED BY <2>2, <4>1
    <3> HIDE DEF S
    <3>3. q.mark \in Nat /\ q.gap \in Nat /\ e.at \in Nat /\ e.at # 0
      BY <2>2, <2>a, <3>1 DEF Measured, EventRec, TraceInv, Served
    <3>4. h.mark = IF e.at > q.mark THEN e.at ELSE q.mark
      BY <2>6, <2>7 DEF Mark
    <3>5. Max({q.gap, e.at - q.mark}) = IF e.at - q.mark > q.gap THEN e.at - q.mark ELSE q.gap
      <4>1. q.gap \in Int /\ e.at - q.mark \in Int
        BY <3>3
      <4> QED BY <4>1, Larger
    <3>6. h.gap = IF q.mark # 0 /\ e.at - q.mark > q.gap THEN e.at - q.mark ELSE q.gap
      BY <2>6, <2>7, <3>5
    <3>7. Measured(S(n) \cup {e.at}, h.mark, h.gap)
      BY <2>6, <2>7, <3>1, <3>3, <3>4, <3>6, MeasuredOn
    <3> QED BY <3>2, <3>7
  <2> HIDE DEF S
  <2> QED BY <2>4, <2>6, <2>7
<1>5. Len(trace) \in P
  <2> HIDE DEF P
  <2> QED BY <1>1, <1>3, <1>4, AllNats
<1> QED BY <1>1, <1>2, <1>5

LEMMA StallTold == ASSUME TraceInv PROVE StallTrue
<1> SUFFICES ASSUME NEW r \in Reads({1, Len(trace) + 1}, {Created})
             PROVE  /\ IndicationFor(r) = "REGISTRY_GAP_OVER_THRESHOLD" => Silence(r, Threshold - Tolerance)
                    /\ IndicationFor(r) \in {"GUEST_QUIET_WHILE_REGISTRY_ACTIVE", "NO_STALL_IN_WINDOW"} => ~Silence(r, Threshold)
  BY DEF StallTrue
<1>1. r.now \in Int /\ r.end \in Int /\ r.from \in {1, Len(trace) + 1}
  BY ReadIs
<1>2. PICK p : p = RegistryProgress(r)
  OBVIOUS
<1>3. CASE Insufficient(r, p)
  BY <1>2, <1>3 DEF IndicationFor
<1>4. CASE ~Insufficient(r, p)
  <2>1. r.from = 1 /\ ~p.unbound
    <3>1. Len(trace) \in Nat
      BY DEF TraceInv, TraceTypes, LogTypes
    <3> QED BY <1>1, <1>4, <3>1 DEF Insufficient
  <2> DEFINE S == {trace[i].at : i \in 1 .. Len(trace)}
  <2>2. Measured(S, p.mark, p.gap)
    BY <1>1, <1>2, <2>1, AllMeasured
  <2>3. \A d : Silence(r, d) <=> Silent(S, r.end, d)
    <3>1. DOMAIN trace = 1 .. Len(trace)
      BY DEF TraceInv, TraceTypes, LogTypes
    <3> QED BY <3>1 DEF Silence, Silent
  <2> HIDE DEF S
  <2>4. p.mark \in Nat /\ p.gap \in Nat /\ Threshold \in Nat
    BY <2>2, TraceBounds DEF Measured
  <2>5. (\E g \in Gaps(r, p) : g > Threshold) <=> (p.gap > Threshold \/ (p.mark # 0 /\ r.end - p.mark > Threshold))
    BY <1>1, <2>4 DEF Gaps
  <2>6. IndicationFor(r) = "REGISTRY_GAP_OVER_THRESHOLD" => \E g \in Gaps(r, p) : g > Threshold
    BY <1>2, <1>4 DEF IndicationFor
  <2>7. IndicationFor(r) \in {"GUEST_QUIET_WHILE_REGISTRY_ACTIVE", "NO_STALL_IN_WINDOW"} => ~\E g \in Gaps(r, p) : g > Threshold
    BY <1>2, <1>4 DEF IndicationFor
  <2> QED BY <1>1, <2>2, <2>3, <2>5, <2>6, <2>7, MeasuredTold
<1> QED BY <1>3, <1>4

LEMMA TransferTold == ASSUME TraceInv PROVE TransferTrue
<1>0. trace \in Seq(EventRec) /\ Len(trace) \in Nat /\ DOMAIN trace = 1 .. Len(trace)
  BY DEF TraceInv, TraceTypes, LogTypes
<1> SUFFICES ASSUME NEW j \in 1 .. Len(trace), NEW i \in 1 .. Len(trace), j < i, trace[j].use = trace[i].use,
                    trace[j].event = "send_short", trace[i].event = "completed", NEW r \in Reads(1..i, {0}), ~(trace[i].at > r.now)
             PROVE  ~Transferred(ProgressTo(r, i - 1), trace[i])
  BY <1>0 DEF TransferTrue
<1>1. r.now \in Int /\ r.from \in 1 .. i
  BY ReadIs
<1>2. PICK x : x = trace[i].id
  OBVIOUS
<1>3. trace[j].id = x /\ trace[j].at <= trace[i].at /\ \A k \in 1 .. Len(trace) : j < k /\ k < i => trace[k].id # x
  BY <1>2 DEF TraceInv, AllShorted, Shorted
<1>4. i - 1 \in Nat /\ r.from \in Nat /\ r.from > 0
  BY <1>1
<1>5. PICK c : c = [k \in 0 .. i - 1 |-> ProgressAt(r, c, k)] /\ ProgressTo(r, i - 1) = c[i - 1]
  BY <1>4, ProgressIs
<1>6. ASSUME NEW k \in 1 .. i - 1 PROVE trace[k] \in EventRec /\ k \in 1 .. Len(trace)
  BY <1>0
<1> DEFINE P == {n \in Nat : n <= i - 1 => Progress(c[n])}
<1>7. 0 \in P
  BY <1>4, <1>5, NoneYet DEF ProgressAt
<1>8. ASSUME NEW n \in Nat, n \in P PROVE n + 1 \in P
  <2> SUFFICES ASSUME n + 1 <= i - 1 PROVE Progress(c[n + 1])
    OBVIOUS
  <2>1. n + 1 \in 0 .. i - 1 /\ (n + 1) - 1 = n /\ n + 1 \in 1 .. i - 1 /\ Progress(c[n])
    BY <1>8
  <2>2. c[n + 1] = IF n + 1 < r.from THEN NoProgress ELSE RegistryEvent(r, c[n], trace[n + 1])
    BY <1>5, <2>1 DEF ProgressAt
  <2>3. PICK e \in EventRec : e = trace[n + 1]
    BY <1>6, <2>1
  <2>4. PICK p, q : p = c[n] /\ q = RegistryEvent(r, p, e)
    OBVIOUS
  <2>5. EventFrom(r, p, e, q)
    BY <1>1, <2>1, <2>4 DEF EventFrom
  <2>6. Progress(q)
    BY <2>5, EventProgress
  <2> QED BY <2>2, <2>3, <2>4, <2>6, NoneYet
<1>9. ASSUME NEW n \in 0 .. i - 1 PROVE Progress(c[n])
  <2>1. n \in P
    <3> HIDE DEF P
    <3> QED BY <1>7, <1>8, AllNats
  <2> QED BY <2>1
\* From the short delivery on the request is known to be cut short, or not known at all.
<1> DEFINE Doubted(p) == x \in p.cut \/ x \notin DOMAIN p.states
<1> DEFINE Q == {n \in Nat : j + n <= i - 1 => Doubted(c[j + n])}
<1>10. 0 \in Q
  <2>1. j + 0 = j /\ j \in 0 .. i - 1 /\ j \in 1 .. i - 1 /\ j - 1 \in 0 .. i - 1
    OBVIOUS
  <2>2. c[j] = IF j < r.from THEN NoProgress ELSE RegistryEvent(r, c[j - 1], trace[j])
    BY <1>5, <2>1 DEF ProgressAt
  <2>3. PICK e \in EventRec : e = trace[j]
    BY <1>6, <2>1
  <2>4. ~(e.at > r.now) /\ e.event = "send_short" /\ e.id = x
    <3>1. trace[i] \in EventRec
      BY <1>0
    <3> QED BY <1>1, <1>3, <2>3, <3>1 DEF EventRec
  <2>5. CASE j < r.from
    BY <2>1, <2>2, <2>5, NoneYet
  <2>6. CASE ~(j < r.from)
    <3>1. PICK p, q : p = c[j - 1] /\ q = RegistryEvent(r, p, e)
      OBVIOUS
    <3>2. Progress(p)
      BY <1>9, <2>1, <3>1
    <3>3. e.id \in q.cut
      <4>1. EventFrom(r, p, e, q)
        BY <1>1, <3>1, <3>2 DEF EventFrom
      <4> QED BY <2>4, <4>1, EventCut
    <3> QED BY <2>1, <2>2, <2>3, <2>4, <2>6, <3>1, <3>3
  <2> QED BY <2>5, <2>6
<1>11. ASSUME NEW n \in Nat, n \in Q PROVE n + 1 \in Q
  <2> SUFFICES ASSUME j + (n + 1) <= i - 1 PROVE Doubted(c[j + (n + 1)])
    OBVIOUS
  <2>1. PICK k \in 1 .. i - 1 : k = j + (n + 1) /\ k - 1 = j + n /\ k - 1 \in 0 .. i - 1 /\ k \in 0 .. i - 1 /\ j < k /\ k < i
    OBVIOUS
  <2>2. c[k] = IF k < r.from THEN NoProgress ELSE RegistryEvent(r, c[k - 1], trace[k])
    BY <1>5, <2>1 DEF ProgressAt
  <2>3. PICK e \in EventRec : e = trace[k]
    BY <1>6, <2>1
  <2>4. e.id # x
    BY <1>3, <1>6, <2>1, <2>3
  <2>5. PICK p, q : p = c[k - 1] /\ q = RegistryEvent(r, p, e)
    OBVIOUS
  <2>6. Progress(p) /\ Doubted(p)
    BY <1>9, <1>11, <2>1, <2>5
  <2>7. Doubted(q)
    <3>1. EventFrom(r, p, e, q)
      BY <1>1, <2>5, <2>6 DEF EventFrom
    <3> QED BY <2>4, <2>6, <3>1, EventDoubt
  <2> QED BY <2>1, <2>2, <2>3, <2>5, <2>7, NoneYet
<1>12. Doubted(c[i - 1])
  <2>1. (i - 1) - j \in Nat /\ j + ((i - 1) - j) = i - 1
    OBVIOUS
  <2>2. (i - 1) - j \in Q
    <3> HIDE DEF Q
    <3> QED BY <1>10, <1>11, <2>1, AllNats
  <2> HIDE DEF Doubted
  <2> QED BY <2>1, <2>2
<1> QED BY <1>2, <1>5, <1>12 DEF Transferred, Cut, Uncovered

\* A request that is received: its number and its id are new.
LEMMA ReceiveServed ==
    ASSUME NEW t, NEW hs, NEW c \in Nat, NEW s \in Nat, NEW n \in Nat, LogTypes(t, hs), Served(t, hs, c, s, n),
           \A h \in hs : InService(t, h),
           NEW h, h = [use |-> n + 1, id |-> s + 1, event |-> "received", at |-> c], NEW gs, gs = hs \cup {h}
    PROVE  LogTypes(t, gs) /\ Served(t, gs, c, s + 1, n + 1) /\ \A g \in gs : InService(t, g)
<1>1. h \in EventRec /\ h.use = n + 1 /\ h.id = s + 1 /\ h.at = c
  BY DEF EventRec, Events
<1>2. t \in Seq(EventRec) /\ hs \subseteq EventRec /\ Len(t) \in Nat /\ \A i \in 1 .. Len(t) : t[i] \in EventRec
  BY DEF LogTypes
<1>3. \A i \in 1 .. Len(t) : t[i].use # h.use /\ t[i].use <= n + 1
  BY <1>1, <1>2 DEF Served, EventRec
<1>4. \A g \in hs : g.use # h.use /\ g.id # h.id /\ g.id <= s + 1 /\ g.use <= n + 1
  BY <1>1, <1>2 DEF Served, EventRec
<1>5. InService(t, h)
  BY <1>3 DEF InService
<1>6. \A g \in gs : g.id <= s + 1 /\ g.use <= n + 1 /\ g.at <= c
  BY <1>1, <1>4 DEF Served
<1>7. \A g, f \in gs : g.id = f.id \/ g.use = f.use => g = f
  BY <1>4 DEF Served
<1> QED BY <1>1, <1>2, <1>3, <1>5, <1>6, <1>7 DEF LogTypes, Served

LogKept(t, hs, c, s, n) ==
    /\ c \in Nat /\ s \in Nat /\ n \in Nat /\ LogTypes(t, hs) /\ Served(t, hs, c, s, n)
    /\ (\A h \in hs : InService(t, h)) /\ AllShorted(t)
\* An event that is written: the log with it.
Written(t, hs, h, f, u, gs) ==
    /\ h \in hs /\ h.at # 0 /\ u = Append(t, h) /\ f \in EventRec /\ f.use = h.use /\ f.id = h.id /\ f.event = h.event /\ f.at = 0
    /\ \A g \in gs : (g \in hs /\ g # h) \/ (g = f /\ Following(h.event) # {})
LEMMA WriteServed ==
    ASSUME NEW t, NEW hs, NEW c, NEW s, NEW n, LogKept(t, hs, c, s, n),
           NEW h, NEW f, NEW u, NEW gs, Written(t, hs, h, f, u, gs)
    PROVE  LogKept(u, gs, c, s, n)
<1>a. /\ h \in hs /\ h.at # 0 /\ u = Append(t, h) /\ f \in EventRec /\ f.use = h.use /\ f.id = h.id /\ f.event = h.event /\ f.at = 0
      /\ \A g \in gs : (g \in hs /\ g # h) \/ (g = f /\ Following(h.event) # {})
  BY DEF Written
<1>0. /\ c \in Nat /\ s \in Nat /\ n \in Nat /\ LogTypes(t, hs) /\ Served(t, hs, c, s, n)
      /\ (\A g \in hs : InService(t, g)) /\ AllShorted(t)
  BY DEF LogKept
<1>1. t \in Seq(EventRec) /\ hs \subseteq EventRec /\ Len(t) \in Nat /\ \A i \in 1 .. Len(t) : t[i] \in EventRec
  BY <1>a, <1>0 DEF LogTypes
<1>2. PICK m \in Nat : m = Len(t) + 1
  BY <1>a, <1>1
<1>3. u \in Seq(EventRec) /\ Len(u) = m /\ u[m] = h /\ (\A i \in 1 .. Len(t) : u[i] = t[i]) /\ m \in 1 .. m
  BY <1>a, <1>1, <1>2
<1>4. \A i \in 1 .. m : (i = m /\ u[i] = h) \/ (i \in 1 .. Len(t) /\ i < m /\ u[i] = t[i])
  BY <1>1, <1>2, <1>3
<1>6. h \in EventRec
  BY <1>a, <1>1
<1>7. f \in EventRec /\ f.use = h.use /\ f.id = h.id /\ f.event = h.event /\ f.at = 0
  BY <1>a
<1>8. \A g \in gs : (g \in hs /\ g # h) \/ (g = f /\ Following(h.event) # {})
  BY <1>a
<1>9. LogTypes(u, gs)
  BY <1>1, <1>3, <1>7, <1>8 DEF LogTypes
<1>10. Served(u, gs, c, s, n)
  <2>1. \A g \in gs : g.id <= s /\ g.use <= n /\ g.at <= c
    <3>1. h.id <= s /\ h.use <= n /\ 0 <= c /\ \A g \in hs : g.id <= s /\ g.use <= n /\ g.at <= c
      BY <1>a, <1>0 DEF Served
    <3> QED BY <1>7, <1>8, <3>1
  <2>2. \A g \in hs : g.id = h.id \/ g.use = h.use => g = h
    BY <1>a, <1>0 DEF Served
  <2>3. \A g, k \in gs : g.id = k.id \/ g.use = k.use => g = k
    BY <1>a, <1>0, <1>7, <1>8, <2>2 DEF Served
  <2>4. \A i \in 1 .. Len(u) : u[i].use <= n /\ u[i].at # 0 /\ u[i].at <= c
    BY <1>a, <1>0, <1>3, <1>4 DEF Served
  <2> QED BY <1>a, <1>0, <2>1, <2>3, <2>4 DEF Served
<1>11. \A i \in 1 .. Len(t) : t[i].use = h.use /\ t[i].event = "send_short" => h.event = "completed" /\ h.at >= t[i].at
  BY <1>a, <1>0 DEF InService
<1>12. ASSUME NEW g \in gs PROVE InService(u, g)
  <2>1. CASE g \in hs /\ g # h
    <3>1. g.id # h.id /\ g.use # h.use /\ InService(t, g)
      BY <1>a, <1>0, <2>1 DEF Served
    <3>2. \A i \in 1 .. Len(u) : u[i].use = g.use => u[i].id = g.id
      BY <1>a, <1>0, <1>3, <1>4, <3>1 DEF InService
    <3>3. \A i, k \in 1 .. Len(u) : i < k /\ u[i].use = g.use /\ u[k].id = g.id => u[k].use = g.use
      BY <1>a, <1>0, <1>3, <1>4, <3>1 DEF InService
    <3>4. ASSUME NEW i \in 1 .. Len(u), u[i].use = g.use, u[i].event = "send_short"
          PROVE  /\ \A k \in 1 .. Len(u) : i < k => u[k].use # g.use
                 /\ (g.event = "send_short" /\ g.at = 0) \/ (g.event = "completed" /\ g.at >= u[i].at)
      BY <1>a, <1>0, <1>3, <1>4, <3>1, <3>4 DEF InService
    <3> QED BY <1>a, <1>0, <3>2, <3>3, <3>4 DEF InService
  <2>2. CASE g = f /\ Following(h.event) # {}
    <3>0. h.event # "completed" /\ InService(t, h)
      BY <1>a, <1>0, <2>2 DEF Following
    <3>1. \A i \in 1 .. Len(t) : t[i].use = h.use => t[i].event # "send_short"
      BY <1>11, <3>0
    <3>2. \A i \in 1 .. Len(u) : u[i].use = g.use => u[i].id = g.id
      BY <1>3, <1>4, <1>7, <2>2, <3>0 DEF InService
    <3>3. \A i, k \in 1 .. Len(u) : i < k /\ u[i].use = g.use /\ u[k].id = g.id => u[k].use = g.use
      BY <1>3, <1>4, <1>7, <2>2, <3>0 DEF InService
    <3>4. ASSUME NEW i \in 1 .. Len(u), u[i].use = g.use, u[i].event = "send_short"
          PROVE  /\ \A k \in 1 .. Len(u) : i < k => u[k].use # g.use
                 /\ (g.event = "send_short" /\ g.at = 0) \/ (g.event = "completed" /\ g.at >= u[i].at)
      <4>1. i = m /\ u[i] = h
        BY <1>3, <1>4, <1>7, <2>2, <3>1, <3>4
      <4> QED BY <1>3, <1>7, <2>2, <3>4, <4>1
    <3> QED BY <1>a, <1>0, <3>2, <3>3, <3>4 DEF InService
  <2> QED BY <1>8, <2>1, <2>2
<1>13. ASSUME NEW j \in 1 .. Len(u), NEW i \in 1 .. Len(u), j < i PROVE Shorted(u, j, i)
  <2>1. j \in 1 .. Len(t) /\ u[j] = t[j]
    BY <1>1, <1>2, <1>3, <1>13
  <2>2. CASE i \in 1 .. Len(t) /\ u[i] = t[i]
    <3>1. Shorted(t, j, i)
      BY <1>a, <1>0, <1>13, <2>1, <2>2 DEF AllShorted
    <3>2. \A k \in 1 .. Len(u) : k < i => k \in 1 .. Len(t) /\ u[k] = t[k]
      BY <1>1, <1>3, <1>4, <2>2
    <3> QED BY <2>1, <2>2, <3>1, <3>2 DEF Shorted
  <2>3. CASE i = m /\ u[i] = h
    <3> SUFFICES ASSUME t[j].use = h.use, t[j].event = "send_short", h.event = "completed"
                 PROVE  t[j].id = h.id /\ t[j].at <= h.at /\ \A k \in 1 .. Len(u) : j < k /\ k < i => u[k].id # h.id
      BY <2>1, <2>3 DEF Shorted
    <3>1. InService(t, h)
      BY <1>a, <1>0
    <3>2. t[j].id = h.id
      BY <1>a, <1>0, <2>1, <3>1 DEF InService
    <3>3. t[j].at <= h.at
      BY <1>1, <1>6, <1>11, <2>1 DEF EventRec
    <3>4. ASSUME NEW k \in 1 .. Len(u), j < k, k < i PROVE u[k].id # h.id
      <4>1. k \in 1 .. Len(t) /\ u[k] = t[k]
        BY <1>3, <1>4, <2>3, <3>4
      <4>2. t[k].use # h.use
        BY <1>a, <1>0, <2>1, <3>1, <3>4, <4>1 DEF InService
      <4> QED BY <1>a, <1>0, <2>1, <3>1, <3>4, <4>1, <4>2 DEF InService
    <3> QED BY <3>2, <3>3, <3>4
  <2> QED BY <1>3, <1>4, <2>2, <2>3
<1> QED BY <1>a, <1>0, <1>9, <1>10, <1>12, <1>13 DEF AllShorted, LogKept

\* What comes next of a request, and is stamped.
LEMMA ServeServed ==
    ASSUME NEW t, NEW hs, NEW c, NEW s, NEW n, LogKept(t, hs, c, s, n), NEW h \in hs, h.at = 0,
           NEW e, e \in Following(h.event), NEW f, f = [h EXCEPT !.event = e, !.at = c],
           NEW gs, \A g \in gs : (g \in hs /\ g # h) \/ g = f
    PROVE  LogKept(t, gs, c, s, n)
<1>0. /\ c \in Nat /\ s \in Nat /\ n \in Nat /\ LogTypes(t, hs) /\ Served(t, hs, c, s, n)
      /\ (\A g \in hs : InService(t, g)) /\ AllShorted(t)
  BY DEF LogKept
<1>1. t \in Seq(EventRec) /\ hs \subseteq EventRec /\ Len(t) \in Nat /\ \A i \in 1 .. Len(t) : t[i] \in EventRec
  BY <1>0 DEF LogTypes
<1>2. h \in EventRec
  BY <1>1
<1>3. e \in Events /\ (h.event = "send_short" => e = "completed") /\ h.event # "completed"
  BY DEF Following, Events
<1>4. f \in EventRec /\ f.use = h.use /\ f.id = h.id /\ f.event = e /\ f.at = c
  BY <1>0, <1>2, <1>3 DEF EventRec
<1>5. \A g \in gs : (g \in hs /\ g # h) \/ g = f
  OBVIOUS
<1>6. LogTypes(t, gs)
  BY <1>1, <1>4, <1>5 DEF LogTypes
<1>7. Served(t, gs, c, s, n)
  <2>0. h.id <= s /\ h.use <= n /\ c <= c /\ \A g \in hs : g.id <= s /\ g.use <= n /\ g.at <= c
    BY <1>0 DEF Served
  <2>1. \A g \in gs : g.id <= s /\ g.use <= n /\ g.at <= c
    BY <1>4, <1>5, <2>0
  <2>2. \A g \in hs : g.id = h.id \/ g.use = h.use => g = h
    BY <1>0 DEF Served
  <2>3. \A g, k \in gs : g.id = k.id \/ g.use = k.use => g = k
    <3>1. \A g, k \in hs : g.id = k.id \/ g.use = k.use => g = k
      BY <1>0 DEF Served
    <3>2. \A g \in hs : g.id = f.id \/ g.use = f.use => g = h
      BY <1>4, <2>2
    <3> HIDE DEF Served
    <3> QED BY <1>5, <3>1, <3>2
  <2> QED BY <1>0, <2>1, <2>3 DEF Served
<1>8. InService(t, f)
  <2>0. InService(t, h)
    BY <1>0
  <2>1. \A i \in 1 .. Len(t) : t[i].use = f.use => t[i].id = f.id
    BY <1>0, <1>4, <2>0 DEF InService
  <2>2. \A i, k \in 1 .. Len(t) : i < k /\ t[i].use = f.use /\ t[k].id = f.id => t[k].use = f.use
    BY <1>0, <1>4, <2>0 DEF InService
  <2>3. ASSUME NEW i \in 1 .. Len(t), t[i].use = f.use, t[i].event = "send_short"
        PROVE  (\A k \in 1 .. Len(t) : i < k => t[k].use # f.use) /\ f.event = "completed" /\ f.at >= t[i].at
    <3>1. (\A k \in 1 .. Len(t) : i < k => t[k].use # f.use) /\ h.event = "send_short"
      BY <1>0, <1>3, <1>4, <2>0, <2>3 DEF InService
    <3>2. t[i].at <= c /\ t[i].at \in Nat
      BY <1>0, <1>1 DEF Served, EventRec
    <3> QED BY <1>3, <1>4, <3>1, <3>2
  <2> QED BY <1>0, <2>1, <2>2, <2>3 DEF InService
<1> QED BY <1>0, <1>5, <1>6, <1>7, <1>8 DEF LogKept

\* Each step of the registry keeps the invariant.
LEMMA TraceStep == ASSUME TraceInv, TraceNext PROVE TraceInv'
<1>0. /\ clock \in Nat \ {0} /\ sequence \in Nat /\ requests \in Nat /\ ended \in Nat /\ LogTypes(trace, handlers)
      /\ Served(trace, handlers, clock, sequence, requests) /\ (\A h \in handlers : InService(trace, h)) /\ AllShorted(trace)
  BY DEF TraceInv, TraceTypes
<1> SUFFICES /\ clock' \in Nat \ {0} /\ sequence' \in Nat /\ requests' \in Nat /\ ended' \in Nat /\ LogTypes(trace', handlers')
             /\ Served(trace', handlers', clock', sequence', requests')
             /\ (\A h \in handlers' : InService(trace', h)) /\ AllShorted(trace')
  BY DEF TraceInv, TraceTypes
<1>1. CASE Tick
  <2>1. Served(trace, handlers, clock + 1, sequence, requests)
    <3>0. handlers \subseteq EventRec /\ \A i \in 1 .. Len(trace) : trace[i] \in EventRec
      BY <1>0 DEF LogTypes
    <3>1. \A h \in handlers : h.at \in Nat
      BY <3>0 DEF EventRec
    <3>2. \A i \in 1 .. Len(trace) : trace[i].at \in Nat
      BY <3>0 DEF EventRec
    <3> QED BY <1>0, <3>1, <3>2 DEF Served
  <2> QED BY <1>0, <1>1, <2>1 DEF Tick
<1>2. CASE Receive
  <2>1. PICK h : h = [use |-> requests + 1, id |-> sequence + 1, event |-> "received", at |-> clock]
    OBVIOUS
  <2>2. clock' = clock /\ trace' = trace /\ ended' = ended /\ sequence' = sequence + 1 /\ requests' = requests + 1 /\ handlers' = handlers \cup {h}
    BY <1>2, <2>1 DEF Receive
  <2>3. PICK gs : gs = handlers \cup {h}
    OBVIOUS
  <2>4. LogTypes(trace, gs) /\ Served(trace, gs, clock, sequence + 1, requests + 1) /\ \A g \in gs : InService(trace, g)
    BY <1>0, <2>1, <2>3, ReceiveServed
  <2> QED BY <1>0, <2>2, <2>3, <2>4
<1>3. CASE FinishEntry
  BY <1>0, <1>3 DEF FinishEntry
<1>4. ASSUME handlers' = {}, trace' = trace, clock' = clock, sequence' \in Nat, requests' = requests, ended' \in Nat
      PROVE  /\ LogTypes(trace', handlers') /\ Served(trace', handlers', clock', sequence', requests')
             /\ (\A h \in handlers' : InService(trace', h)) /\ AllShorted(trace') /\ requests' \in Nat /\ clock' \in Nat \ {0}
  BY <1>0, <1>4 DEF LogTypes, Served
<1>5. CASE CloseNPM
  BY <1>0, <1>4, <1>5 DEF CloseNPM
<1>6. CASE ReopenNPM
  BY <1>0, <1>4, <1>6 DEF ReopenNPM
<1>7. ASSUME NEW h \in handlers, WriteEvent(h)
      PROVE  /\ LogTypes(trace', handlers') /\ Served(trace', handlers', clock', sequence', requests')
             /\ (\A g \in handlers' : InService(trace', g)) /\ AllShorted(trace')
  <2>1. PICK gs, u : gs = (handlers \ {h}) \cup (IF Following(h.event) = {} THEN {} ELSE {[h EXCEPT !.at = 0]}) /\ u = Append(trace, h)
    OBVIOUS
  <2>2. trace' = u /\ handlers' = gs /\ h.at # 0 /\ clock' = clock /\ sequence' = sequence /\ requests' = requests
    BY <1>7, <2>1 DEF WriteEvent
  <2>3. LogTypes(u, gs) /\ Served(u, gs, clock, sequence, requests) /\ (\A g \in gs : InService(u, g)) /\ AllShorted(u)
    <3>2. PICK t, hs, c, s, n : t = trace /\ hs = handlers /\ c = clock /\ s = sequence /\ n = requests
      OBVIOUS
    <3>3. PICK f : f = [h EXCEPT !.at = 0]
      OBVIOUS
    <3>4. LogKept(t, hs, c, s, n) /\ h \in hs /\ h.at # 0 /\ u = Append(t, h)
      BY <1>0, <2>1, <2>2, <3>2 DEF LogKept
    <3>5. \A g \in gs : (g \in hs /\ g # h) \/ (g = f /\ Following(h.event) # {})
      BY <2>1, <3>2, <3>3
    <3>6. h \in EventRec
      BY <1>0 DEF LogTypes
    <3>7. f \in EventRec /\ f.use = h.use /\ f.id = h.id /\ f.event = h.event /\ f.at = 0
      BY <3>3, <3>6 DEF EventRec
    <3>8. LogKept(u, gs, c, s, n)
      <4>1. Written(t, hs, h, f, u, gs)
        BY <3>4, <3>5, <3>7 DEF Written
      <4> QED BY <3>4, <4>1, WriteServed
    <3> QED BY <3>2, <3>8 DEF LogKept
  <2> QED BY <2>2, <2>3
<1>8. ASSUME NEW h \in handlers, ServeNPM(h)
      PROVE  /\ LogTypes(trace', handlers') /\ Served(trace', handlers', clock', sequence', requests')
             /\ (\A g \in handlers' : InService(trace', g)) /\ AllShorted(trace')
  <2>1. PICK e \in Following(h.event) : handlers' = (handlers \ {h}) \cup {[h EXCEPT !.event = e, !.at = clock]}
    BY <1>8 DEF ServeNPM
  <2>2. PICK f, gs : f = [h EXCEPT !.event = e, !.at = clock] /\ gs = (handlers \ {h}) \cup {f}
    OBVIOUS
  <2>3. trace' = trace /\ handlers' = gs /\ h.at = 0 /\ clock' = clock /\ sequence' = sequence /\ requests' = requests
    BY <1>8, <2>1, <2>2 DEF ServeNPM
  <2>4. LogTypes(trace, gs) /\ Served(trace, gs, clock, sequence, requests) /\ \A g \in gs : InService(trace, g)
    <3>2. PICK t, hs, c, s, n : t = trace /\ hs = handlers /\ c = clock /\ s = sequence /\ n = requests
      OBVIOUS
    <3>3. LogKept(t, hs, c, s, n) /\ h \in hs /\ h.at = 0 /\ e \in Following(h.event)
      BY <1>0, <2>1, <2>3, <3>2 DEF LogKept
    <3>4. f = [h EXCEPT !.event = e, !.at = c] /\ \A g \in gs : (g \in hs /\ g # h) \/ g = f
      BY <2>2, <3>2
    <3>5. LogKept(t, gs, c, s, n)
      BY <3>3, <3>4, ServeServed
    <3> QED BY <3>2, <3>5 DEF LogKept
  <2> QED BY <1>0, <2>3, <2>4
<1>9. ASSUME NEW h \in handlers, WriteEvent(h) \/ ServeNPM(h)
      PROVE  clock' \in Nat \ {0} /\ sequence' \in Nat /\ requests' \in Nat /\ ended' \in Nat
  BY <1>0, <1>9 DEF WriteEvent, ServeNPM
<1> QED BY <1>1, <1>2, <1>3, <1>5, <1>6, <1>7, <1>8, <1>9 DEF TraceNext

LEMMA TraceKept == ASSUME TraceInv, UNCHANGED traceVars PROVE TraceInv'
BY DEF TraceInv, TraceTypes, traceVars
LEMMA TraceBegun == ASSUME TraceInit PROVE TraceInv
BY DEF TraceInit, TraceInv, TraceTypes, LogTypes, Served, AllShorted

\* A qualification's terminal record is what happened, whichever step failed and whatever record
\* was lost, and what the progress report says of the registry is true of its log, in whatever
\* order concurrent requests wrote it: for any threshold, any number of requests and any log.
THEOREM QualificationIsTrue == Spec => []QualificationTrue
<1>1. Init => QualInv /\ TraceInv
  BY QualBegun, TraceBegun DEF Init
<1>2. QualInv /\ TraceInv /\ [Next]_vars => QualInv' /\ TraceInv'
  <2> SUFFICES ASSUME QualInv, TraceInv, [Next]_vars PROVE QualInv' /\ TraceInv'
    OBVIOUS
  <2>1. QualNext \/ UNCHANGED qualVars
    BY DEF Next, vars
  <2>2. TraceNext \/ UNCHANGED traceVars
    BY DEF Next, vars
  <2> QED BY <2>1, <2>2, QualStep, QualKept, TraceStep, TraceKept
<1>3. QualInv /\ TraceInv => QualificationTrue
  BY QualTold, StallTold, TransferTold DEF QualificationTrue, ProgressTrue
<1> QED BY <1>1, <1>2, <1>3, PTL DEF Spec
=============================================================================

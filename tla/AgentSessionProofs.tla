------------------------- MODULE AgentSessionProofs -------------------------
(* The agent session: nothing is sent to the agent twice or before the journal on disk knows  *)
(* of it, what the journal says of a task is true, and the workspace has one worker; for every *)
(* set of tasks and answers and every number of incarnations, turns, requests and mishaps.     *)
EXTENDS AgentSession, SequenceTheorems, FiniteSetTheorems, TLAPS

\* The messages the agent writes.
Event(k, n) == [k |-> k, n |-> n]
Msg == [k : {"reply"}, call : {"thread", "turn"}, of : Tasks, id : 0 .. MaxTurns]
         \cup [k : {"started", "ended"} \cup Requests, n : Turns]
Job   == [step : {"idle", "begun", "thread", "turn"}, got : Waiting .. MaxTurns]
Ans   == [id : Controls \cup {"none"}, of : 0 .. MaxTurns, decided : BOOLEAN]
Call  == [k : {"thread", "turn"}, of : Tasks, id : Waiting .. MaxTurns]
TurnT == [of : Tasks \cup {"none"}, inc : Inc, thread : 0 .. MaxTurns,
          st : {"none", "new", "running"} \cup Ends, made : SUBSET Requests]
Typed ==
    /\ mode \in {"down", "opened", "resuming", "serving"} /\ inc \in Inc /\ mem \in Journal /\ disk \in Journal
    /\ fatal \in BOOLEAN /\ held \in BOOLEAN /\ conn \in BOOLEAN
    /\ pending \subseteq Turns /\ cpending \subseteq Turns /\ replying \subseteq Turns
    /\ job \in [Tasks -> Job] /\ answering \in Ans /\ calls \subseteq Call /\ out \in Seq(Msg)
    /\ turn \in [Turns -> TurnT] /\ thread \in [n : 0 .. MaxTurns, loaded : SUBSET (0 .. MaxTurns)]
    /\ sent \in [Tasks -> Nat] /\ answered \in [Requests -> [Turns -> Nat]]

In(q, x) == \E i \in 1 .. Len(q) : q[i] = x
Once(q) == \A i, j \in 1 .. Len(q) : (q[i] = q[j] /\ q[i].k # "reply") => i = j
InOrder(q) == \A i, j \in 1 .. Len(q) :
    (q[i].k = "ended" /\ q[j].k = "started" /\ q[i].n = q[j].n) => j < i

IsLive(n) == turn[n].st \in {"new", "running"}

\* A broker that does not serve yet has nothing under way; memory and disk part by a failed save.
ModeTrue ==
    /\ mode # "down" => inc # 0
    /\ mode # "serving" => /\ ~held /\ ~fatal /\ pending = {} /\ cpending = {} /\ replying = {} /\ answering = NoAnswer
                           /\ calls = {} /\ out = <<>> /\ \A o \in Tasks : job[o].step = "idle"
                           /\ \A n \in Turns : ~IsLive(n)
    /\ (mode # "down" /\ ~fatal) => mem = disk
    /\ (mode = "serving" /\ ~held) => mem.thread \in {0} \cup thread.loaded
    /\ \A o \in Tasks : job[o].step # "idle" => ~held
    /\ answering # NoAnswer => answering.id \in Controls

\* What a journal says, in memory or on disk, is true of what was sent and of the turns.
TaskTrue(e, o) ==
    LET p == e.ops[o] IN
    /\ p.inc = 0 => p = NoOp
    /\ p.inc <= inc
    /\ sent[o] > 0 => p.inc # 0
    /\ job[o].step # "idle" => p.inc = inc
    /\ p.turn # 0 => turn[p.turn].of = o
    /\ p.end # "none" => (p.turn # 0 /\ turn[p.turn].st = p.end)
    /\ Closed(e, o) => (p.inc # 0 /\ p.inc < e.bound[o].inc /\ e.bound[o].inc <= inc)
Told == {"dispatching", "sent", "unknown"}
AnswersTrue(e, n) ==
    /\ answered["call"][n] > 0 => e.requests[n] \in {"dispatching", "written", "unknown"}
    /\ n \in replying => e.requests[n] = "dispatching"
    /\ answered["ask"][n] > 0 => \E c \in Controls : /\ e.controls[c].of = n /\ e.controls[c].st \in Told
                                                     /\ answering # NoAnswer => c # answering.id
JournalTrue(e) ==
    /\ \A o \in Tasks : TaskTrue(e, o)
    /\ \A n \in Turns : AnswersTrue(e, n)
    /\ answering # NoAnswer => e.controls[answering.id] = [st |-> "dispatching", of |-> answering.of]

\* One task of this incarnation is open at a time, and what the agent does is for it.
Own(e, o) == IsOpen(e, o) /\ e.ops[o].inc = inc
OneOpen == \A o, p \in Tasks : (Own(mem, o) /\ Own(mem, p)) => o = p
JobTrue(o) ==
    /\ job[o].step \in {"begun", "thread"} => (sent[o] = 0 /\ Own(mem, o))
    /\ (job[o].step = "thread" /\ job[o].got > 0) => job[o].got \in thread.loaded
    /\ (job[o].step = "turn" /\ job[o].got > 0) => turn[job[o].got].of = o
CallTrue(c) ==
    /\ (c.k = "thread" /\ c.id > 0) => c.id \in thread.loaded
    /\ (c.k = "turn" /\ c.id > 0) => turn[c.id].of = c.of
    /\ c.k = "turn" => sent[c.of] > 0
    /\ (c.k = "turn" /\ c.id = Waiting) => /\ Own(mem, c.of) /\ mem.thread \in thread.loaded
                                           /\ \A n \in Turns : turn[n].of # c.of
OneCall == \A c, d \in calls : (c.k = "turn" /\ d.k = "turn" /\ c.of = d.of) => c = d
TurnTrue(n) ==
    /\ turn[n] # NoTurn => (turn[n].of \in Tasks /\ sent[turn[n].of] > 0)
    /\ IsLive(n) => (Own(mem, turn[n].of) /\ turn[n].thread \in thread.loaded)
    /\ \A m \in Turns : (turn[n] # NoTurn /\ turn[m].of = turn[n].of) => m = n
SaysTrue(x) ==
    /\ (x.k = "reply" /\ x.id > 0) => IF x.call = "thread" THEN x.id \in thread.loaded ELSE turn[x.id].of = x.of
    /\ x.k = "started" => (turn[x.n].st = "running" \/ In(out, Event("ended", x.n)))
    /\ x.k = "ended" => (turn[x.n].st \in Ends /\ Own(mem, turn[x.n].of))
WorkTrue ==
    /\ mode # "down" => OneOpen
    /\ OneCall /\ Once(out) /\ InOrder(out)
    /\ \A o \in Tasks : JobTrue(o) /\ sent[o] <= 1
    /\ \A c \in calls : CallTrue(c)
    /\ \A n \in Turns : TurnTrue(n)
    /\ \A x \in Msg : In(out, x) => SaysTrue(x)

\* A request is in one place: on its way, waiting, being answered, or answered.
AskTrue(n) ==
    /\ answered["ask"][n] <= 1 /\ answered["call"][n] <= 1
    /\ \A r \in Requests : (In(out, Event(r, n)) \/ answered[r][n] > 0) => r \in turn[n].made
    /\ In(out, Event("ask", n)) => (answered["ask"][n] = 0 /\ n \notin pending /\ ~(answering.decided /\ answering.of = n))
    /\ n \in pending => (answered["ask"][n] = 0 /\ "ask" \in turn[n].made /\ ~(answering.decided /\ answering.of = n))
    /\ (answering.decided /\ answering.of = n) => (answered["ask"][n] = 0 /\ "ask" \in turn[n].made)
    /\ In(out, Event("call", n)) => (answered["call"][n] = 0 /\ n \notin cpending /\ n \notin replying)
    /\ n \in cpending => (answered["call"][n] = 0 /\ "call" \in turn[n].made /\ n \notin replying)
    /\ n \in replying => (answered["call"][n] = 0 /\ "call" \in turn[n].made)
SInv == Typed /\ ModeTrue /\ JournalTrue(mem) /\ JournalTrue(disk) /\ WorkTrue /\ \A n \in Turns : AskTrue(n)

(************************************ the queue *************************************)
LEMMA Took ==
    ASSUME NEW q \in Seq(Msg), q # <<>>, Once(q), InOrder(q)
    PROVE  \E h \in Msg, t \in Seq(Msg) :
              /\ h = Head(q) /\ t = Tail(q) /\ Once(t) /\ InOrder(t) /\ In(q, h)
              /\ \A x : In(t, x) => In(q, x)
              /\ \A x : (In(q, x) /\ x # h) => In(t, x)
              /\ h.k # "reply" => ~In(t, h)
              /\ \A x : (h.k = "ended" /\ x.k = "started" /\ x.n = h.n) => ~In(t, x)
<1>1. PICK h \in Msg : h = Head(q)
  BY HeadTailProperties
<1>2. PICK t \in Seq(Msg) : t = Tail(q)
  BY HeadTailProperties
<1>3. Len(q) \in Nat /\ Len(q) >= 1 /\ q[1] = h /\ Len(t) = Len(q) - 1 /\ \A i \in 1 .. Len(t) : i + 1 \in 1 .. Len(q) /\ t[i] = q[i + 1]
  BY <1>1, <1>2
<1>4. Once(t) /\ InOrder(t)
  <2>1. Once(t)
    BY <1>3 DEF Once
  <2>2. InOrder(t)
    BY <1>3 DEF InOrder
  <2> QED BY <2>1, <2>2
<1>5. In(q, h) /\ \A x : In(t, x) => In(q, x)
  BY <1>3 DEF In
<1>6. ASSUME NEW x, In(q, x), x # h PROVE In(t, x)
  <2>1. PICK i \in 1 .. Len(q) : q[i] = x
    BY <1>6 DEF In
  <2>2. i # 1 /\ i - 1 \in 1 .. Len(t) /\ t[i - 1] = x
    BY <1>3, <1>6, <2>1
  <2> QED BY <2>2 DEF In
<1>7. h.k # "reply" => ~In(t, h)
  BY <1>3 DEF In, Once
<1>8. ASSUME NEW x, h.k = "ended", x.k = "started", x.n = h.n PROVE ~In(t, x)
  BY <1>3, <1>8 DEF In, InOrder
<1> QED BY <1>1, <1>2, <1>4, <1>5, <1>6, <1>7, <1>8

LEMMA Said ==
    ASSUME NEW q \in Seq(Msg), Once(q), InOrder(q), NEW y \in Msg, y.k # "reply" => ~In(q, y),
           y.k = "started" => \A x : (x.k = "ended" /\ x.n = y.n) => ~In(q, x)
    PROVE  \E t \in Seq(Msg) : t = Append(q, y) /\ Once(t) /\ InOrder(t) /\ \A x : In(t, x) <=> (In(q, x) \/ x = y)
<1>1. PICK t \in Seq(Msg) : t = Append(q, y)
  BY AppendProperties
<1>2. Len(q) \in Nat /\ Len(t) = Len(q) + 1 /\ t[Len(t)] = y /\ \A i \in 1 .. Len(q) : t[i] = q[i]
  BY <1>1
<1>3. \A i \in 1 .. Len(t) : i \in 1 .. Len(q) \/ i = Len(t)
  BY <1>2
<1>4. Once(t)
  BY <1>2, <1>3 DEF Once, In
<1>5. InOrder(t)
  BY <1>2, <1>3 DEF InOrder, In
<1>6. \A x : In(t, x) <=> (In(q, x) \/ x = y)
  BY <1>2, <1>3 DEF In
<1> QED BY <1>1, <1>4, <1>5, <1>6

LEMMA EventIs == ASSUME NEW x \in Msg, x.k # "reply" PROVE x.n \in Turns /\ x = Event(x.k, x.n)
  BY DEF Msg, Event

LEMMA EventOf == ASSUME NEW k \in {"started", "ended"} \cup Requests, NEW n \in Turns PROVE Event(k, n) \in Msg /\ Event(k, n).k = k /\ Event(k, n).n = n /\ k # "reply"
  BY DEF Msg, Event, Requests

LEMMA EventSame == ASSUME NEW k, NEW n, NEW l, NEW m, Event(k, n) = Event(l, m) PROVE k = l /\ n = m
  BY DEF Event

(*********************************** the journal *************************************)
LEMMA SaveIs ==
    ASSUME NEW e, NEW ok \in BOOLEAN, fatal \in BOOLEAN, Save(e, ok)
    PROVE  /\ mem' = e /\ disk' \in {disk, e} /\ fatal' \in BOOLEAN
           /\ ok => (disk' = e /\ fatal' = fatal)
           /\ ~ok => fatal'
  BY DEF Save

LEMMA MemIs == ASSUME NEW e, mem' = e, JournalTrue(e)' PROVE JournalTrue(mem)'
  BY DEF JournalTrue, TaskTrue, AnswersTrue, Closed
LEMMA DiskIs == ASSUME NEW e, disk' = e, JournalTrue(e)' PROVE JournalTrue(disk)'
  BY DEF JournalTrue, TaskTrue, AnswersTrue, Closed

\* Both journals after a save.
LEMMA Saved ==
    ASSUME Typed, NEW e, NEW d, d = disk, NEW ok \in BOOLEAN, Save(e, ok), JournalTrue(e)', ~ok => JournalTrue(d)'
    PROVE  JournalTrue(mem)' /\ JournalTrue(disk)'
<1>1. mem' = e /\ disk' \in {d, e} /\ (ok => disk' = e)
  BY SaveIs DEF Typed
<1>2. JournalTrue(mem)'
  BY <1>1, MemIs
<1>3. CASE disk' = e
  BY <1>2, <1>3, DiskIs
<1>4. CASE disk' = d /\ ~ok
  BY <1>2, <1>4, DiskIs
<1> QED BY <1>1, <1>3, <1>4

LEMMA JournalIs ==
    ASSUME NEW e \in Journal
    PROVE  /\ e.thread \in 0 .. MaxTurns /\ e.ops \in [Tasks -> Op] /\ e.controls \in [Controls -> Control]
           /\ e.requests \in [Turns -> {"none", "pending", "dispatching", "written", "unknown", "fenced"}]
           /\ e.bound \in [Tasks -> Binding]
           /\ \A o \in Tasks : /\ e.ops[o] \in Op /\ e.bound[o] \in Binding /\ e.ops[o].inc \in Nat /\ e.bound[o].inc \in Nat
                               /\ e.ops[o].turn \in 0 .. MaxTurns /\ e.ops[o].end \in Ends \cup {"none"}
                               /\ e.bound[o].next \in Tasks \cup {"none"}
  BY AgentSessionAssumption DEF Journal, Op, Binding, Inc

\* What leaves the turns of tasks and their ends as they are.
TurnsGrow == \A n \in Turns : /\ turn[n].of \in Tasks => turn'[n].of = turn[n].of
                              /\ turn[n].st \in Ends => turn'[n].st = turn[n].st
\* What a task's goroutine does without a word about the task.
TaskRest(o) ==
    /\ inc \in Nat /\ inc' \in Nat /\ inc' >= inc
    /\ job'[o].step # "idle" => (inc' = inc /\ job[o].step # "idle")
    /\ sent'[o] > 0 => (sent[o] > 0 \/ (job[o].step # "idle" /\ inc # 0))
OpSame(d, e, o) ==
    /\ e.ops[o].inc = d.ops[o].inc /\ e.ops[o].turn = d.ops[o].turn /\ e.ops[o].end = d.ops[o].end
    /\ d.ops[o].inc = 0 => e.ops[o] = d.ops[o]
    /\ e.bound[o] = d.bound[o]

LEMMA TaskNext ==
    ASSUME NEW d \in Journal, NEW e \in Journal, NEW o \in Tasks, TaskTrue(d, o), OpSame(d, e, o), TurnsGrow, TaskRest(o)
    PROVE  TaskTrue(e, o)'
<1>1. /\ d.ops[o].turn \in 0 .. MaxTurns /\ d.ops[o].end \in Ends \cup {"none"} /\ d.ops[o].inc \in Nat /\ d.bound[o].inc \in Nat
      /\ MaxTurns \in Nat
  BY JournalIs, AgentSessionAssumption
<1>2. /\ e.ops[o].inc = 0 => e.ops[o] = NoOp
      /\ e.ops[o].inc <= inc'
      /\ job'[o].step # "idle" => e.ops[o].inc = inc'
      /\ e.bound[o].next # "none" => (e.ops[o].inc # 0 /\ e.ops[o].inc < e.bound[o].inc /\ e.bound[o].inc <= inc')
  BY <1>1 DEF TaskTrue, OpSame, TaskRest, Closed
<1>3. sent'[o] > 0 => e.ops[o].inc # 0
  BY DEF TaskTrue, OpSame, TaskRest
<1>4. e.ops[o].turn # 0 => turn'[e.ops[o].turn].of = o
  BY <1>1 DEF TaskTrue, OpSame, TurnsGrow, Turns
<1>5. e.ops[o].end # "none" => (e.ops[o].turn # 0 /\ turn'[e.ops[o].turn].st = e.ops[o].end)
  BY <1>1 DEF TaskTrue, OpSame, TurnsGrow, Turns, Ends
<1> QED BY <1>2, <1>3, <1>4, <1>5 DEF TaskTrue, Closed

\* A change of tasks only.
LEMMA JournalTasks ==
    ASSUME NEW d \in Journal, NEW e \in Journal, JournalTrue(d), e.requests = d.requests, e.controls = d.controls,
           UNCHANGED <<answered, replying, answering>>, \A o \in Tasks : TaskTrue(e, o)'
    PROVE  JournalTrue(e)'
<1>1. ASSUME NEW n \in Turns PROVE AnswersTrue(e, n)'
  BY DEF JournalTrue, AnswersTrue
<1>2. (answering # NoAnswer => e.controls[answering.id] = [st |-> "dispatching", of |-> answering.of])'
  BY DEF JournalTrue
<1> QED BY <1>1, <1>2 DEF JournalTrue

\* A change of answers only.
LEMMA JournalAnswers ==
    ASSUME NEW d \in Journal, NEW e \in Journal, JournalTrue(d), e.ops = d.ops, e.bound = d.bound,
           inc \in Nat, UNCHANGED <<inc, job, sent, turn>>, \A n \in Turns : AnswersTrue(e, n)',
           answering' # NoAnswer => e.controls[answering'.id] = [st |-> "dispatching", of |-> answering'.of]
    PROVE  JournalTrue(e)'
<1>1. ASSUME NEW o \in Tasks PROVE TaskTrue(e, o)'
  BY DEF JournalTrue, TaskTrue, Closed
<1> QED BY <1>1 DEF JournalTrue

LEMMA JournalRests ==
    ASSUME NEW d \in Journal, JournalTrue(d), UNCHANGED <<answered, replying, answering>>, TurnsGrow, \A o \in Tasks : TaskRest(o)
    PROVE  JournalTrue(d)'
<1>1. ASSUME NEW o \in Tasks PROVE TaskTrue(d, o)'
  <2>1. TaskTrue(d, o) /\ OpSame(d, d, o) /\ TaskRest(o)
    BY DEF JournalTrue, OpSame
  <2> QED BY <2>1, TaskNext
<1> QED BY <1>1, JournalTasks

(************************************* the work **************************************)
\* The queue loses nothing but its head.
OutShrinks ==
    /\ out' \in Seq(Msg) /\ Once(out') /\ InOrder(out')
    /\ \A x \in Msg : In(out', x) => In(out, x)
    /\ \A n \in Turns : (In(out, Event("ended", n)) /\ In(out', Event("started", n))) => In(out', Event("ended", n))

LEMMA OutSame == ASSUME Typed, WorkTrue, out' = out PROVE OutShrinks
  BY DEF Typed, WorkTrue, OutShrinks

LEMMA OutTail ==
    ASSUME Typed, WorkTrue, out # <<>>, out' = Tail(out)
    PROVE  /\ OutShrinks /\ Head(out) \in Msg /\ In(out, Head(out))
           /\ Head(out).k # "reply" => ~In(out', Head(out))
<1>1. PICK h \in Msg, t \in Seq(Msg) :
              /\ h = Head(out) /\ t = Tail(out) /\ Once(t) /\ InOrder(t) /\ In(out, h)
              /\ \A x : In(t, x) => In(out, x)
              /\ \A x : (In(out, x) /\ x # h) => In(t, x)
              /\ h.k # "reply" => ~In(t, h)
              /\ \A x : (h.k = "ended" /\ x.k = "started" /\ x.n = h.n) => ~In(t, x)
  BY Took DEF Typed, WorkTrue
<1>2. ASSUME NEW n \in Turns, In(out, Event("ended", n)), In(t, Event("started", n)) PROVE In(t, Event("ended", n))
  <2>1. Event("ended", n).k = "ended" /\ Event("ended", n).n = n /\ Event("started", n).k = "started" /\ Event("started", n).n = n
    BY EventOf
  <2>2. Event("ended", n) # h
    BY <1>1, <1>2, <2>1
  <2> QED BY <1>1, <1>2, <2>2
<1> QED BY <1>1, <1>2 DEF OutShrinks

\* The broker's own task after a step.
OwnN(o) == mem'.ops[o].inc # 0 /\ mem'.ops[o].end = "none" /\ mem'.ops[o].inc = inc'

LEMMA OwnIs == \A o \in Tasks : Own(mem, o)' <=> OwnN(o)
  BY DEF Own, OwnN, IsOpen

\* A step of the broker, which leaves the agent alone.
LEMMA WorkHost ==
    ASSUME Typed, WorkTrue, UNCHANGED <<calls, turn, thread, sent>>, OutShrinks,
           \A o, p \in Tasks : (OwnN(o) /\ OwnN(p)) => o = p,
           \A o \in Tasks : JobTrue(o)',
           \A c \in calls : (c.k = "turn" /\ c.id = Waiting) => (OwnN(c.of) /\ mem'.thread \in thread.loaded),
           \A n \in Turns : IsLive(n) => OwnN(turn[n].of),
           \A n \in Turns : In(out', Event("ended", n)) => OwnN(turn[n].of)
    PROVE  WorkTrue'
<1>1. ASSUME NEW c \in calls PROVE CallTrue(c)'
  BY OwnIs DEF WorkTrue, CallTrue, Own, OwnN, IsOpen
<1>2. ASSUME NEW n \in Turns PROVE TurnTrue(n)'
  BY DEF WorkTrue, TurnTrue, Own, OwnN, IsOpen, IsLive
<1>3. ASSUME NEW x \in Msg, In(out', x) PROVE SaysTrue(x)'
  <2>1. SaysTrue(x)
    BY <1>3 DEF WorkTrue, OutShrinks
  <2>2. (x.k = "reply" /\ x.id > 0) => IF x.call = "thread" THEN x.id \in thread'.loaded ELSE turn'[x.id].of = x.of
    BY <2>1 DEF SaysTrue
  <2>3. ASSUME x.k = "started" PROVE turn'[x.n].st = "running" \/ In(out', Event("ended", x.n))
    BY <1>3, <2>1, <2>3, EventIs DEF SaysTrue, OutShrinks
  <2>4. ASSUME x.k = "ended" PROVE turn'[x.n].st \in Ends /\ OwnN(turn'[x.n].of)
    BY <1>3, <2>1, <2>4, EventIs DEF SaysTrue
  <2> QED BY <2>2, <2>3, <2>4 DEF SaysTrue, Own, OwnN, IsOpen
<1>4. OneOpen'
  BY DEF OneOpen, Own, OwnN, IsOpen
<1>5. OneCall' /\ Once(out)' /\ InOrder(out)' /\ \A o \in Tasks : sent'[o] <= 1
  BY DEF WorkTrue, OneCall, OutShrinks, Once, InOrder
<1> QED BY <1>1, <1>2, <1>3, <1>4, <1>5 DEF WorkTrue

\* One that keeps the broker's own task.
LEMMA WorkOwn ==
    ASSUME Typed, WorkTrue, mode # "down", UNCHANGED <<inc, calls, turn, thread, sent>>, OutShrinks,
           \A o \in Tasks : JobTrue(o)',
           \A o \in Tasks : mem'.ops[o].inc = mem.ops[o].inc /\ (Own(mem, o) => mem'.ops[o].end = "none")
                            /\ (mem.ops[o].end # "none" => mem'.ops[o].end # "none"),
           mem.thread \in thread.loaded => mem'.thread \in thread.loaded
    PROVE  WorkTrue'
<1>1. ASSUME NEW o \in Tasks PROVE OwnN(o) <=> Own(mem, o)
  BY DEF OwnN, Own, IsOpen
<1>2. \A o, p \in Tasks : (OwnN(o) /\ OwnN(p)) => o = p
  BY <1>1 DEF WorkTrue, OneOpen
<1>3. \A c \in calls : c.of \in Tasks
  BY DEF Typed, Call
<1>4. \A c \in calls : (c.k = "turn" /\ c.id = Waiting) => (OwnN(c.of) /\ mem'.thread \in thread.loaded)
  BY <1>1, <1>3 DEF WorkTrue, CallTrue
<1>5. ASSUME NEW n \in Turns, IsLive(n) PROVE OwnN(turn[n].of)
  <2>1. turn[n].of \in Tasks /\ Own(mem, turn[n].of)
    BY <1>5 DEF WorkTrue, TurnTrue, IsLive, NoTurn
  <2> QED BY <1>1, <2>1
<1>6. ASSUME NEW n \in Turns, In(out', Event("ended", n)) PROVE OwnN(turn[n].of)
  <2>1. turn[n].st \in Ends /\ Own(mem, turn[n].of)
    BY <1>6, EventOf DEF WorkTrue, SaysTrue, OutShrinks
  <2>2. turn[n].of \in Tasks
    BY <2>1 DEF WorkTrue, TurnTrue, NoTurn, Ends
  <2> QED BY <1>1, <2>1, <2>2
<1> QED BY <1>2, <1>4, <1>5, <1>6, WorkHost

\* Nothing is under way.
LEMMA WorkEmpty ==
    ASSUME Typed, WorkTrue, calls' = {}, out' = <<>>, sent' = sent, \A o \in Tasks : job'[o].step = "idle",
           \A n \in Turns : turn'[n].st \notin {"new", "running"} /\ turn'[n].of = turn[n].of /\ (turn'[n] # NoTurn => turn[n] # NoTurn),
           mode' # "down" => \A o, p \in Tasks : (OwnN(o) /\ OwnN(p)) => o = p
    PROVE  WorkTrue'
<1>1. ASSUME NEW n \in Turns PROVE TurnTrue(n)'
  BY DEF WorkTrue, TurnTrue, IsLive
<1>2. ~\E x \in Msg : In(out', x)
  BY DEF In
<1>3. OneCall' /\ Once(out)' /\ InOrder(out)'
  BY DEF OneCall, Once, InOrder
<1>4. (\A o \in Tasks : JobTrue(o) /\ sent[o] <= 1)'
  BY DEF JobTrue, WorkTrue
<1>5. (mode # "down" => OneOpen)'
  BY DEF OneOpen, Own, OwnN, IsOpen
<1>6. (\A x \in Msg : In(out, x) => SaysTrue(x))'
  BY <1>2 DEF In
<1> QED BY <1>1, <1>3, <1>4, <1>5, <1>6 DEF WorkTrue

(************************************ the answers ************************************)
LEMMA AskRests ==
    ASSUME NEW n \in Turns, AskTrue(n), turn'[n].made = turn[n].made,
           UNCHANGED <<answered, pending, cpending, replying, answering>>,
           \A r \in Requests : In(out', Event(r, n)) => In(out, Event(r, n))
    PROVE  AskTrue(n)'
<1>1. In(out', Event("ask", n)) => In(out, Event("ask", n))
  BY DEF Requests
<1>2. In(out', Event("call", n)) => In(out, Event("call", n))
  BY DEF Requests
<1> QED BY <1>1, <1>2 DEF AskTrue

LEMMA AsksRest ==
    ASSUME \A n \in Turns : AskTrue(n), \A n \in Turns : turn'[n].made = turn[n].made,
           UNCHANGED <<answered, pending, cpending, replying, answering>>,
           \A x \in Msg : In(out', x) => In(out, x)
    PROVE  \A n \in Turns : AskTrue(n)'
<1>1. ASSUME NEW n \in Turns PROVE AskTrue(n)'
  <2>1. \A r \in Requests : In(out', Event(r, n)) => In(out, Event(r, n))
    BY EventOf
  <2> QED BY <2>1, AskRests
<1> QED BY <1>1

(********************************** answers, by action *******************************)
LEMMA WorkSame ==
    ASSUME Typed, WorkTrue, mode # "down", UNCHANGED <<inc, job, calls, turn, thread, sent>>, OutShrinks,
           mem'.ops = mem.ops, mem'.thread = mem.thread
    PROVE  WorkTrue'
<1>1. ASSUME NEW o \in Tasks PROVE JobTrue(o)'
  BY DEF WorkTrue, JobTrue, Own, IsOpen
<1>2. \A o \in Tasks : Own(mem, o) => mem'.ops[o].end = "none"
  BY DEF Own, IsOpen
<1> QED BY <1>1, <1>2, WorkOwn

\* Who has something under way is served.
LEMMA Serving ==
    ASSUME ModeTrue, \/ out # <<>> \/ answering # NoAnswer \/ replying # {} \/ calls # {}
                     \/ (\E o \in Tasks : job[o].step # "idle") \/ (\E n \in Turns : IsLive(n))
    PROVE  mode = "serving" /\ inc # 0
  BY DEF ModeTrue

LEMMA ReadAskKeeps == ASSUME SInv, NEW ok \in BOOLEAN, ReadAsk(ok) PROVE SInv'
<1> USE DEF SInv
<1>1. out # <<>> /\ out' = Tail(out) /\ conn /\ Head(out).k = "ask" /\ answering = NoAnswer
  BY DEF ReadAsk, Head1, Unlocked
<1>2. mode = "serving" /\ inc # 0
  BY <1>1, Serving
<1>3. OutShrinks /\ Head(out) \in Msg /\ In(out, Head(out)) /\ ~In(out', Head(out))
  BY <1>1, OutTail
<1>4. PICK n \in Turns : n = Head(out).n /\ Head(out) = Event("ask", n)
  BY <1>1, <1>3, EventIs
<1>5. PICK d \in Journal : d = disk
  BY DEF Typed
<1>6. PICK e \in Journal : e = mem
  BY DEF Typed
<1>7. UNCHANGED <<mode, inc, held, cpending, job, answering, replying, calls, turn, thread, sent, answered>>
  BY DEF ReadAsk, ghost
<1>8. \/ UNCHANGED <<mem, disk, fatal, pending>> /\ conn' = FALSE
      \/ Save(e, ok) /\ ~fatal /\ conn' = ok /\ pending' = IF ok THEN pending \cup {n} ELSE pending
  BY <1>4, <1>6 DEF ReadAsk, store
<1>9. mem' = e /\ disk' \in {d, e} /\ fatal' \in BOOLEAN /\ (~fatal' => disk' = e) /\ pending' \in {pending, pending \cup {n}} /\ conn' \in BOOLEAN
  BY <1>2, <1>5, <1>6, <1>8, SaveIs DEF Typed, ModeTrue
<1>10. Typed'
  BY <1>3, <1>5, <1>6, <1>7, <1>9 DEF Typed, OutShrinks
<1>11. ModeTrue'
  BY <1>2, <1>6, <1>7, <1>9 DEF ModeTrue
<1>12. JournalTrue(e)' /\ JournalTrue(d)'
  <2>1. TurnsGrow /\ \A o \in Tasks : TaskRest(o)
    BY <1>7, AgentSessionAssumption DEF TurnsGrow, TaskRest, Typed, Inc
  <2> QED BY <1>5, <1>6, <1>7, <2>1, JournalRests
<1>13. JournalTrue(mem)' /\ JournalTrue(disk)'
  BY <1>9, <1>12, MemIs, DiskIs
<1>14. WorkTrue'
  BY <1>2, <1>3, <1>6, <1>7, <1>9, WorkSame
<1>15. ASSUME NEW m \in Turns PROVE AskTrue(m)'
  <2>1. \A r \in Requests : In(out', Event(r, m)) => In(out, Event(r, m))
    BY <1>3, EventOf DEF OutShrinks
  <2>2. AskTrue(m)
    OBVIOUS
  <2>3. CASE m = n
    <3>1. In(out, Event("ask", n)) /\ ~In(out', Event("ask", n))
      BY <1>3, <1>4
    <3>2. In(out', Event("call", n)) => In(out, Event("call", n))
      BY <2>1, <2>3 DEF Requests
    <3>3. answered["ask"][n] = 0 /\ "ask" \in turn[n].made /\ ~(answering.decided /\ answering.of = n)
      BY <2>2, <2>3, <3>1 DEF AskTrue, Requests
    <3> QED BY <1>7, <2>1, <2>2, <2>3, <3>1, <3>2, <3>3 DEF AskTrue
  <2>4. CASE m # n
    <3>1. m \in pending' <=> m \in pending
      BY <1>9, <2>4
    <3>2. In(out', Event("ask", m)) => In(out, Event("ask", m))
      BY <2>1 DEF Requests
    <3>3. In(out', Event("call", m)) => In(out, Event("call", m))
      BY <2>1 DEF Requests
    <3> QED BY <1>7, <2>1, <2>2, <3>1, <3>2, <3>3 DEF AskTrue
  <2> QED BY <2>3, <2>4
<1> QED BY <1>10, <1>11, <1>13, <1>14, <1>15

LEMMA ReadCallKeeps == ASSUME SInv, NEW ok \in BOOLEAN, ReadCall(ok) PROVE SInv'
<1> USE DEF SInv
<1>1. out # <<>> /\ out' = Tail(out) /\ conn /\ Head(out).k = "call" /\ answering = NoAnswer
  BY DEF ReadCall, Head1, Unlocked
<1>2. mode = "serving" /\ inc # 0
  BY <1>1, Serving
<1>3. OutShrinks /\ Head(out) \in Msg /\ In(out, Head(out)) /\ ~In(out', Head(out))
  BY <1>1, OutTail
<1>4. PICK n \in Turns : n = Head(out).n /\ Head(out) = Event("call", n)
  BY <1>1, <1>3, EventIs
<1>5. PICK d \in Journal : d = disk
  BY DEF Typed
<1>6. PICK b \in Journal : b = mem
  BY DEF Typed
<1>a. PICK e : e = [b EXCEPT !.requests[n] = "pending"]
  OBVIOUS
<1>b. e \in Journal /\ e.ops = b.ops /\ e.bound = b.bound /\ e.thread = b.thread /\ e.controls = b.controls
      /\ e.requests = [b.requests EXCEPT ![n] = "pending"]
  BY <1>a DEF Journal
<1>7. UNCHANGED <<mode, inc, held, pending, job, answering, replying, calls, turn, thread, sent, answered>>
  BY DEF ReadCall, ghost
<1>8. \/ UNCHANGED <<mem, disk, fatal, cpending>> /\ conn' = FALSE
      \/ Save(e, ok) /\ ~fatal /\ conn' = ok /\ cpending' = IF ok THEN cpending \cup {n} ELSE cpending
  BY <1>4, <1>6, <1>a DEF ReadCall, store
<1>9. mem' \in {b, e} /\ disk' \in {d, e} /\ fatal' \in BOOLEAN /\ (~fatal' => disk' = mem') /\ cpending' \in {cpending, cpending \cup {n}} /\ conn' \in BOOLEAN
  BY <1>2, <1>5, <1>6, <1>8, SaveIs DEF Typed, ModeTrue
<1>10. Typed'
  BY <1>3, <1>5, <1>6, <1>b, <1>7, <1>9 DEF Typed, OutShrinks
<1>11. ModeTrue'
  BY <1>2, <1>6, <1>b, <1>7, <1>9 DEF ModeTrue
<1>c. AskTrue(n) /\ In(out, Event("call", n)) /\ ~In(out', Event("call", n))
  BY <1>3, <1>4
<1>d. answered["call"][n] = 0 /\ n \notin replying /\ "call" \in turn[n].made
  BY <1>c DEF AskTrue, Requests
<1>12. JournalTrue(b)' /\ JournalTrue(d)'
  <2>1. TurnsGrow /\ \A o \in Tasks : TaskRest(o)
    BY <1>7, AgentSessionAssumption DEF TurnsGrow, TaskRest, Typed, Inc
  <2> QED BY <1>5, <1>6, <1>7, <2>1, JournalRests
<1>13. JournalTrue(e)'
  <2>1. ASSUME NEW m \in Turns PROVE AnswersTrue(e, m)'
    <3>1. AnswersTrue(b, m)
      BY <1>6 DEF JournalTrue
    <3>2. m # n => e.requests[m] = b.requests[m]
      BY <1>b, JournalIs
    <3> QED BY <1>7, <1>b, <1>d, <3>1, <3>2 DEF AnswersTrue
  <2>2. inc \in Nat
    BY AgentSessionAssumption DEF Typed, Inc
  <2> QED BY <1>1, <1>6, <1>7, <1>b, <2>1, <2>2, JournalAnswers
<1>14. JournalTrue(mem)'
  BY <1>9, <1>12, <1>13, MemIs
<1>e. JournalTrue(disk)'
  BY <1>9, <1>12, <1>13, DiskIs
<1>15. WorkTrue'
  BY <1>2, <1>3, <1>6, <1>b, <1>7, <1>9, WorkSame
<1>16. ASSUME NEW m \in Turns PROVE AskTrue(m)'
  <2>1. \A r \in Requests : In(out', Event(r, m)) => In(out, Event(r, m))
    BY <1>3, EventOf DEF OutShrinks
  <2>2. AskTrue(m)
    OBVIOUS
  <2>3. In(out', Event("ask", m)) => In(out, Event("ask", m))
    BY <2>1 DEF Requests
  <2>4. In(out', Event("call", m)) => (In(out, Event("call", m)) /\ m # n)
    BY <1>c, <2>1 DEF Requests
  <2>5. m \in cpending' => (m \in cpending \/ m = n)
    BY <1>9
  <2>6. (m # n) => (m \in cpending' <=> m \in cpending)
    BY <1>9
  <2> QED BY <1>7, <1>d, <2>1, <2>2, <2>3, <2>4, <2>5, <2>6 DEF AskTrue
<1> QED BY <1>10, <1>11, <1>14, <1>e, <1>15, <1>16

\* A step of an answer, which may save journal e.
LEMMA AnswerStep ==
    ASSUME SInv, mode = "serving", UNCHANGED <<mode, inc, held, conn, job, calls, out, turn, thread, sent>>,
           NEW e \in Journal, e.ops = mem.ops, e.thread = mem.thread,
           mem' \in {mem, e}, disk' \in {disk, e}, fatal' \in BOOLEAN, ~fatal' => disk' = mem',
           pending' \subseteq Turns, cpending' \subseteq Turns, replying' \subseteq Turns,
           answering' \in Ans, answering' # NoAnswer => answering'.id \in Controls, answered' \in [Requests -> [Turns -> Nat]]
    PROVE  Typed' /\ ModeTrue' /\ WorkTrue'
<1> USE DEF SInv
<1>1. Typed'
  BY DEF Typed
<1>2. ModeTrue'
  BY DEF ModeTrue
<1>3. WorkTrue'
  BY OutSame, WorkSame
<1> QED BY <1>1, <1>2, <1>3

\* A journal that stays is as true when only the answers move.
LEMMA AnswersRest ==
    ASSUME SInv, UNCHANGED <<inc, job, turn, sent>>
    PROVE  TurnsGrow /\ inc \in Nat /\ \A o \in Tasks : TaskRest(o)
  BY AgentSessionAssumption DEF SInv, TurnsGrow, TaskRest, Typed, Inc

LEMMA AnswersNext ==
    ASSUME NEW d \in Journal, NEW n \in Turns, AnswersTrue(d, n), UNCHANGED answered, replying' \subseteq replying,
           answering' = NoAnswer \/ answering' = [answering EXCEPT !.decided = TRUE], answering \in Ans,
           answering # NoAnswer \/ answering' = NoAnswer
    PROVE  AnswersTrue(d, n)'
<1>1. answering' # NoAnswer => (answering # NoAnswer /\ answering'.id = answering.id)
  BY DEF Ans
<1> QED BY <1>1 DEF AnswersTrue

LEMMA PermissionKeeps == ASSUME SInv, NEW c \in Controls, NEW n \in Turns, NEW ok \in BOOLEAN, Permission(c, n, ok) PROVE SInv'
<1> USE DEF SInv
<1>1. mode = "serving" /\ answering = NoAnswer /\ ~fatal /\ mem.controls[c] = NoControl
      /\ answering' = (IF ok THEN [id |-> c, of |-> n, decided |-> FALSE] ELSE NoAnswer)
      /\ UNCHANGED <<mode, inc, held, conn, pending, cpending, job, replying, calls, out, turn, thread, sent, answered>>
  BY DEF Permission, agent, ghost, Unlocked
<1>2. PICK d \in Journal : d = disk
  BY DEF Typed
<1>3. PICK b \in Journal : b = mem
  BY DEF Typed
<1>4. PICK e : e = [b EXCEPT !.controls[c] = [st |-> "dispatching", of |-> n]]
  OBVIOUS
<1>5. e \in Journal /\ e.ops = b.ops /\ e.bound = b.bound /\ e.thread = b.thread /\ e.requests = b.requests
      /\ e.controls = [b.controls EXCEPT ![c] = [st |-> "dispatching", of |-> n]]
  <2>1. n \in 0 .. MaxTurns
    BY AgentSessionAssumption DEF Turns
  <2>2. [st |-> "dispatching", of |-> n] \in Control
    BY <2>1 DEF Control
  <2> QED BY <1>4, <2>2 DEF Journal
<1>6. Save(e, ok)
  BY <1>3, <1>4 DEF Permission
<1>7. mem' = e /\ disk' \in {d, e} /\ fatal' \in BOOLEAN /\ (~fatal' => disk' = e)
  BY <1>2, <1>6, SaveIs DEF Typed
<1>8. answering' \in Ans /\ (answering' # NoAnswer => (ok /\ answering'.id = c /\ answering'.of = n /\ ~answering'.decided))
  <2>1. n \in 0 .. MaxTurns /\ 0 \in 0 .. MaxTurns
    BY AgentSessionAssumption DEF Turns
  <2>2. CASE ok
    BY <1>1, <2>1, <2>2 DEF Ans
  <2>3. CASE ~ok
    BY <1>1, <2>1, <2>3 DEF Ans, NoAnswer
  <2> QED BY <2>2, <2>3
<1>9. Typed' /\ ModeTrue' /\ WorkTrue'
  BY <1>1, <1>2, <1>3, <1>5, <1>7, <1>8, AnswerStep DEF Typed
<1>10. JournalTrue(e)'
  <2>1. ASSUME NEW m \in Turns PROVE AnswersTrue(e, m)'
    <3>1. AnswersTrue(b, m)
      BY <1>3 DEF JournalTrue
    <3>2. ASSUME answered["ask"][m] > 0
          PROVE  \E a \in Controls : e.controls[a].of = m /\ e.controls[a].st \in Told /\ a # c
      <4>1. PICK a \in Controls : b.controls[a].of = m /\ b.controls[a].st \in Told
        BY <3>1, <3>2 DEF AnswersTrue
      <4>2. a # c
        BY <1>1, <1>3, <4>1 DEF NoControl, Told
      <4>3. e.controls[a] = b.controls[a]
        BY <1>5, <4>2, JournalIs
      <4> QED BY <4>1, <4>2, <4>3
    <3> QED BY <1>1, <1>5, <1>8, <3>1, <3>2 DEF AnswersTrue
  <2>2. answering' # NoAnswer => e.controls[answering'.id] = [st |-> "dispatching", of |-> answering'.of]
    BY <1>5, <1>8, JournalIs
  <2> QED BY <1>1, <1>3, <1>5, <2>1, <2>2, AnswersRest, JournalAnswers
<1>11. ~ok => JournalTrue(d)'
  <2> SUFFICES ASSUME ~ok PROVE JournalTrue(d)'
    OBVIOUS
  <2> QED BY <1>1, <1>2, AnswersRest, JournalRests
<1>12. JournalTrue(mem)' /\ JournalTrue(disk)'
  BY <1>2, <1>6, <1>10, <1>11, Saved
<1>13. ASSUME NEW m \in Turns PROVE AskTrue(m)'
  <2>1. AskTrue(m)
    OBVIOUS
  <2>2. ~answering'.decided /\ ~answering.decided
    BY <1>1 DEF NoAnswer
  <2> QED BY <1>1, <2>1, <2>2 DEF AskTrue
<1> QED BY <1>9, <1>12, <1>13

LEMMA DecideKeeps == ASSUME SInv, NEW ok \in BOOLEAN, Decide(ok) PROVE SInv'
<1> USE DEF SInv
<1>1. answering.of \in pending /\ ~answering.decided /\ ~fatal
      /\ pending' = (IF ok THEN pending \ {answering.of} ELSE pending)
      /\ answering' = (IF ok THEN [answering EXCEPT !.decided = TRUE] ELSE NoAnswer)
      /\ UNCHANGED <<mode, inc, held, conn, cpending, job, replying, calls, out, turn, thread, sent, answered>>
  BY DEF Decide, agent, ghost
<1>2. PICK d \in Journal : d = disk
  BY DEF Typed
<1>3. PICK e \in Journal : e = mem
  BY DEF Typed
<1>4. answering # NoAnswer /\ answering \in Ans /\ answering.of \in Turns
  BY <1>1 DEF NoAnswer, Typed, Turns
<1>5. mode = "serving" /\ answering.id \in Controls
  BY <1>4, Serving DEF ModeTrue
<1>6. Save(e, ok)
  BY <1>3 DEF Decide
<1>7. mem' = e /\ disk' \in {d, e} /\ fatal' \in BOOLEAN /\ (~fatal' => disk' = e)
  BY <1>2, <1>6, SaveIs DEF Typed
<1>8. answering' \in Ans /\ (answering' # NoAnswer => (ok /\ answering'.id = answering.id /\ answering'.of = answering.of))
      /\ (answering'.decided => ok) /\ (ok => answering'.of = answering.of)
  <2>1. CASE ok
    <3>1. PICK a \in Ans : a = answering
      BY <1>4
    <3>2. answering' = [a EXCEPT !.decided = TRUE] /\ answering'.id = a.id /\ answering'.of = a.of
      BY <1>1, <2>1, <3>1 DEF Ans
    <3>3. answering' \in Ans
      BY <3>2 DEF Ans
    <3> QED BY <2>1, <3>1, <3>2, <3>3
  <2>2. CASE ~ok
    BY <1>1, <2>2, AgentSessionAssumption DEF Ans, NoAnswer
  <2> QED BY <2>1, <2>2
<1>9. Typed' /\ ModeTrue' /\ WorkTrue'
  BY <1>1, <1>2, <1>3, <1>5, <1>7, <1>8, AnswerStep DEF Typed
<1>10. ASSUME NEW j \in Journal, JournalTrue(j) PROVE JournalTrue(j)'
  <2>1. ASSUME NEW m \in Turns PROVE AnswersTrue(j, m)'
    <3>1. AnswersTrue(j, m)
      BY <1>10 DEF JournalTrue
    <3> QED BY <1>1, <1>4, <3>1, AnswersNext
  <2>2. answering' # NoAnswer => j.controls[answering'.id] = [st |-> "dispatching", of |-> answering'.of]
    BY <1>4, <1>8, <1>10 DEF JournalTrue
  <2> QED BY <1>1, <1>10, <2>1, <2>2, AnswersRest, JournalAnswers
<1>11. JournalTrue(mem)' /\ JournalTrue(disk)'
  BY <1>2, <1>3, <1>6, <1>10, Saved
<1>12. ASSUME NEW m \in Turns PROVE AskTrue(m)'
  <2>1. AskTrue(m)
    OBVIOUS
  <2>2. CASE m = answering.of
    <3>1. answered["ask"][m] = 0 /\ "ask" \in turn[m].made /\ ~In(out, Event("ask", m))
      BY <1>1, <2>1, <2>2 DEF AskTrue
    <3>2. answering'.decided => m \notin pending'
      BY <1>1, <1>8, <2>2
    <3> QED BY <1>1, <2>1, <3>1, <3>2 DEF AskTrue
  <2>3. CASE m # answering.of
    <3>1. (m \in pending' => m \in pending) /\ ~(answering'.decided /\ answering'.of = m)
      BY <1>1, <1>8, <2>3
    <3> QED BY <1>1, <2>1, <3>1 DEF AskTrue
  <2> QED BY <2>2, <2>3
<1> QED BY <1>9, <1>11, <1>12

ControlSetTo(e, b, c, s) ==
    /\ e = [b EXCEPT !.controls[c].st = s]
    /\ e.ops = b.ops /\ e.bound = b.bound /\ e.thread = b.thread /\ e.requests = b.requests
    /\ \A a \in Controls : a # c => e.controls[a] = b.controls[a]
    /\ e.controls[c].of = b.controls[c].of /\ e.controls[c].st = s

LEMMA ControlSet ==
    ASSUME NEW b \in Journal, NEW c \in Controls, NEW s \in {"sent", "unknown", "unsupported", "refused"}
    PROVE  \E e \in Journal : ControlSetTo(e, b, c, s)
<1>1. PICK k \in Control : k = b.controls[c]
  BY JournalIs
<1>2. PICK l \in Control : l = [k EXCEPT !.st = s]
  BY DEF Control
<1>3. l.of = k.of /\ l.st = s
  BY <1>2 DEF Control
<1>4. PICK f \in [Controls -> Control] : f = [b.controls EXCEPT ![c] = l]
  BY JournalIs
<1>5. f[c] = l /\ \A a \in Controls : a # c => f[a] = b.controls[a]
  BY <1>4, JournalIs
<1>6. PICK e : e = [b EXCEPT !.controls = f]
  OBVIOUS
<1>7. e \in Journal /\ e.controls = f /\ e.ops = b.ops /\ e.bound = b.bound /\ e.thread = b.thread /\ e.requests = b.requests
  BY <1>6 DEF Journal
<1>8. e = [b EXCEPT !.controls[c].st = s]
  BY <1>1, <1>2, <1>4, <1>6
<1> QED BY <1>1, <1>3, <1>5, <1>7, <1>8 DEF ControlSetTo

LEMMA UndecidedKeeps == ASSUME SInv, NEW ok \in BOOLEAN, Undecided(ok) PROVE SInv'
<1> USE DEF SInv
<1>1. answering # NoAnswer /\ ~answering.decided /\ answering' = NoAnswer
      /\ UNCHANGED <<mode, inc, held, conn, pending, cpending, job, replying, calls, out, turn, thread, sent, answered>>
  BY DEF Undecided, agent, ghost
<1>2. PICK d \in Journal : d = disk
  BY DEF Typed
<1>3. PICK b \in Journal : b = mem
  BY DEF Typed
<1>4. mode = "serving" /\ answering \in Ans /\ answering.id \in Controls
  BY <1>1, Serving DEF ModeTrue, Typed
<1>5. PICK c \in Controls : c = answering.id
  BY <1>4
<1>6. PICK s \in {"unsupported", "refused"} : s = (IF answering.of \in pending THEN "unsupported" ELSE "refused")
  OBVIOUS
<1>7. PICK e \in Journal : ControlSetTo(e, b, c, s)
  BY <1>5, <1>6, ControlSet
<1>8. e \in Journal /\ e.ops = b.ops /\ e.bound = b.bound /\ e.thread = b.thread /\ e.requests = b.requests
      /\ (\A a \in Controls : a # c => e.controls[a] = b.controls[a]) /\ e.controls[c].of = b.controls[c].of /\ e.controls[c].st = s
  BY <1>7 DEF ControlSetTo
<1>9. (fatal /\ UNCHANGED <<mem, disk, fatal>>) \/ (~fatal /\ Save(e, ok))
  BY <1>3, <1>5, <1>6, <1>7 DEF Undecided, store, ControlSetTo
<1>10. mem' \in {b, e} /\ disk' \in {d, e} /\ fatal' \in BOOLEAN /\ (~fatal' => disk' = mem')
  BY <1>2, <1>3, <1>9, SaveIs DEF Typed
<1>11. answering' \in Ans
  BY <1>1, AgentSessionAssumption DEF Ans, NoAnswer
<1>12. Typed' /\ ModeTrue' /\ WorkTrue'
  BY <1>1, <1>2, <1>3, <1>4, <1>8, <1>10, <1>11, AnswerStep DEF Typed
<1>13. ASSUME NEW j \in Journal, JournalTrue(j) PROVE JournalTrue(j)'
  <2>1. ASSUME NEW m \in Turns PROVE AnswersTrue(j, m)'
    <3>1. AnswersTrue(j, m)
      BY <1>13 DEF JournalTrue
    <3> QED BY <1>1, <1>4, <3>1, AnswersNext
  <2> QED BY <1>1, <1>13, <2>1, AnswersRest, JournalAnswers
<1>14. JournalTrue(e)'
  <2>1. ASSUME NEW m \in Turns PROVE AnswersTrue(e, m)'
    <3>1. AnswersTrue(b, m)
      BY <1>3 DEF JournalTrue
    <3>2. ASSUME answered["ask"][m] > 0 PROVE \E a \in Controls : e.controls[a].of = m /\ e.controls[a].st \in Told
      <4>1. PICK a \in Controls : b.controls[a].of = m /\ b.controls[a].st \in Told /\ a # c
        BY <1>1, <1>5, <3>1, <3>2 DEF AnswersTrue
      <4> QED BY <1>8, <4>1
    <3> QED BY <1>1, <1>8, <3>1, <3>2 DEF AnswersTrue
  <2> QED BY <1>1, <1>3, <1>8, <2>1, AnswersRest, JournalAnswers
<1>15. JournalTrue(mem)'
  BY <1>3, <1>10, <1>13, <1>14, MemIs
<1>16. JournalTrue(disk)'
  BY <1>2, <1>10, <1>13, <1>14, DiskIs
<1>17. ASSUME NEW m \in Turns PROVE AskTrue(m)'
  <2>1. AskTrue(m)
    OBVIOUS
  <2>2. ~answering'.decided
    BY <1>1 DEF NoAnswer
  <2> QED BY <1>1, <2>1, <2>2 DEF AskTrue
<1> QED BY <1>12, <1>15, <1>16, <1>17

\* Answer writes at most one more.
LEMMA AnswerIs ==
    ASSUME Typed, NEW r \in Requests, NEW n \in Turns, Answer(r, n)
    PROVE  /\ answered' \in [Requests -> [Turns -> Nat]]
           /\ \A q \in Requests, m \in Turns : (q # r \/ m # n) => answered'[q][m] = answered[q][m]
           /\ answered[r][n] = 0 => answered'[r][n] <= 1
<1>1. PICK a \in [Requests -> [Turns -> Nat]] : a = answered
  BY DEF Typed
<1>2. PICK v \in Nat : v = (IF conn /\ a[r][n] < 2 THEN a[r][n] + 1 ELSE a[r][n])
  OBVIOUS
<1>3. answered' = [a EXCEPT ![r] = [a[r] EXCEPT ![n] = v]]
  BY <1>1, <1>2 DEF Answer
<1>4. answered' \in [Requests -> [Turns -> Nat]] /\ answered'[r] = [a[r] EXCEPT ![n] = v]
  BY <1>3
<1>5. \A q \in Requests, m \in Turns : (q # r \/ m # n) => answered'[q][m] = a[q][m]
  BY <1>3
<1>6. answered'[r][n] = v
  BY <1>4
<1> QED BY <1>1, <1>2, <1>4, <1>5, <1>6

LEMMA PermissionSentKeeps == ASSUME SInv, NEW ok \in BOOLEAN, PermissionSent(ok) PROVE SInv'
<1> USE DEF SInv
<1>1. answering.decided /\ answering' = NoAnswer /\ Answer("ask", answering.of)
      /\ UNCHANGED <<mode, inc, held, conn, pending, cpending, job, replying, calls, out, turn, thread, sent>>
  BY DEF PermissionSent, agent
<1>2. PICK d \in Journal : d = disk
  BY DEF Typed
<1>3. PICK b \in Journal : b = mem
  BY DEF Typed
<1>a. answering # NoAnswer
  BY <1>1 DEF NoAnswer
<1>4. mode = "serving" /\ answering \in Ans /\ answering.id \in Controls
  BY <1>a, Serving DEF ModeTrue, Typed
<1>5. PICK c \in Controls : c = answering.id
  BY <1>4
<1>b. b.controls[c] = [st |-> "dispatching", of |-> answering.of] /\ d.controls[c] = [st |-> "dispatching", of |-> answering.of]
  BY <1>2, <1>3, <1>5, <1>a DEF JournalTrue
<1>6. PICK s \in {"sent", "unknown"} : s = (IF conn THEN "sent" ELSE "unknown")
  OBVIOUS
<1>7. PICK e \in Journal : ControlSetTo(e, b, c, s)
  BY <1>5, <1>6, ControlSet
<1>8. e \in Journal /\ e.ops = b.ops /\ e.bound = b.bound /\ e.thread = b.thread /\ e.requests = b.requests
      /\ (\A a \in Controls : a # c => e.controls[a] = b.controls[a]) /\ e.controls[c].of = b.controls[c].of /\ e.controls[c].st = s
  BY <1>7 DEF ControlSetTo
<1>9. (fatal /\ UNCHANGED <<mem, disk, fatal>>) \/ (~fatal /\ Save(e, ok))
  BY <1>3, <1>5, <1>6, <1>7 DEF PermissionSent, store, ControlSetTo
<1>10. mem' \in {b, e} /\ disk' \in {d, e} /\ fatal' \in BOOLEAN /\ (~fatal' => disk' = mem')
  BY <1>2, <1>3, <1>9, SaveIs DEF Typed
<1>11. answering' \in Ans
  BY <1>1, AgentSessionAssumption DEF Ans, NoAnswer
<1>12. answered' \in [Requests -> [Turns -> Nat]] /\ \A m \in Turns : answered'["call"][m] = answered["call"][m] /\
          (m # answering.of => answered'["ask"][m] = answered["ask"][m])
  <2>1. CASE answering.of \in Turns
    BY <1>1, <2>1, AnswerIs DEF Requests
  <2>2. CASE answering.of \notin Turns
    <3>1. PICK a \in [Requests -> [Turns -> Nat]] : a = answered
      BY DEF Typed
    <3>2. answered' = a
      BY <1>1, <2>2, <3>1 DEF Answer
    <3> QED BY <3>1, <3>2
  <2> QED BY <2>1, <2>2
<1>13. Typed' /\ ModeTrue' /\ WorkTrue'
  BY <1>1, <1>2, <1>3, <1>4, <1>8, <1>10, <1>11, <1>12, AnswerStep DEF Typed
<1>14. ASSUME NEW j \in {b, d, e} PROVE JournalTrue(j)'
  <2>1. PICK i \in {b, d} : JournalTrue(i) /\ i.ops = j.ops /\ i.bound = j.bound /\ i.requests = j.requests /\ i \in Journal
                            /\ \A a \in Controls : a # c => j.controls[a] = i.controls[a]
    BY <1>2, <1>3, <1>8
  <2>2. j.controls[c].of = answering.of /\ j.controls[c].st \in Told /\ j \in Journal
    BY <1>b, <1>8 DEF Told
  <2>3. ASSUME NEW m \in Turns PROVE AnswersTrue(j, m)'
    <3>1. AnswersTrue(i, m)
      BY <2>1 DEF JournalTrue
    <3>2. ASSUME answered'["ask"][m] > 0 PROVE \E a \in Controls : j.controls[a].of = m /\ j.controls[a].st \in Told
      <4>1. CASE m = answering.of
        BY <2>2, <4>1
      <4>2. CASE m # answering.of
        <5>1. PICK a \in Controls : i.controls[a].of = m /\ i.controls[a].st \in Told /\ a # c
          BY <1>a, <1>5, <1>12, <3>1, <3>2, <4>2 DEF AnswersTrue
        <5> QED BY <2>1, <5>1
      <4> QED BY <4>1, <4>2
    <3> QED BY <1>1, <1>12, <2>1, <3>1, <3>2 DEF AnswersTrue
  <2> QED BY <1>1, <2>1, <2>2, <2>3, AnswersRest, JournalAnswers
<1>15. JournalTrue(mem)'
  BY <1>10, <1>14, MemIs
<1>16. JournalTrue(disk)'
  BY <1>10, <1>14, DiskIs
<1>17. ASSUME NEW m \in Turns PROVE AskTrue(m)'
  <2>1. AskTrue(m)
    OBVIOUS
  <2>2. ~answering'.decided
    BY <1>1 DEF NoAnswer
  <2>3. CASE m = answering.of
    <3>1. answered["ask"][m] = 0 /\ "ask" \in turn[m].made /\ ~In(out, Event("ask", m)) /\ m \notin pending
      BY <1>1, <2>1, <2>3 DEF AskTrue
    <3>2. answered'["ask"][m] <= 1
      BY <1>1, <2>3, <3>1, AnswerIs DEF Requests
    <3>3. \A r \in Requests : (In(out', Event(r, m)) \/ answered'[r][m] > 0) => r \in turn'[m].made
      <4>1. ASSUME NEW r \in Requests, In(out', Event(r, m)) \/ answered'[r][m] > 0 PROVE r \in turn'[m].made
        <5>1. CASE r = "ask"
          BY <1>1, <3>1, <5>1
        <5>2. CASE r = "call"
          BY <1>1, <1>12, <2>1, <4>1, <5>2 DEF AskTrue, Requests
        <5> QED BY <5>1, <5>2 DEF Requests
      <4> QED BY <4>1
    <3> QED BY <1>1, <1>12, <2>1, <2>2, <3>1, <3>2, <3>3 DEF AskTrue
  <2>4. CASE m # answering.of
    <3>1. \A r \in Requests : answered'[r][m] = answered[r][m]
      BY <1>12, <2>4 DEF Requests
    <3>2. answered'["ask"][m] = answered["ask"][m] /\ answered'["call"][m] = answered["call"][m]
      BY <3>1 DEF Requests
    <3> QED BY <1>1, <2>1, <2>2, <3>1, <3>2 DEF AskTrue
  <2> QED BY <2>3, <2>4
<1> QED BY <1>13, <1>15, <1>16, <1>17

LEMMA ReplyKeeps == ASSUME SInv, NEW n \in Turns, NEW ok \in BOOLEAN, Reply(n, ok) PROVE SInv'
<1> USE DEF SInv
<1>1. mode = "serving" /\ answering = NoAnswer /\ ~fatal /\ n \in cpending
      /\ cpending' = (IF ok THEN cpending \ {n} ELSE cpending)
      /\ replying' = (IF ok THEN replying \cup {n} ELSE replying)
      /\ UNCHANGED <<mode, inc, held, conn, pending, job, answering, calls, out, turn, thread, sent, answered>>
  BY DEF Reply, agent, ghost, Unlocked
<1>2. PICK d \in Journal : d = disk
  BY DEF Typed
<1>3. PICK b \in Journal : b = mem
  BY DEF Typed
<1>4. PICK e : e = [b EXCEPT !.requests[n] = "dispatching"]
  OBVIOUS
<1>5. e \in Journal /\ e.ops = b.ops /\ e.bound = b.bound /\ e.thread = b.thread /\ e.controls = b.controls
      /\ e.requests[n] = "dispatching" /\ \A m \in Turns : m # n => e.requests[m] = b.requests[m]
  BY <1>4 DEF Journal
<1>6. Save(e, ok)
  BY <1>3, <1>4 DEF Reply
<1>7. mem' = e /\ disk' \in {d, e} /\ fatal' \in BOOLEAN /\ (~fatal' => disk' = e)
  BY <1>2, <1>6, SaveIs DEF Typed
<1>8. Typed' /\ ModeTrue' /\ WorkTrue'
  <2>1. cpending' \subseteq Turns /\ replying' \subseteq Turns /\ pending' \subseteq Turns /\ answering' \in Ans /\ answered' \in [Requests -> [Turns -> Nat]]
    BY <1>1 DEF Typed
  <2> QED BY <1>1, <1>2, <1>3, <1>5, <1>7, <2>1, AnswerStep
<1>9. JournalTrue(e)'
  <2>1. ASSUME NEW m \in Turns PROVE AnswersTrue(e, m)'
    <3>1. AnswersTrue(b, m)
      BY <1>3 DEF JournalTrue
    <3>2. m # n => (m \in replying' <=> m \in replying)
      BY <1>1
    <3> QED BY <1>1, <1>5, <3>1, <3>2 DEF AnswersTrue
  <2> QED BY <1>1, <1>3, <1>5, <2>1, AnswersRest, JournalAnswers
<1>10. ~ok => JournalTrue(d)'
  <2> SUFFICES ASSUME ~ok PROVE JournalTrue(d)'
    OBVIOUS
  <2> QED BY <1>1, <1>2, AnswersRest, JournalRests
<1>11. JournalTrue(mem)' /\ JournalTrue(disk)'
  BY <1>2, <1>6, <1>9, <1>10, Saved
<1>12. ASSUME NEW m \in Turns PROVE AskTrue(m)'
  <2>1. AskTrue(m)
    OBVIOUS
  <2>2. CASE m = n
    <3>1. answered["call"][m] = 0 /\ "call" \in turn[m].made /\ ~In(out, Event("call", m))
      BY <1>1, <2>1, <2>2 DEF AskTrue
    <3>2. m \in cpending' => m \notin replying'
      BY <1>1, <2>1, <2>2 DEF AskTrue
    <3> QED BY <1>1, <2>1, <3>1, <3>2 DEF AskTrue
  <2>3. CASE m # n
    <3>1. (m \in cpending' <=> m \in cpending) /\ (m \in replying' <=> m \in replying)
      BY <1>1, <2>3
    <3> QED BY <1>1, <2>1, <3>1 DEF AskTrue
  <2> QED BY <2>2, <2>3
<1> QED BY <1>8, <1>11, <1>12

LEMMA ReplySentKeeps == ASSUME SInv, NEW n \in Turns, NEW ok \in BOOLEAN, ReplySent(n, ok) PROVE SInv'
<1> USE DEF SInv
<1>1. n \in replying /\ replying' = replying \ {n} /\ Answer("call", n)
      /\ UNCHANGED <<mode, inc, held, conn, pending, cpending, job, answering, calls, out, turn, thread, sent>>
  BY DEF ReplySent, agent
<1>2. PICK d \in Journal : d = disk
  BY DEF Typed
<1>3. PICK b \in Journal : b = mem
  BY DEF Typed
<1>a. mode = "serving"
  BY <1>1, Serving
<1>b. b.requests[n] = "dispatching" /\ d.requests[n] = "dispatching"
  BY <1>1, <1>2, <1>3 DEF JournalTrue, AnswersTrue
<1>4. PICK s \in {"written", "unknown"} : s = (IF conn THEN "written" ELSE "unknown")
  OBVIOUS
<1>c. PICK e : e = [b EXCEPT !.requests[n] = s]
  OBVIOUS
<1>5. e \in Journal /\ e.ops = b.ops /\ e.bound = b.bound /\ e.thread = b.thread /\ e.controls = b.controls
      /\ e.requests[n] = s /\ \A m \in Turns : m # n => e.requests[m] = b.requests[m]
  BY <1>c DEF Journal
<1>6. (fatal /\ UNCHANGED <<mem, disk, fatal>>) \/ (~fatal /\ Save(e, ok))
  BY <1>3, <1>4, <1>c DEF ReplySent, store
<1>7. mem' \in {b, e} /\ disk' \in {d, e} /\ fatal' \in BOOLEAN /\ (~fatal' => disk' = mem')
  BY <1>2, <1>3, <1>6, SaveIs DEF Typed
<1>8. answered' \in [Requests -> [Turns -> Nat]] /\ \A m \in Turns : answered'["ask"][m] = answered["ask"][m] /\
          (m # n => answered'["call"][m] = answered["call"][m])
  BY <1>1, AnswerIs DEF Requests
<1>9. Typed' /\ ModeTrue' /\ WorkTrue'
  <2>1. cpending' \subseteq Turns /\ replying' \subseteq Turns /\ pending' \subseteq Turns /\ answering' \in Ans /\ (answering' # NoAnswer => answering'.id \in Controls)
    BY <1>1 DEF Typed, ModeTrue
  <2> QED BY <1>1, <1>2, <1>3, <1>a, <1>5, <1>7, <1>8, <2>1, AnswerStep
<1>10. ASSUME NEW j \in {b, d, e} PROVE JournalTrue(j)'
  <2>1. PICK i \in {b, d} : JournalTrue(i) /\ i.ops = j.ops /\ i.bound = j.bound /\ i.controls = j.controls /\ i \in Journal
                            /\ \A m \in Turns : m # n => j.requests[m] = i.requests[m]
    BY <1>2, <1>3, <1>5
  <2>2. j.requests[n] \in {"dispatching", "written", "unknown"} /\ j \in Journal
    BY <1>b, <1>5
  <2>3. ASSUME NEW m \in Turns PROVE AnswersTrue(j, m)'
    <3>1. AnswersTrue(i, m)
      BY <2>1 DEF JournalTrue
    <3>2. CASE m = n
      <4>1. n \notin replying'
        BY <1>1
      <4> QED BY <1>1, <1>8, <2>1, <2>2, <3>1, <3>2, <4>1 DEF AnswersTrue
    <3>3. CASE m # n
      <4>1. m \in replying' <=> m \in replying
        BY <1>1, <3>3
      <4> QED BY <1>1, <1>8, <2>1, <3>1, <3>3, <4>1 DEF AnswersTrue
    <3> QED BY <3>2, <3>3
  <2>4. answering' # NoAnswer => j.controls[answering'.id] = [st |-> "dispatching", of |-> answering'.of]
    BY <1>1, <2>1 DEF JournalTrue
  <2> QED BY <1>1, <2>1, <2>2, <2>3, <2>4, AnswersRest, JournalAnswers
<1>11. JournalTrue(mem)'
  BY <1>7, <1>10, MemIs
<1>12. JournalTrue(disk)'
  BY <1>7, <1>10, DiskIs
<1>13. ASSUME NEW m \in Turns PROVE AskTrue(m)'
  <2>1. AskTrue(m)
    OBVIOUS
  <2>2. CASE m = n
    <3>1. answered["call"][m] = 0 /\ "call" \in turn[m].made /\ ~In(out, Event("call", m)) /\ m \notin cpending /\ m \notin replying'
      BY <1>1, <2>1, <2>2 DEF AskTrue
    <3>2. answered'["call"][m] <= 1
      BY <1>1, <2>2, <3>1, AnswerIs DEF Requests
    <3>3. ASSUME NEW r \in Requests, In(out', Event(r, m)) \/ answered'[r][m] > 0 PROVE r \in turn'[m].made
      <4>1. CASE r = "call"
        BY <1>1, <3>1, <4>1
      <4>2. CASE r = "ask"
        BY <1>1, <1>8, <2>1, <3>3, <4>2 DEF AskTrue, Requests
      <4> QED BY <4>1, <4>2 DEF Requests
    <3> QED BY <1>1, <1>8, <2>1, <3>1, <3>2, <3>3 DEF AskTrue
  <2>3. CASE m # n
    <3>1. \A r \in Requests : answered'[r][m] = answered[r][m]
      BY <1>8, <2>3 DEF Requests
    <3>2. answered'["ask"][m] = answered["ask"][m] /\ answered'["call"][m] = answered["call"][m]
      BY <3>1 DEF Requests
    <3>3. m \in replying' <=> m \in replying
      BY <1>1, <2>3
    <3> QED BY <1>1, <2>1, <3>1, <3>2, <3>3 DEF AskTrue
  <2> QED BY <2>2, <2>3
<1> QED BY <1>9, <1>11, <1>12, <1>13

(****************************** opening and resuming *********************************)
LEMMA ResumeKeeps == ASSUME SInv, NEW ok \in BOOLEAN, Resume(ok) PROVE SInv'
<1> USE DEF SInv
<1>1. mode = "opened" /\ UNCHANGED <<inc, conn, pending, cpending, job, answering, replying, calls, out, turn, thread, sent, answered>>
      /\ mode' \in {"resuming", "serving"} /\ held' \in BOOLEAN
  BY DEF Resume, agent, ghost, Typed
<1>2. PICK e \in Journal : e = mem
  BY DEF Typed
<1>3. \/ mem.thread = 0 /\ UNCHANGED <<mem, disk, fatal, held>> /\ mode' = "serving"
      \/ Save(e, ok) /\ held' = ~ok /\ mode' = (IF ok THEN "resuming" ELSE "serving")
  BY <1>2 DEF Resume, store
<1>4. e = disk /\ ~fatal /\ ~held
  BY <1>1, <1>2 DEF ModeTrue
<1>5. mem' = e /\ disk' = e /\ fatal' \in BOOLEAN /\ (mode' = "resuming" => ~fatal' /\ ~held')
      /\ (mode' = "serving" /\ ~held' => e.thread = 0)
  BY <1>2, <1>3, <1>4, SaveIs DEF Typed
<1>6. Typed'
  BY <1>1, <1>5 DEF Typed
<1>7. ModeTrue'
  BY <1>1, <1>5 DEF ModeTrue, IsLive
<1>8. JournalTrue(e)'
  BY <1>1, <1>2, AnswersRest, JournalRests
<1>9. JournalTrue(mem)' /\ JournalTrue(disk)'
  BY <1>5, <1>8, MemIs, DiskIs
<1>10. WorkTrue'
  BY <1>1, <1>2, <1>5, OutSame, WorkSame
<1>11. \A n \in Turns : AskTrue(n)'
  BY <1>1, AsksRest
<1> QED BY <1>6, <1>7, <1>9, <1>10, <1>11

LEMMA DisconnectKeeps == ASSUME SInv, Disconnect PROVE SInv'
<1> USE DEF SInv
<1>1. mode # "down" /\ conn' = FALSE
      /\ UNCHANGED <<mode, inc, mem, disk, fatal, held, pending, cpending, job, answering, replying, calls, out, turn, thread, sent, answered>>
  BY DEF Disconnect, agent, ghost
<1>2. PICK e \in Journal : e = mem
  BY DEF Typed
<1>3. PICK d \in Journal : d = disk
  BY DEF Typed
<1>4. Typed'
  BY <1>1 DEF Typed
<1>5. ModeTrue'
  BY <1>1 DEF ModeTrue, IsLive
<1>6. JournalTrue(e)' /\ JournalTrue(d)'
  BY <1>1, <1>2, <1>3, AnswersRest, JournalRests
<1>7. JournalTrue(mem)' /\ JournalTrue(disk)'
  BY <1>1, <1>2, <1>3, <1>6, MemIs, DiskIs
<1>8. WorkTrue'
  BY <1>1, OutSame, WorkSame
<1>9. \A n \in Turns : AskTrue(n)'
  BY <1>1, AsksRest
<1> QED BY <1>4, <1>5, <1>7, <1>8, <1>9

(********************************** tasks, by action *********************************)
\* A step of a task's submission, which may save journal e.
LEMMA TaskStep ==
    ASSUME SInv, mode = "serving", UNCHANGED <<mode, inc, pending, cpending, replying, answering, turn, thread, answered>>,
           NEW e \in Journal, mem' \in {mem, e}, disk' \in {disk, e}, fatal' \in BOOLEAN, ~fatal' => disk' = mem',
           held' \in BOOLEAN, conn' \in BOOLEAN, job' \in [Tasks -> Job], \A o \in Tasks : job'[o].step # "idle" => ~held',
           ~held' => mem'.thread \in {0} \cup thread.loaded,
           calls' \subseteq Call, out' \in Seq(Msg), sent' \in [Tasks -> Nat]
    PROVE  Typed' /\ ModeTrue'
<1> USE DEF SInv
<1>1. Typed'
  BY DEF Typed
<1>2. ModeTrue'
  BY DEF ModeTrue
<1> QED BY <1>1, <1>2

\* What has an end or a successor is not this incarnation's open task.
LEMMA NotOwn ==
    ASSUME SInv, NEW o \in Tasks, IsOpen(mem, o) => (Closed(mem, o) \/ mem.ops[o].inc # inc)
    PROVE  ~Own(mem, o)
<1>1. PICK b \in Journal : b = mem
  BY DEF SInv, Typed
<1>2. b.ops[o].inc \in Nat /\ b.bound[o].inc \in Nat /\ inc \in Nat
  BY <1>1, JournalIs, AgentSessionAssumption DEF SInv, Typed, Inc
<1> QED BY <1>1, <1>2 DEF SInv, JournalTrue, TaskTrue, Own

\* Without an open task the agent works for nobody.
LEMMA NobodyWorks ==
    ASSUME SInv, \A o \in Tasks : ~Own(mem, o)
    PROVE  /\ \A o \in Tasks : job[o].step \notin {"begun", "thread"}
           /\ \A c \in calls : ~(c.k = "turn" /\ c.id = Waiting)
           /\ \A n \in Turns : ~IsLive(n) /\ ~In(out, Event("ended", n))
<1> USE DEF SInv
<1>1. \A o \in Tasks : job[o].step \notin {"begun", "thread"}
  BY DEF WorkTrue, JobTrue
<1>2. \A c \in calls : ~(c.k = "turn" /\ c.id = Waiting)
  BY DEF WorkTrue, CallTrue, Typed, Call
<1>3. ASSUME NEW n \in Turns PROVE ~IsLive(n) /\ ~In(out, Event("ended", n))
  <2>1. TurnTrue(n) /\ (In(out, Event("ended", n)) => SaysTrue(Event("ended", n)))
    BY EventOf DEF WorkTrue
  <2>2. IsLive(n) => FALSE
    BY <2>1 DEF TurnTrue, IsLive, NoTurn
  <2>3. In(out, Event("ended", n)) => FALSE
    <3> SUFFICES ASSUME In(out, Event("ended", n)) PROVE FALSE
      OBVIOUS
    <3>1. turn[n].st \in Ends /\ Own(mem, turn[n].of)
      BY <2>1, EventOf DEF SaysTrue
    <3>2. turn[n].of \in Tasks
      BY <2>1, <3>1 DEF TurnTrue, NoTurn, Ends
    <3> QED BY <3>1, <3>2
  <2> QED BY <2>2, <2>3
<1> QED BY <1>1, <1>2, <1>3

OpSetTo(e, b, o, p) ==
    /\ e = [b EXCEPT !.ops[o] = p]
    /\ e.requests = b.requests /\ e.controls = b.controls /\ e.bound = b.bound /\ e.thread = b.thread
    /\ e.ops[o] = p /\ \A q \in Tasks : q # o => e.ops[q] = b.ops[q]

LEMMA OpSet ==
    ASSUME NEW b \in Journal, NEW o \in Tasks, NEW p \in Op
    PROVE  \E e \in Journal : OpSetTo(e, b, o, p)
<1>1. PICK e : e = [b EXCEPT !.ops[o] = p]
  OBVIOUS
<1>2. e \in Journal /\ e.requests = b.requests /\ e.controls = b.controls /\ e.bound = b.bound /\ e.thread = b.thread
      /\ e.ops = [b.ops EXCEPT ![o] = p] /\ b.ops \in [Tasks -> Op]
  BY <1>1 DEF Journal
<1> QED BY <1>1, <1>2 DEF OpSetTo

\* The journal e of one changed task.
LEMMA OneTask ==
    ASSUME SInv, NEW d \in Journal, NEW e \in Journal, NEW o \in Tasks, JournalTrue(d),
           e.requests = d.requests, e.controls = d.controls, e.bound = d.bound,
           \A q \in Tasks : q # o => e.ops[q] = d.ops[q], UNCHANGED <<answered, replying, answering>>,
           TurnsGrow, \A q \in Tasks : q # o => TaskRest(q), TaskTrue(e, o)'
    PROVE  JournalTrue(e)'
<1>1. ASSUME NEW q \in Tasks PROVE TaskTrue(e, q)'
  <2>1. CASE q # o
    <3>1. TaskTrue(d, q) /\ OpSame(d, e, q) /\ TaskRest(q)
      BY <2>1 DEF JournalTrue, OpSame
    <3> QED BY <3>1, TaskNext
  <2> QED BY <2>1
<1> QED BY <1>1, JournalTasks

\* A task whose goroutine goes on or stops.
LEMMA TasksRest ==
    ASSUME SInv, UNCHANGED <<inc, turn, sent>>, \A o \in Tasks : job'[o].step # "idle" => job[o].step # "idle"
    PROVE  TurnsGrow /\ inc \in Nat /\ \A o \in Tasks : TaskRest(o)
  BY AgentSessionAssumption DEF SInv, TurnsGrow, TaskRest, Typed, Inc

LEMMA BeginKeeps == ASSUME SInv, NEW o \in Tasks, NEW ok \in BOOLEAN, Begin(o, ok) PROVE SInv'
<1> USE DEF SInv
<1>1. mode = "serving" /\ ~fatal /\ ~held /\ Acceptable(o)
      /\ job' = [job EXCEPT ![o].step = IF ok THEN "begun" ELSE "idle"]
      /\ UNCHANGED <<mode, inc, held, conn, pending, cpending, answering, replying, calls, out, turn, thread, sent, answered>>
  BY DEF Begin, agent, ghost
<1>2. PICK d \in Journal : d = disk
  BY DEF Typed
<1>3. PICK b \in Journal : b = mem
  BY DEF Typed
<1>4. b = d /\ inc # 0 /\ inc \in Inc /\ inc \in Nat
  BY <1>1, <1>2, <1>3, AgentSessionAssumption DEF ModeTrue, Typed, Inc
<1>5. PICK p \in Op : p = [NoOp EXCEPT !.inc = inc, !.st = "dispatching"]
  <2>1. 0 \in 0 .. MaxTurns /\ 0 \in Inc
    BY AgentSessionAssumption DEF Inc
  <2>2. PICK z \in Op : z = NoOp
    BY <2>1 DEF Op, NoOp
  <2>3. [z EXCEPT !.inc = inc, !.st = "dispatching"] \in Op
    BY <1>4 DEF Op
  <2> QED BY <2>2, <2>3
<1>6. p.inc = inc /\ p.turn = 0 /\ p.end = "none"
  BY <1>5 DEF NoOp
<1>7. PICK e \in Journal : OpSetTo(e, b, o, p)
  BY <1>3, <1>5, OpSet
<1>8. Save(e, ok)
  BY <1>3, <1>5, <1>7 DEF Begin, OpSetTo
<1>9. mem' = e /\ disk' \in {d, e} /\ fatal' \in BOOLEAN /\ (~fatal' => disk' = e)
  BY <1>2, <1>8, SaveIs DEF Typed
<1>10. job' \in [Tasks -> Job] /\ job'[o].step = (IF ok THEN "begun" ELSE "idle") /\ \A q \in Tasks : q # o => job'[q] = job[q]
  BY <1>1 DEF Typed, Job
<1>11. Typed' /\ ModeTrue'
  <2>1. ~held' => mem'.thread \in {0} \cup thread.loaded
    BY <1>1, <1>3, <1>7, <1>9 DEF OpSetTo, ModeTrue
  <2>2. \A q \in Tasks : job'[q].step # "idle" => ~held'
    BY <1>1
  <2> QED BY <1>1, <1>2, <1>3, <1>9, <1>10, <2>1, <2>2, TaskStep DEF Typed
<1>12. \A q \in Tasks : ~Own(mem, q)
  BY <1>1, NotOwn DEF Acceptable, ContinuedBy
<1>13. b.ops[o] = NoOp /\ b.ops[o].inc = 0 /\ TaskTrue(b, o)
  BY <1>1, <1>3 DEF Acceptable, NoOp, JournalTrue
<1>14. sent[o] = 0 /\ ~Closed(b, o)
  BY <1>13, AgentSessionAssumption DEF TaskTrue, Typed
<1>15. JournalTrue(e)'
  <2>1. TaskTrue(e, o)'
    BY <1>1, <1>4, <1>6, <1>7, <1>14, <1>9 DEF TaskTrue, OpSetTo, Closed
  <2>2. TurnsGrow /\ \A q \in Tasks : q # o => TaskRest(q)
    BY <1>1, <1>4, <1>10 DEF TurnsGrow, TaskRest
  <2> QED BY <1>1, <1>3, <1>7, <2>1, <2>2, OneTask DEF OpSetTo
<1>16. ~ok => JournalTrue(d)'
  <2> SUFFICES ASSUME ~ok PROVE JournalTrue(d)'
    OBVIOUS
  <2>1. \A q \in Tasks : job'[q].step # "idle" => job[q].step # "idle"
    BY <1>10
  <2> QED BY <1>1, <1>2, <2>1, TasksRest, JournalRests
<1>17. JournalTrue(mem)' /\ JournalTrue(disk)'
  BY <1>2, <1>8, <1>15, <1>16, Saved
<1>18. WorkTrue'
  <2>1. ASSUME NEW q \in Tasks PROVE OwnN(q) <=> q = o
    BY <1>1, <1>3, <1>4, <1>6, <1>7, <1>9, <1>12 DEF OwnN, Own, IsOpen, OpSetTo
  <2>2. ASSUME NEW q \in Tasks PROVE JobTrue(q)'
    <3>1. CASE q = o
      BY <1>1, <1>10, <1>14, <2>1, <3>1, OwnIs DEF JobTrue
    <3>2. CASE q # o
      BY <1>1, <1>10, <1>12, <3>2, NobodyWorks DEF JobTrue, WorkTrue
    <3> QED BY <3>1, <3>2
  <2> QED BY <1>1, <1>12, <2>1, <2>2, NobodyWorks, OutSame, WorkHost
<1>19. \A n \in Turns : AskTrue(n)'
  BY <1>1, AsksRest
<1> QED BY <1>11, <1>17, <1>18, <1>19

LEMMA SendKeeps == ASSUME SInv, NEW o \in Tasks, Send(o) PROVE SInv'
<1> USE DEF SInv
<1>1. PICK k \in {"thread", "turn"} : k = IF mem.thread = 0 THEN "thread" ELSE "turn"
  OBVIOUS
<1>2. job[o].step = "begun" /\ calls' = calls \cup {[k |-> k, of |-> o, id |-> Waiting]}
      /\ sent' = (IF k = "turn" THEN [sent EXCEPT ![o] = IF @ < 2 THEN @ + 1 ELSE @] ELSE sent)
      /\ job' = [job EXCEPT ![o] = [step |-> k, got |-> Waiting]]
      /\ UNCHANGED <<mode, inc, mem, disk, fatal, held, conn, pending, cpending, answering, replying, out, turn, thread, answered>>
  BY <1>1 DEF Send, store
<1>3. PICK d \in Journal : d = disk
  BY DEF Typed
<1>4. PICK b \in Journal : b = mem
  BY DEF Typed
<1>5. mode = "serving" /\ inc # 0 /\ inc \in Nat /\ ~held
  BY <1>2, Serving, AgentSessionAssumption DEF ModeTrue, Typed, Inc
<1>6. sent[o] = 0 /\ Own(mem, o)
  BY <1>2 DEF WorkTrue, JobTrue
<1>7. sent' \in [Tasks -> Nat] /\ sent'[o] = (IF k = "turn" THEN 1 ELSE 0) /\ \A q \in Tasks : q # o => sent'[q] = sent[q]
  BY <1>2, <1>6 DEF Typed
<1>8. PICK c \in Call : c = [k |-> k, of |-> o, id |-> Waiting]
  <2>1. Waiting \in Waiting .. MaxTurns
    BY AgentSessionAssumption DEF Waiting
  <2> QED BY <2>1 DEF Call
<1>9. c.k = k /\ c.of = o /\ c.id = Waiting /\ calls' = calls \cup {c}
  BY <1>2, <1>8
<1>10. job' \in [Tasks -> Job] /\ job'[o].step = k /\ job'[o].got = Waiting /\ \A q \in Tasks : q # o => job'[q] = job[q]
  <2>1. [step |-> k, got |-> Waiting] \in Job
    BY AgentSessionAssumption DEF Job, Waiting
  <2> QED BY <1>2, <2>1 DEF Typed
<1>11. Typed' /\ ModeTrue'
  <2>1. disk' \in {disk, b} /\ mem' \in {mem, b} /\ (~fatal' => disk' = mem') /\ (~held' => mem'.thread \in {0} \cup thread.loaded)
        /\ fatal' \in BOOLEAN /\ held' \in BOOLEAN /\ conn' \in BOOLEAN /\ out' \in Seq(Msg)
    BY <1>2, <1>5 DEF ModeTrue, Typed
  <2>2. calls' \subseteq Call /\ \A q \in Tasks : job'[q].step # "idle" => ~held'
    BY <1>2, <1>5, <1>9 DEF Typed
  <2> QED BY <1>2, <1>4, <1>5, <1>7, <1>10, <2>1, <2>2, TaskStep
<1>12. TurnsGrow /\ \A q \in Tasks : TaskRest(q)
  BY <1>2, <1>5, <1>7, <1>10 DEF TurnsGrow, TaskRest
<1>13. JournalTrue(b)' /\ JournalTrue(d)'
  BY <1>2, <1>3, <1>4, <1>12, JournalRests
<1>14. JournalTrue(mem)' /\ JournalTrue(disk)'
  BY <1>2, <1>3, <1>4, <1>13, MemIs, DiskIs
<1>15. \A q \in Tasks : (sent[q] > 0 => sent'[q] > 0) /\ sent'[q] <= 1 /\ (Own(mem, q)' <=> Own(mem, q))
  BY <1>2, <1>6, <1>7 DEF WorkTrue, Own, IsOpen
<1>16. \A n \in Turns : turn[n].of # o
  BY <1>6, AgentSessionAssumption DEF WorkTrue, TurnTrue, NoTurn
<1>17. WorkTrue'
  <2>1. ASSUME NEW q \in Tasks PROVE JobTrue(q)'
    <3>1. CASE q = o
      BY <1>2, <1>6, <1>7, <1>10, <1>15, <3>1 DEF JobTrue, Waiting
    <3>2. CASE q # o
      <4>1. JobTrue(q)
        BY DEF WorkTrue
      <4> QED BY <1>2, <1>7, <1>10, <1>15, <3>2, <4>1 DEF JobTrue
    <3> QED BY <3>1, <3>2
  <2>2. CallTrue(c)'
    <3>1. k = "turn" => mem.thread \in thread.loaded
      BY <1>1, <1>5 DEF ModeTrue
    <3> QED BY <1>2, <1>6, <1>7, <1>9, <1>15, <1>16, <3>1 DEF CallTrue, Waiting
  <2>3. ASSUME NEW x \in calls PROVE CallTrue(x)'
    <3>1. CallTrue(x) /\ x.of \in Tasks
      BY DEF WorkTrue, Typed, Call
    <3> QED BY <1>2, <1>15, <3>1 DEF CallTrue
  <2>4. OneCall'
    <3>1. \A x \in calls : x.k = "turn" => x.of # o
      BY <1>6 DEF WorkTrue, CallTrue
    <3> QED BY <1>9, <3>1 DEF WorkTrue, OneCall
  <2>5. ASSUME NEW n \in Turns PROVE TurnTrue(n)'
    <3>1. TurnTrue(n)
      BY DEF WorkTrue
    <3> QED BY <1>2, <1>15, <3>1 DEF TurnTrue, IsLive, NoTurn
  <2>6. ASSUME NEW x \in Msg, In(out, x)' PROVE SaysTrue(x)'
    <3>1. In(out, x) /\ SaysTrue(x)
      BY <1>2, <2>6 DEF WorkTrue, In
    <3> QED BY <1>2, <3>1 DEF SaysTrue, Own, IsOpen, In
  <2>7. OneOpen' /\ Once(out)' /\ InOrder(out)'
    BY <1>2, <1>5, <1>15 DEF WorkTrue, OneOpen, Once, InOrder
  <2> QED BY <1>9, <1>15, <2>1, <2>2, <2>3, <2>4, <2>5, <2>6, <2>7 DEF WorkTrue
<1>18. \A n \in Turns : AskTrue(n)'
  BY <1>2, AsksRest
<1> QED BY <1>11, <1>14, <1>17, <1>18

\* The task a goroutine submits is this incarnation's.
LEMMA Submits ==
    ASSUME SInv, NEW o \in Tasks, job[o].step # "idle"
    PROVE  /\ mode = "serving" /\ inc # 0 /\ inc \in Nat /\ ~held
           /\ mem.ops[o].inc = inc /\ TaskTrue(mem, o) /\ TaskTrue(disk, o)
  BY Serving, AgentSessionAssumption DEF SInv, ModeTrue, Typed, Inc, JournalTrue, TaskTrue

\* A step of a submission that leaves the task open or over as it is.
Submitted(e, b, o) ==
    /\ e.requests = b.requests /\ e.controls = b.controls /\ e.bound = b.bound
    /\ \A q \in Tasks : q # o => e.ops[q] = b.ops[q]
    /\ e.ops[o].inc = b.ops[o].inc /\ e.ops[o].end = b.ops[o].end
    /\ e.ops[o].turn = b.ops[o].turn \/ (turn[e.ops[o].turn].of = o /\ b.ops[o].turn \in {0, e.ops[o].turn})
    /\ e.thread \in {0} \cup thread.loaded /\ (b.thread \in thread.loaded => e.thread \in thread.loaded)

LEMMA SubmitStep ==
    ASSUME SInv, NEW o \in Tasks, job[o].step # "idle", NEW b \in Journal, b = mem, NEW d \in Journal, d = disk,
           NEW e \in Journal, Submitted(e, b, o),
           mem' \in {b, e}, disk' \in {d, e}, fatal' \in BOOLEAN, ~fatal' => disk' = mem',
           job' \in [Tasks -> Job], job'[o].step \in {"idle", "begun"}, \A q \in Tasks : q # o => job'[q] = job[q],
           job'[o].step = "begun" => job[o].step = "thread",
           UNCHANGED <<mode, inc, held, conn, pending, cpending, answering, replying, calls, out, turn, thread, sent, answered>>
    PROVE  SInv'
<1> USE DEF SInv, Submitted
<1>1. mode = "serving" /\ inc # 0 /\ inc \in Nat /\ ~held /\ b.ops[o].inc = inc /\ TaskTrue(b, o) /\ mem.thread \in {0} \cup thread.loaded
  BY Submits DEF ModeTrue
<1>2. Typed' /\ ModeTrue'
  <2>1. \A q \in Tasks : job'[q].step # "idle" => ~held'
    BY <1>1
  <2>2. ~held' => mem'.thread \in {0} \cup thread.loaded
    BY <1>1
  <2> QED BY <1>1, <2>1, <2>2, TaskStep DEF Typed
<1>3. TurnsGrow /\ \A q \in Tasks : TaskRest(q)
  BY TasksRest
<1>4. JournalTrue(b)' /\ JournalTrue(d)'
  BY <1>3, JournalRests
<1>5. JournalTrue(e)'
  <2>1. TaskTrue(e, o)'
    BY <1>1 DEF TaskTrue, Closed
  <2> QED BY <1>3, <2>1, OneTask
<1>6. JournalTrue(mem)'
  BY <1>4, <1>5, MemIs
<1>7. JournalTrue(disk)'
  BY <1>4, <1>5, DiskIs
<1>8. \A q \in Tasks : mem'.ops[q].inc = mem.ops[q].inc /\ mem'.ops[q].end = mem.ops[q].end
  OBVIOUS
<1>9. ASSUME NEW q \in Tasks PROVE JobTrue(q)'
  <2>1. Own(mem, q)' <=> Own(mem, q)
    BY <1>8 DEF Own, IsOpen
  <2>2. JobTrue(q)
    BY DEF WorkTrue
  <2> QED BY <2>1, <2>2 DEF JobTrue
<1>10. WorkTrue'
  <2>1. \A q \in Tasks : Own(mem, q) => mem'.ops[q].end = "none"
    BY <1>8 DEF Own, IsOpen
  <2> QED BY <1>1, <1>8, <1>9, <2>1, OutSame, WorkOwn
<1>11. \A n \in Turns : AskTrue(n)'
  BY AsksRest
<1> QED BY <1>2, <1>6, <1>7, <1>10, <1>11

LEMMA ThreadStartedKeeps == ASSUME SInv, NEW o \in Tasks, NEW ok \in BOOLEAN, ThreadStarted(o, ok) PROVE SInv'
<1>1. job[o].step = "thread" /\ job[o].got > 0 /\ ~fatal
      /\ job' = [job EXCEPT ![o] = [NoJob EXCEPT !.step = IF ok THEN "begun" ELSE "idle"]]
      /\ UNCHANGED <<mode, inc, held, conn, pending, cpending, answering, replying, calls, out, turn, thread, sent, answered>>
  BY DEF ThreadStarted, agent, ghost
<1>2. PICK d \in Journal : d = disk
  BY DEF SInv, Typed
<1>3. PICK b \in Journal : b = mem
  BY DEF SInv, Typed
<1>4. PICK g \in thread.loaded : g = job[o].got /\ g \in 0 .. MaxTurns
  BY <1>1 DEF SInv, WorkTrue, JobTrue, Typed
<1>5. PICK p \in Op : p = b.ops[o]
  BY <1>3, JournalIs
<1>6. PICK q \in Op : q = [p EXCEPT !.thread = g]
  BY <1>4, <1>5 DEF Op
<1>7. q.inc = p.inc /\ q.turn = p.turn /\ q.end = p.end
  BY <1>5, <1>6 DEF Op
<1>a. PICK f : f = [b EXCEPT !.thread = g]
  OBVIOUS
<1>8. f \in Journal /\ f = [b EXCEPT !.thread = g] /\ f.ops = b.ops /\ f.requests = b.requests /\ f.controls = b.controls /\ f.bound = b.bound /\ f.thread = g
  BY <1>3, <1>4, <1>a DEF Journal
<1>9. PICK e \in Journal : OpSetTo(e, f, o, q)
  BY <1>8, <1>6, OpSet
<1>10. e = [b EXCEPT !.thread = g, !.ops[o].thread = g]
  <2>1. e = [f EXCEPT !.ops[o] = q] /\ f = [b EXCEPT !.thread = g]
    BY <1>8, <1>9 DEF OpSetTo
  <2>2. q = [b.ops[o] EXCEPT !.thread = g]
    BY <1>5, <1>6
  <2> QED BY <2>1, <2>2 DEF Journal
<1>11. Save(e, ok)
  BY <1>3, <1>4, <1>10 DEF ThreadStarted
<1>12. mem' = e /\ disk' \in {d, e} /\ fatal' \in BOOLEAN /\ (~fatal' => disk' = mem')
  BY <1>2, <1>11, SaveIs DEF SInv, Typed
<1>13. job' \in [Tasks -> Job] /\ job'[o].step \in {"idle", "begun"} /\ \A r \in Tasks : r # o => job'[r] = job[r]
  <2>1. PICK j \in Job : j = NoJob
    <3>1. Waiting \in Waiting .. MaxTurns
      BY AgentSessionAssumption DEF Waiting
    <3> QED BY <3>1 DEF Job, NoJob
  <2>a. PICK k : k = [j EXCEPT !.step = IF ok THEN "begun" ELSE "idle"]
    OBVIOUS
  <2>2. k \in Job /\ k.step \in {"idle", "begun"}
    BY <2>1, <2>a DEF Job
  <2>3. job' = [job EXCEPT ![o] = k]
    BY <1>1, <2>1, <2>a
  <2> QED BY <2>2, <2>3 DEF SInv, Typed
<1>14. e.requests = b.requests /\ e.controls = b.controls /\ e.bound = b.bound /\ e.thread = g /\ e.ops[o] = q /\ \A r \in Tasks : r # o => e.ops[r] = b.ops[r]
  BY <1>8, <1>9 DEF OpSetTo
<1>15. Submitted(e, b, o)
  BY <1>4, <1>5, <1>7, <1>14 DEF Submitted
<1> QED BY <1>1, <1>2, <1>3, <1>9, <1>12, <1>13, <1>15, SubmitStep

\* The goroutine is done with the task.
LEMMA JobDone ==
    ASSUME SInv, NEW o \in Tasks, job' = [job EXCEPT ![o] = NoJob]
    PROVE  job' \in [Tasks -> Job] /\ job'[o].step = "idle" /\ \A r \in Tasks : r # o => job'[r] = job[r]
<1>1. Waiting \in Waiting .. MaxTurns
  BY AgentSessionAssumption DEF Waiting
<1>2. NoJob \in Job /\ NoJob.step = "idle"
  BY <1>1 DEF Job, NoJob
<1> QED BY <1>2 DEF SInv, Typed

LEMMA AcceptedKeeps == ASSUME SInv, NEW o \in Tasks, NEW ok \in BOOLEAN, Accepted(o, ok) PROVE SInv'
<1>1. job[o].step = "turn" /\ job[o].got > 0 /\ ~fatal /\ mem.ops[o].turn \in {0, job[o].got} /\ job' = [job EXCEPT ![o] = NoJob]
      /\ UNCHANGED <<mode, inc, held, conn, pending, cpending, answering, replying, calls, out, turn, thread, sent, answered>>
  BY DEF Accepted, agent, ghost
<1>2. PICK d \in Journal : d = disk
  BY DEF SInv, Typed
<1>3. PICK b \in Journal : b = mem
  BY DEF SInv, Typed
<1>4. PICK n \in 0 .. MaxTurns : n = job[o].got /\ turn[n].of = o
  <2>1. job[o] \in Job /\ turn[job[o].got].of = o
    BY <1>1 DEF SInv, WorkTrue, JobTrue, Typed
  <2>2. job[o].got \in 0 .. MaxTurns
    BY <1>1, <2>1, AgentSessionAssumption DEF Job, Waiting
  <2> QED BY <2>1, <2>2
<1>5. PICK p \in Op : p = b.ops[o]
  BY <1>3, JournalIs
<1>6. PICK h \in 0 .. MaxTurns : h = (IF p.thread = 0 THEN b.thread ELSE p.thread)
  BY <1>3, <1>5, JournalIs DEF Op
<1>7. PICK s \in {"none", "dispatching", "accepted", "unknown", "finished"} : s = (IF p.end = "none" THEN "accepted" ELSE p.st)
  BY <1>5 DEF Op
<1>8. PICK q \in Op : q = [p EXCEPT !.turn = n, !.thread = h, !.st = s]
  BY <1>4, <1>5, <1>6, <1>7 DEF Op
<1>9. q.inc = p.inc /\ q.turn = n /\ q.end = p.end
  BY <1>5, <1>8 DEF Op
<1>10. PICK e \in Journal : OpSetTo(e, b, o, q)
  BY <1>3, <1>8, OpSet
<1>11. Save(e, ok)
  <2>1. e = [b EXCEPT !.ops[o] = [p EXCEPT !.turn = n, !.thread = IF @ = 0 THEN b.thread ELSE @, !.st = IF p.end = "none" THEN "accepted" ELSE @]]
    BY <1>6, <1>7, <1>8, <1>10 DEF OpSetTo, Op
  <2> QED BY <1>3, <1>4, <1>5, <2>1 DEF Accepted
<1>12. mem' = e /\ disk' \in {d, e} /\ fatal' \in BOOLEAN /\ (~fatal' => disk' = mem')
  BY <1>2, <1>11, SaveIs DEF SInv, Typed
<1>13. e.requests = b.requests /\ e.controls = b.controls /\ e.bound = b.bound /\ e.thread = b.thread /\ e.ops[o] = q /\ \A r \in Tasks : r # o => e.ops[r] = b.ops[r]
  BY <1>10 DEF OpSetTo
<1>14. b.thread \in {0} \cup thread.loaded
  BY <1>1, <1>3, Submits DEF SInv, ModeTrue
<1>15. Submitted(e, b, o)
  BY <1>1, <1>3, <1>4, <1>5, <1>9, <1>13, <1>14 DEF Submitted
<1>16. job' \in [Tasks -> Job] /\ job'[o].step \in {"idle", "begun"} /\ job'[o].step # "begun" /\ \A r \in Tasks : r # o => job'[r] = job[r]
  BY <1>1, JobDone
<1> QED BY <1>1, <1>2, <1>3, <1>10, <1>12, <1>15, <1>16, SubmitStep

LEMMA GiveUpKeeps == ASSUME SInv, NEW o \in Tasks, NEW ok \in BOOLEAN, GiveUp(o, ok) PROVE SInv'
<1>1. job[o].step # "idle" /\ job' = [job EXCEPT ![o] = NoJob]
      /\ UNCHANGED <<mode, inc, held, conn, pending, cpending, answering, replying, calls, out, turn, thread, sent, answered>>
  BY DEF GiveUp, agent, ghost
<1>2. PICK d \in Journal : d = disk
  BY DEF SInv, Typed
<1>3. PICK b \in Journal : b = mem
  BY DEF SInv, Typed
<1>4. PICK p \in Op : p = b.ops[o]
  BY <1>3, JournalIs
<1>5. PICK s \in {"none", "dispatching", "accepted", "unknown", "finished"} : s = (IF p.end = "none" /\ p.turn = 0 THEN "unknown" ELSE p.st)
  BY <1>4 DEF Op
<1>6. PICK q \in Op : q = [p EXCEPT !.st = s]
  BY <1>4, <1>5 DEF Op
<1>7. q.inc = p.inc /\ q.turn = p.turn /\ q.end = p.end
  BY <1>4, <1>6 DEF Op
<1>8. PICK e \in Journal : OpSetTo(e, b, o, q)
  BY <1>3, <1>6, OpSet
<1>9. (fatal /\ UNCHANGED <<mem, disk, fatal>>) \/ Save(e, ok)
  <2>1. e = [b EXCEPT !.ops[o].st = IF p.end = "none" /\ p.turn = 0 THEN "unknown" ELSE @]
    BY <1>4, <1>5, <1>6, <1>8 DEF OpSetTo
  <2> QED BY <1>3, <1>4, <2>1 DEF GiveUp, store
<1>10. mem' \in {b, e} /\ disk' \in {d, e} /\ fatal' \in BOOLEAN /\ (~fatal' => disk' = mem')
  BY <1>2, <1>3, <1>9, SaveIs DEF SInv, Typed
<1>11. e.requests = b.requests /\ e.controls = b.controls /\ e.bound = b.bound /\ e.thread = b.thread /\ e.ops[o] = q /\ \A r \in Tasks : r # o => e.ops[r] = b.ops[r]
  BY <1>8 DEF OpSetTo
<1>12. b.thread \in {0} \cup thread.loaded
  BY <1>1, <1>3, Submits DEF SInv, ModeTrue
<1>13. Submitted(e, b, o)
  BY <1>4, <1>7, <1>11, <1>12 DEF Submitted
<1>14. job' \in [Tasks -> Job] /\ job'[o].step \in {"idle", "begun"} /\ job'[o].step # "begun" /\ \A r \in Tasks : r # o => job'[r] = job[r]
  BY <1>1, JobDone
<1> QED BY <1>1, <1>2, <1>3, <1>8, <1>10, <1>13, <1>14, SubmitStep

LEMMA ReadReplyKeeps == ASSUME SInv, ReadReply PROVE SInv'
<1> USE DEF SInv
<1>1. out # <<>> /\ out' = Tail(out) /\ Head(out).k = "reply"
      /\ UNCHANGED <<mode, inc, mem, disk, fatal, held, conn, pending, cpending, answering, replying, calls, turn, thread, sent, answered>>
  BY DEF ReadReply, Head1, store, ghost
<1>2. PICK m \in Msg : m = Head(out) /\ OutShrinks /\ In(out, m)
  BY <1>1, OutTail
<1>3. job' = (IF job[m.of].step = m.call /\ job[m.of].got = Waiting THEN [job EXCEPT ![m.of].got = m.id] ELSE job)
  BY <1>2 DEF ReadReply
<1>4. m.k = "reply" /\ m.of \in Tasks /\ m.call \in {"thread", "turn"} /\ m.id \in 0 .. MaxTurns
  BY <1>1, <1>2 DEF Msg, Requests
<1>5. mode = "serving"
  BY <1>1, Serving
<1>6. PICK o \in Tasks : o = m.of
  BY <1>4
<1>7. job' \in [Tasks -> Job] /\ (\A q \in Tasks : q # o => job'[q] = job[q]) /\ job'[o].step = job[o].step
      /\ (job'[o] = job[o] \/ (job[o].step = m.call /\ job'[o].got = m.id))
  <2>1. CASE job[o].step = m.call /\ job[o].got = Waiting
    <3>1. m.id \in Waiting .. MaxTurns
      BY <1>4, AgentSessionAssumption DEF Waiting
    <3>2. PICK j \in Job : j = job[o]
      BY DEF Typed
    <3>a. PICK k : k = [j EXCEPT !.got = m.id]
      OBVIOUS
    <3>3. k \in Job /\ k.step = j.step /\ k.got = m.id
      BY <3>1, <3>2, <3>a DEF Job
    <3>4. job' = [job EXCEPT ![o] = k]
      BY <1>3, <1>6, <2>1, <3>2, <3>a
    <3> QED BY <2>1, <3>2, <3>3, <3>4 DEF Typed
  <2>2. CASE ~(job[o].step = m.call /\ job[o].got = Waiting)
    BY <1>3, <1>6, <2>2 DEF Typed
  <2> QED BY <2>1, <2>2
<1>8. PICK b \in Journal : b = mem
  BY DEF Typed
<1>9. PICK d \in Journal : d = disk
  BY DEF Typed
<1>10. Typed' /\ ModeTrue'
  <2>1. mem' \in {mem, b} /\ disk' \in {disk, b} /\ fatal' \in BOOLEAN /\ held' \in BOOLEAN /\ conn' \in BOOLEAN
        /\ calls' \subseteq Call /\ sent' \in [Tasks -> Nat] /\ (~fatal' => disk' = mem') /\ (~held' => mem'.thread \in {0} \cup thread.loaded)
    BY <1>1, <1>5 DEF Typed, ModeTrue
  <2>2. \A q \in Tasks : job'[q].step # "idle" => ~held'
    BY <1>1, <1>7 DEF ModeTrue
  <2>3. out' \in Seq(Msg)
    BY <1>2 DEF OutShrinks
  <2> QED BY <1>1, <1>5, <1>7, <1>8, <2>1, <2>2, <2>3, TaskStep
<1>11. JournalTrue(b)' /\ JournalTrue(d)'
  <2>1. \A q \in Tasks : job'[q].step # "idle" => job[q].step # "idle"
    BY <1>7
  <2> QED BY <1>1, <1>8, <1>9, <2>1, TasksRest, JournalRests
<1>12. JournalTrue(mem)' /\ JournalTrue(disk)'
  BY <1>1, <1>8, <1>9, <1>11, MemIs, DiskIs
<1>13. ASSUME NEW q \in Tasks PROVE JobTrue(q)'
  <2>1. JobTrue(q) /\ (Own(mem, q)' <=> Own(mem, q))
    BY <1>1 DEF WorkTrue, Own, IsOpen
  <2>2. CASE job'[q] = job[q]
    BY <1>1, <2>1, <2>2 DEF JobTrue
  <2>3. CASE q = o /\ job[o].step = m.call /\ job'[o].got = m.id
    <3>1. SaysTrue(m)
      BY <1>2 DEF WorkTrue
    <3> QED BY <1>1, <1>4, <1>6, <1>7, <2>1, <2>3, <3>1 DEF JobTrue, SaysTrue
  <2> QED BY <1>7, <2>2, <2>3
<1>14. WorkTrue'
  <2>1. \A q \in Tasks : Own(mem, q) => mem'.ops[q].end = "none"
    BY <1>1 DEF Own, IsOpen
  <2> QED BY <1>1, <1>2, <1>5, <1>13, <2>1, WorkOwn
<1>15. \A n \in Turns : AskTrue(n)'
  BY <1>1, <1>2, AsksRest DEF OutShrinks
<1> QED BY <1>10, <1>12, <1>14, <1>15

\* Observe changes the open task of the turn, and no other.
ObservedTo(e, b, k, n, t) ==
    /\ e = Observed(b, k, n)
    /\ e.requests = b.requests /\ e.controls = b.controls /\ e.bound = b.bound /\ e.thread = b.thread
    /\ \A q \in Tasks : q # t => e.ops[q] = b.ops[q]
    /\ e.ops[t].inc = b.ops[t].inc /\ e.ops[t].turn = n
    /\ e.ops[t].end = IF k = "started" THEN "none" ELSE turn[n].st

LEMMA ObservedIs ==
    ASSUME SInv, mode = "serving", NEW b \in Journal, b = mem, NEW k \in {"started", "ended"}, NEW n \in Turns, NEW t \in Tasks,
           turn[n].of = t, turn[n] # NoTurn, Own(mem, t), k = "ended" => turn[n].st \in Ends
    PROVE  \E e \in Journal : ObservedTo(e, b, k, n, t)
<1>1. PICK v \in TurnT : v = turn[n]
  BY DEF SInv, Typed
<1>2. ASSUME NEW q \in Tasks, Own(mem, q) PROVE q = t
  BY <1>2 DEF SInv, WorkTrue, OneOpen
<1>3. PICK p \in Op : p = b.ops[t]
  BY JournalIs
<1>4. p.turn \in {0, n} /\ p.inc = inc /\ p.end = "none" /\ p.inc # 0
  <2>1. p.turn # 0 => turn[p.turn].of = t
    BY <1>3 DEF SInv, JournalTrue, TaskTrue
  <2>2. p.turn \in 0 .. MaxTurns
    BY <1>3 DEF Op
  <2>3. p.turn # 0 => p.turn = n
    BY <2>1, <2>2, AgentSessionAssumption DEF SInv, WorkTrue, TurnTrue, Turns
  <2> QED BY <1>3, <2>3 DEF Own, IsOpen
<1>5. PICK h \in 0 .. MaxTurns : h = (IF p.thread = 0 THEN v.thread ELSE p.thread)
  BY <1>1, <1>3 DEF TurnT, Op
<1>6. PICK x : x = (IF k = "started" THEN [p EXCEPT !.turn = n, !.st = "accepted", !.thread = h]
                    ELSE [p EXCEPT !.turn = n, !.st = "finished", !.end = v.st])
  OBVIOUS
<1>7. n \in 0 .. MaxTurns
  BY AgentSessionAssumption DEF Turns
<1>8. x \in Op /\ x.inc = p.inc /\ x.turn = n /\ x.end = IF k = "started" THEN "none" ELSE v.st
  <2>1. CASE k = "started"
    BY <1>3, <1>4, <1>5, <1>6, <1>7, <2>1 DEF Op
  <2>2. CASE k = "ended"
    BY <1>1, <1>3, <1>6, <1>7, <2>2 DEF Op
  <2> QED BY <2>1, <2>2
<1>9. PICK e \in Journal : OpSetTo(e, b, t, x)
  BY <1>8, OpSet
<1>10. e = Observed(b, k, n)
  <2>1. PICK f : f = [o \in Tasks |->
                        LET r == b.ops[o] IN
                        IF IsOpen(b, o) /\ r.inc = inc /\ r.turn \in {0, n}
                          THEN IF k = "started"
                                 THEN [r EXCEPT !.turn = n, !.st = "accepted", !.thread = IF @ = 0 THEN turn[n].thread ELSE @]
                                 ELSE [r EXCEPT !.turn = n, !.st = "finished", !.end = turn[n].st]
                          ELSE r]
    OBVIOUS
  <2>2. f[t] = x
    <3>1. IsOpen(b, t)
      BY <1>3, <1>4 DEF IsOpen
    <3>2. CASE k = "started"
      BY <1>1, <1>3, <1>4, <1>5, <1>6, <2>1, <3>1, <3>2 DEF Op
    <3>3. CASE k = "ended"
      BY <1>1, <1>3, <1>4, <1>6, <2>1, <3>1, <3>3
    <3> QED BY <3>2, <3>3
  <2>3. \A q \in Tasks : q # t => f[q] = b.ops[q]
    BY <1>2, <2>1 DEF Own
  <2>4. f = [b.ops EXCEPT ![t] = x]
    <3>1. b.ops \in [Tasks -> Op] /\ DOMAIN f = Tasks /\ f = [q \in Tasks |-> f[q]]
      BY <2>1, JournalIs
    <3>2. f = [q \in Tasks |-> IF q = t THEN x ELSE b.ops[q]]
      BY <2>2, <2>3, <3>1
    <3> QED BY <3>1, <3>2
  <2>5. Observed(b, k, n) = [b EXCEPT !.ops = f]
    BY <2>1 DEF Observed
  <2> QED BY <1>9, <2>4, <2>5 DEF OpSetTo
<1> QED BY <1>1, <1>3, <1>8, <1>9, <1>10 DEF OpSetTo, ObservedTo

LEMMA ReadTurnKeeps == ASSUME SInv, NEW k \in {"started", "ended"}, NEW ok \in BOOLEAN, ReadTurn(k, ok) PROVE SInv'
<1> USE DEF SInv
<1>1. out # <<>> /\ out' = Tail(out) /\ Head(out).k = k /\ k # "reply"
      /\ UNCHANGED <<mode, inc, held, pending, cpending, job, answering, replying, calls, turn, thread, sent, answered>>
  BY DEF ReadTurn, Head1, ghost
<1>2. mode = "serving" /\ inc # 0 /\ inc \in Nat
  BY <1>1, Serving, AgentSessionAssumption DEF Typed, Inc
<1>3. OutShrinks /\ Head(out) \in Msg /\ In(out, Head(out)) /\ ~In(out', Head(out))
  BY <1>1, OutTail
<1>4. PICK n \in Turns : n = Head(out).n /\ Head(out) = Event(k, n)
  BY <1>1, <1>3, EventIs
<1>5. TurnTrue(n) /\ Own(mem, turn[n].of) /\ turn[n] # NoTurn /\ (k = "ended" => turn[n].st \in Ends)
  <2>1. TurnTrue(n) /\ SaysTrue(Event(k, n)) /\ (In(out, Event("ended", n)) => SaysTrue(Event("ended", n)))
    BY <1>3, <1>4, EventOf DEF WorkTrue
  <2>2. CASE k = "ended"
    BY <2>1, <2>2, EventOf DEF SaysTrue, NoTurn, Ends
  <2>3. CASE k = "started"
    <3>1. CASE turn[n].st = "running"
      BY <2>1, <2>3, <3>1 DEF TurnTrue, IsLive, NoTurn
    <3>2. CASE In(out, Event("ended", n))
      BY <2>1, <2>3, <3>2, EventOf DEF SaysTrue, NoTurn, Ends
    <3> QED BY <2>1, <2>3, <3>1, <3>2, EventOf DEF SaysTrue
  <2> QED BY <2>2, <2>3
<1>6. PICK t \in Tasks : t = turn[n].of
  BY <1>5 DEF TurnTrue
<1>7. sent[t] > 0 /\ \A q \in Tasks : Own(mem, q) => q = t
  BY <1>2, <1>5, <1>6 DEF TurnTrue, WorkTrue, OneOpen
<1>8. PICK d \in Journal : d = disk
  BY DEF Typed
<1>9. PICK b \in Journal : b = mem
  BY DEF Typed
<1>10. PICK e \in Journal : ObservedTo(e, b, k, n, t)
  BY <1>2, <1>5, <1>6, <1>9, ObservedIs
<1>11. \/ UNCHANGED <<mem, disk, fatal>> /\ conn' = FALSE
       \/ Save(e, ok) /\ ~fatal /\ conn' = ok
  BY <1>4, <1>9, <1>10 DEF ReadTurn, store, ObservedTo
<1>12. mem' \in {b, e} /\ disk' \in {d, e} /\ fatal' \in BOOLEAN /\ (~fatal' => disk' = mem') /\ conn' \in BOOLEAN
  BY <1>2, <1>8, <1>9, <1>11, SaveIs DEF Typed, ModeTrue
<1>13. Typed' /\ ModeTrue'
  <2>1. ~held' => mem'.thread \in {0} \cup thread.loaded
    BY <1>1, <1>2, <1>9, <1>10, <1>12 DEF ModeTrue, ObservedTo
  <2>2. \A q \in Tasks : job'[q].step # "idle" => ~held'
    BY <1>1 DEF ModeTrue
  <2>3. out' \in Seq(Msg)
    BY <1>3 DEF OutShrinks
  <2>4. held' \in BOOLEAN /\ job' \in [Tasks -> Job] /\ calls' \subseteq Call /\ sent' \in [Tasks -> Nat]
    BY <1>1 DEF Typed
  <2>5. mem' \in {mem, e} /\ disk' \in {disk, e}
    BY <1>8, <1>9, <1>12
  <2> QED BY <1>1, <1>2, <1>10, <1>12, <2>1, <2>2, <2>3, <2>4, <2>5, TaskStep
<1>14. TurnsGrow /\ \A q \in Tasks : TaskRest(q)
  BY <1>1, TasksRest
<1>15. JournalTrue(b)' /\ JournalTrue(d)'
  BY <1>1, <1>8, <1>9, <1>14, JournalRests
<1>16. b.ops[t].inc = inc /\ b.ops[t].inc # 0 /\ b.ops[t].end = "none"
  BY <1>5, <1>6, <1>9 DEF Own, IsOpen
<1>17. JournalTrue(e)'
  <2>1. TaskTrue(b, t)
    BY <1>9 DEF JournalTrue
  <2>2. TaskTrue(e, t)'
    <3>1. n # 0
      BY AgentSessionAssumption DEF Turns
    <3>2. e.ops[t].inc = inc /\ e.ops[t].turn = n /\ e.bound[t] = b.bound[t] /\ (e.ops[t].end # "none" => turn[n].st = e.ops[t].end)
      BY <1>10, <1>16 DEF ObservedTo
    <3> QED BY <1>1, <1>2, <1>6, <1>16, <2>1, <3>1, <3>2 DEF TaskTrue, Closed
  <2> QED BY <1>1, <1>9, <1>10, <1>14, <2>2, OneTask DEF ObservedTo
<1>18. JournalTrue(mem)'
  BY <1>12, <1>15, <1>17, MemIs
<1>19. JournalTrue(disk)'
  BY <1>12, <1>15, <1>17, DiskIs
<1>20. WorkTrue'
  <2>1. CASE mem' = b \/ k = "started"
    <3>1. \A q \in Tasks : mem'.ops[q].inc = mem.ops[q].inc /\ mem'.ops[q].end = mem.ops[q].end
      BY <1>9, <1>10, <1>12, <1>16, <2>1 DEF ObservedTo
    <3>2. ASSUME NEW q \in Tasks PROVE JobTrue(q)'
      <4>1. JobTrue(q) /\ (Own(mem, q)' <=> Own(mem, q))
        BY <1>1, <3>1 DEF WorkTrue, Own, IsOpen
      <4> QED BY <1>1, <4>1 DEF JobTrue
    <3>3. mem'.thread = mem.thread
      BY <1>9, <1>10, <1>12 DEF ObservedTo
    <3>4. \A q \in Tasks : Own(mem, q) => mem'.ops[q].end = "none"
      BY <3>1 DEF Own, IsOpen
    <3> QED BY <1>1, <1>2, <1>3, <3>1, <3>2, <3>3, <3>4, WorkOwn
  <2>2. CASE mem' = e /\ k = "ended"
    <3>1. ASSUME NEW q \in Tasks PROVE ~OwnN(q)
      <4>1. CASE q = t
        BY <1>5, <1>10, <2>2, <4>1 DEF OwnN, ObservedTo, Ends
      <4>2. CASE q # t
        BY <1>1, <1>7, <1>9, <1>10, <2>2, <4>2 DEF OwnN, ObservedTo, Own, IsOpen
      <4> QED BY <4>1, <4>2
    <3>2. ASSUME NEW q \in Tasks PROVE JobTrue(q)'
      <4>1. JobTrue(q)
        BY DEF WorkTrue
      <4>2. job[q].step \notin {"begun", "thread"}
        BY <1>7, <4>1 DEF JobTrue
      <4> QED BY <1>1, <4>1, <4>2 DEF JobTrue
    <3>3. ASSUME NEW c \in calls, c.k = "turn", c.id = Waiting PROVE FALSE
      <4>1. CallTrue(c) /\ c.of \in Tasks
        BY DEF WorkTrue, Typed, Call
      <4> QED BY <1>6, <1>7, <3>3, <4>1 DEF CallTrue
    <3>4. ASSUME NEW m \in Turns, turn[m] # NoTurn, Own(mem, turn[m].of) PROVE m = n
      BY <1>5, <1>6, <1>7, <3>4 DEF WorkTrue, TurnTrue
    <3>5. ASSUME NEW m \in Turns, IsLive(m) PROVE FALSE
      <4>1. turn[m] # NoTurn /\ Own(mem, turn[m].of) /\ turn[m].st \notin Ends
        BY <3>5 DEF WorkTrue, TurnTrue, IsLive, NoTurn, Ends
      <4> QED BY <1>5, <2>2, <3>4, <4>1
    <3>6. ASSUME NEW m \in Turns, In(out', Event("ended", m)) PROVE FALSE
      <4>1. SaysTrue(Event("ended", m))
        BY <1>3, <3>6, EventOf DEF WorkTrue, OutShrinks
      <4>2. turn[m] # NoTurn /\ Own(mem, turn[m].of)
        BY <4>1, EventOf DEF SaysTrue, NoTurn, Ends
      <4>3. m = n
        BY <3>4, <4>2
      <4> QED BY <1>3, <1>4, <2>2, <3>6, <4>3
    <3> QED BY <1>1, <1>3, <3>1, <3>2, <3>3, <3>5, <3>6, WorkHost
  <2> QED BY <1>12, <2>1, <2>2
<1>21. \A m \in Turns : AskTrue(m)'
  BY <1>1, <1>3, AsksRest DEF OutShrinks
<1> QED BY <1>13, <1>18, <1>19, <1>20, <1>21

LEMMA ContinueKeeps == ASSUME SInv, NEW o \in Tasks, NEW s \in Tasks, NEW ok \in BOOLEAN, Continue(o, s, ok) PROVE SInv'
<1> USE DEF SInv
<1>1. mode = "serving" /\ ~fatal /\ ~Closed(mem, o) /\ mem.ops[o].inc \notin {0, inc} /\ held' = (held /\ ~ok)
      /\ (\A q \in Tasks \ {o} : IsOpen(mem, q) => Closed(mem, q))
      /\ UNCHANGED <<mode, inc, conn, pending, cpending, job, answering, replying, calls, out, turn, thread, sent, answered>>
  BY DEF Continue, agent, ghost
<1>2. PICK d \in Journal : d = disk
  BY DEF Typed
<1>3. PICK b \in Journal : b = mem
  BY DEF Typed
<1>4. inc \in Inc /\ inc \in Nat
  BY AgentSessionAssumption DEF Typed, Inc
<1>5. PICK g \in Binding : g = [next |-> s, inc |-> inc]
  BY <1>4 DEF Binding
<1>6. PICK e : e = [b EXCEPT !.bound[o] = g, !.thread = 0]
  OBVIOUS
<1>7. e \in Journal /\ e.ops = b.ops /\ e.requests = b.requests /\ e.controls = b.controls /\ e.thread = 0
      /\ e.bound[o] = g /\ \A q \in Tasks : q # o => e.bound[q] = b.bound[q]
  <2>1. 0 \in 0 .. MaxTurns
    BY AgentSessionAssumption
  <2> QED BY <1>3, <1>5, <1>6, <2>1 DEF Journal
<1>8. Save(e, ok)
  BY <1>3, <1>5, <1>6 DEF Continue
<1>9. mem' = e /\ disk' \in {d, e} /\ fatal' \in BOOLEAN /\ (~fatal' => disk' = e)
  BY <1>2, <1>8, SaveIs DEF Typed
<1>10. Typed' /\ ModeTrue'
  <2>1. \A q \in Tasks : job'[q].step # "idle" => ~held'
    BY <1>1 DEF ModeTrue
  <2>2. held' \in BOOLEAN /\ conn' \in BOOLEAN /\ job' \in [Tasks -> Job] /\ calls' \subseteq Call /\ sent' \in [Tasks -> Nat] /\ out' \in Seq(Msg)
    BY <1>1 DEF Typed
  <2> QED BY <1>1, <1>2, <1>7, <1>9, <2>1, <2>2, TaskStep
<1>11. TurnsGrow /\ \A q \in Tasks : TaskRest(q)
  BY <1>1, TasksRest
<1>12. JournalTrue(d)'
  BY <1>1, <1>2, <1>11, JournalRests
<1>13. JournalTrue(e)'
  <2>1. ASSUME NEW q \in Tasks PROVE TaskTrue(e, q)'
    <3>1. TaskTrue(b, q)
      BY <1>3 DEF JournalTrue
    <3>2. CASE q = o
      <4>1. b.ops[o].inc \in Nat /\ b.ops[o].inc # 0 /\ b.ops[o].inc < inc
        <5>1. b.ops[o].inc \in Nat
          BY <1>3, JournalIs
        <5>2. b.ops[o].inc <= inc /\ b.ops[o].inc # inc /\ b.ops[o].inc # 0
          BY <1>1, <1>3, <3>1, <3>2 DEF TaskTrue
        <5> QED BY <1>4, <5>1, <5>2
      <4> QED BY <1>1, <1>4, <1>5, <1>7, <3>1, <3>2, <4>1 DEF TaskTrue, Closed
    <3>3. CASE q # o
      <4>1. OpSame(b, e, q) /\ TaskRest(q)
        BY <1>7, <1>11, <3>3 DEF OpSame
      <4> QED BY <1>7, <1>11, <3>1, <4>1, TaskNext
    <3> QED BY <3>2, <3>3
  <2> QED BY <1>1, <1>3, <1>7, <2>1, JournalTasks
<1>14. JournalTrue(mem)' /\ JournalTrue(disk)'
  BY <1>2, <1>8, <1>12, <1>13, Saved
<1>15. \A q \in Tasks : ~Own(mem, q) /\ ~OwnN(q)
  <2>1. \A q \in Tasks : ~Own(mem, q)
    BY <1>1, NotOwn
  <2> QED BY <1>1, <1>3, <1>7, <1>9, <2>1 DEF Own, OwnN, IsOpen
<1>16. WorkTrue'
  <2>1. ASSUME NEW q \in Tasks PROVE JobTrue(q)'
    BY <1>1, <1>15, NobodyWorks DEF JobTrue, WorkTrue
  <2>2. OutShrinks /\ \A n \in Turns : ~In(out', Event("ended", n))
    BY <1>1, <1>15, NobodyWorks, OutSame
  <2> QED BY <1>1, <1>15, <2>1, <2>2, NobodyWorks, WorkHost
<1>17. \A n \in Turns : AskTrue(n)'
  BY <1>1, AsksRest
<1> QED BY <1>10, <1>14, <1>16, <1>17

\* The journal as Open finds it says the same of every task.
LEMMA ReopenedIs ==
    ASSUME NEW d \in Journal
    PROVE  \E e \in Journal :
              /\ e = Reopened(d) /\ \A o \in Tasks : OpSame(d, e, o)
              /\ \A n \in Turns : d.requests[n] \in {"dispatching", "written", "unknown"} => e.requests[n] \in {"dispatching", "written", "unknown"}
              /\ \A c \in Controls : e.controls[c].of = d.controls[c].of /\ (d.controls[c].st \in Told => e.controls[c].st \in Told)
<1>1. PICK f : f = [o \in Tasks |-> IF IsOpen(d, o) THEN [d.ops[o] EXCEPT !.st = "unknown"] ELSE d.ops[o]]
  OBVIOUS
<1>2. ASSUME NEW o \in Tasks
      PROVE  f[o] \in Op /\ f[o].inc = d.ops[o].inc /\ f[o].turn = d.ops[o].turn /\ f[o].end = d.ops[o].end /\ (d.ops[o].inc = 0 => f[o] = d.ops[o])
  <2>1. PICK p \in Op : p = d.ops[o]
    BY JournalIs
  <2>2. CASE IsOpen(d, o)
    <3>1. f[o] = [p EXCEPT !.st = "unknown"]
      BY <1>1, <2>1, <2>2
    <3> QED BY <2>1, <2>2, <3>1 DEF Op, IsOpen
  <2>3. CASE ~IsOpen(d, o)
    BY <1>1, <2>1, <2>3
  <2> QED BY <2>2, <2>3
<1>3. PICK g : g = [c \in Controls |-> [d.controls[c] EXCEPT !.st = IF @ = "dispatching" THEN "unknown" ELSE @]]
  OBVIOUS
<1>4. ASSUME NEW c \in Controls
      PROVE  g[c] \in Control /\ g[c].of = d.controls[c].of /\ (d.controls[c].st \in Told => g[c].st \in Told)
  <2>1. PICK k \in Control : k = d.controls[c]
    BY JournalIs
  <2>2. g[c] = [k EXCEPT !.st = IF k.st = "dispatching" THEN "unknown" ELSE k.st]
    BY <1>3, <2>1 DEF Control
  <2> QED BY <2>1, <2>2 DEF Control, Told
<1>5. PICK h : h = [n \in Turns |-> CASE d.requests[n] = "dispatching" -> "unknown"
                                      [] d.requests[n] = "pending"     -> "fenced"
                                      [] OTHER                         -> d.requests[n]]
  OBVIOUS
<1>6. ASSUME NEW n \in Turns
      PROVE  /\ h[n] \in {"none", "pending", "dispatching", "written", "unknown", "fenced"}
             /\ d.requests[n] \in {"dispatching", "written", "unknown"} => h[n] \in {"dispatching", "written", "unknown"}
  <2>1. d.requests[n] \in {"none", "pending", "dispatching", "written", "unknown", "fenced"}
    BY JournalIs
  <2>2. h[n] = CASE d.requests[n] = "dispatching" -> "unknown"
                 [] d.requests[n] = "pending"     -> "fenced"
                 [] OTHER                         -> d.requests[n]
    BY <1>5
  <2> QED BY <2>1, <2>2
<1>7. PICK e : e = [d EXCEPT !.ops = f, !.controls = g, !.requests = h]
  OBVIOUS
<1>8. f \in [Tasks -> Op] /\ g \in [Controls -> Control]
      /\ h \in [Turns -> {"none", "pending", "dispatching", "written", "unknown", "fenced"}]
  BY <1>1, <1>2, <1>3, <1>4, <1>5, <1>6
<1>9. e \in Journal /\ e.ops = f /\ e.controls = g /\ e.requests = h /\ e.bound = d.bound
  BY <1>7, <1>8 DEF Journal
<1>10. e = Reopened(d)
  BY <1>1, <1>3, <1>5, <1>7 DEF Reopened
<1>11. \A o \in Tasks : OpSame(d, e, o)
  BY <1>2, <1>9 DEF OpSame
<1> QED BY <1>4, <1>6, <1>9, <1>10, <1>11

LEMMA OpenKeeps == ASSUME SInv, NEW ok \in BOOLEAN, Open(ok) PROVE SInv'
<1> USE DEF SInv
<1>1. mode = "down" /\ inc < MaxInc /\ inc' = inc + 1
      /\ UNCHANGED <<held, pending, cpending, job, answering, replying, calls, out, turn, thread, sent, answered>>
  BY DEF Open, agent, ghost
<1>2. ~held /\ ~fatal /\ pending = {} /\ cpending = {} /\ replying = {} /\ answering = NoAnswer
      /\ calls = {} /\ out = <<>> /\ (\A o \in Tasks : job[o].step = "idle") /\ (\A n \in Turns : ~IsLive(n))
  BY <1>1 DEF ModeTrue
<1>3. PICK d \in Journal : d = disk
  BY DEF Typed
<1>4. PICK b \in Journal : b = mem
  BY DEF Typed
<1>5. PICK e \in Journal :
              /\ e = Reopened(d) /\ \A o \in Tasks : OpSame(d, e, o)
              /\ \A n \in Turns : d.requests[n] \in {"dispatching", "written", "unknown"} => e.requests[n] \in {"dispatching", "written", "unknown"}
              /\ \A c \in Controls : e.controls[c].of = d.controls[c].of /\ (d.controls[c].st \in Told => e.controls[c].st \in Told)
  BY ReopenedIs
<1>6. \/ mem' = e /\ disk' = e /\ fatal' = fatal /\ mode' = "opened" /\ conn' = TRUE
      \/ mem' = b /\ disk' \in {d, e} /\ UNCHANGED <<mode, fatal, conn>>
  BY <1>3, <1>4, <1>5 DEF Open, Save
<1>7. inc \in Nat /\ inc' \in Nat /\ inc' > inc /\ inc' \in Inc /\ inc' # 0
  BY <1>1, AgentSessionAssumption DEF Typed, Inc
<1>8. Typed'
  BY <1>1, <1>6, <1>7 DEF Typed
<1>9. ModeTrue'
  BY <1>1, <1>2, <1>6, <1>7 DEF ModeTrue, IsLive
<1>10. TurnsGrow /\ \A o \in Tasks : TaskRest(o)
  BY <1>1, <1>2, <1>7 DEF TurnsGrow, TaskRest
<1>11. JournalTrue(b)' /\ JournalTrue(d)'
  BY <1>1, <1>3, <1>4, <1>10, JournalRests
<1>12. JournalTrue(e)'
  <2>1. ASSUME NEW o \in Tasks PROVE TaskTrue(e, o)'
    <3>1. TaskTrue(d, o) /\ OpSame(d, e, o) /\ TaskRest(o)
      BY <1>3, <1>5, <1>10 DEF JournalTrue
    <3> QED BY <1>5, <1>10, <3>1, TaskNext
  <2>2. ASSUME NEW n \in Turns PROVE AnswersTrue(e, n)'
    <3>1. AnswersTrue(d, n)
      BY <1>3 DEF JournalTrue
    <3>2. answered["ask"][n] > 0 => \E c \in Controls : e.controls[c].of = n /\ e.controls[c].st \in Told
      BY <1>5, <3>1 DEF AnswersTrue
    <3> QED BY <1>1, <1>2, <1>5, <3>1, <3>2 DEF AnswersTrue
  <2> QED BY <1>1, <1>2, <2>1, <2>2 DEF JournalTrue
<1>13. JournalTrue(mem)'
  BY <1>6, <1>11, <1>12, MemIs
<1>14. JournalTrue(disk)'
  BY <1>6, <1>11, <1>12, DiskIs
<1>15. WorkTrue'
  <2>1. ASSUME NEW o \in Tasks PROVE mem'.ops[o].inc # inc'
    <3>1. TaskTrue(b, o) /\ TaskTrue(d, o) /\ OpSame(d, e, o)
      BY <1>3, <1>4, <1>5 DEF JournalTrue
    <3>2. b.ops[o].inc \in Nat /\ d.ops[o].inc \in Nat
      BY <1>3, <1>4, JournalIs
    <3>3. b.ops[o].inc < inc' /\ d.ops[o].inc < inc' /\ e.ops[o].inc = d.ops[o].inc
      BY <1>7, <3>1, <3>2 DEF TaskTrue, OpSame
    <3> QED BY <1>6, <1>7, <3>2, <3>3
  <2>2. \A o \in Tasks : ~OwnN(o)
    BY <2>1 DEF OwnN
  <2>3. \A n \in Turns : turn'[n].st \notin {"new", "running"} /\ turn'[n].of = turn[n].of /\ (turn'[n] # NoTurn => turn[n] # NoTurn)
    BY <1>1, <1>2 DEF IsLive
  <2> QED BY <1>1, <1>2, <2>2, <2>3, WorkEmpty
<1>16. \A n \in Turns : AskTrue(n)'
  BY <1>1, AsksRest
<1> QED BY <1>8, <1>9, <1>13, <1>14, <1>15, <1>16

\* Recovery ends an earlier incarnation's task as its turn ended.
RecoveredTo(e, b, seen) ==
    /\ e = Recovered(b, seen)
    /\ e.requests = b.requests /\ e.controls = b.controls /\ e.bound = b.bound /\ e.thread = b.thread
    /\ \A o \in Tasks : \/ e.ops[o] = b.ops[o]
                        \/ /\ e.ops[o].inc = b.ops[o].inc /\ b.ops[o].inc # inc /\ b.ops[o].inc # 0
                           /\ e.ops[o].turn = b.ops[o].turn /\ b.ops[o].turn \in Turns
                           /\ e.ops[o].end = turn[b.ops[o].turn].st

LEMMA RecoveredIs ==
    ASSUME SInv, NEW b \in Journal, NEW seen \in SUBSET Turns
    PROVE  \E e \in Journal : RecoveredTo(e, b, seen)
<1>1. PICK f : f = [o \in Tasks |->
        LET p == b.ops[o] IN
        IF /\ IsOpen(b, o) /\ p.inc # inc /\ p.turn \in seen /\ ~Closed(b, o)
           /\ p.thread \in {0, b.thread} /\ turn[p.turn].st \in Ends
          THEN [p EXCEPT !.st = "finished", !.end = turn[p.turn].st] ELSE p]
  OBVIOUS
<1>2. ASSUME NEW o \in Tasks
      PROVE  f[o] \in Op /\ \/ f[o] = b.ops[o]
                            \/ /\ f[o].inc = b.ops[o].inc /\ b.ops[o].inc # inc /\ b.ops[o].inc # 0
                               /\ f[o].turn = b.ops[o].turn /\ b.ops[o].turn \in Turns
                               /\ f[o].end = turn[b.ops[o].turn].st
  <2>1. PICK p \in Op : p = b.ops[o]
    BY JournalIs
  <2>2. CASE f[o] = p
    BY <2>1, <2>2
  <2>3. CASE f[o] # p
    <3>1. IsOpen(b, o) /\ p.inc # inc /\ p.turn \in seen /\ turn[p.turn].st \in Ends /\ f[o] = [p EXCEPT !.st = "finished", !.end = turn[p.turn].st]
      BY <1>1, <2>1, <2>3
    <3>2. PICK z \in Ends : z = turn[p.turn].st
      BY <3>1
    <3>3. f[o] = [p EXCEPT !.st = "finished", !.end = z]
      BY <3>1, <3>2
    <3>4. f[o] \in Op /\ f[o].inc = p.inc /\ f[o].turn = p.turn /\ f[o].end = z
      BY <3>2, <3>3 DEF Op
    <3> QED BY <2>1, <3>1, <3>2, <3>4 DEF IsOpen
  <2> QED BY <2>2, <2>3
<1>3. f \in [Tasks -> Op]
  BY <1>1, <1>2
<1>4. PICK e : e = [b EXCEPT !.ops = f]
  OBVIOUS
<1>5. e \in Journal /\ e.ops = f /\ e.requests = b.requests /\ e.controls = b.controls /\ e.bound = b.bound /\ e.thread = b.thread
  BY <1>3, <1>4 DEF Journal
<1>6. e = Recovered(b, seen)
  BY <1>1, <1>4 DEF Recovered
<1> QED BY <1>2, <1>5, <1>6 DEF RecoveredTo

LEMMA ResumeAnswerKeeps == ASSUME SInv, NEW seen \in SUBSET Turns, NEW ok \in BOOLEAN, ResumeAnswer(seen, ok) PROVE SInv'
<1> USE DEF SInv
<1>1. mode = "resuming" /\ mode' = "serving"
      /\ UNCHANGED <<inc, conn, pending, cpending, job, answering, replying, calls, out, turn, sent, answered>>
  BY DEF ResumeAnswer, ghost
<1>2. ~held /\ ~fatal /\ calls = {} /\ out = <<>> /\ mem = disk /\ inc # 0 /\ inc \in Nat
      /\ (\A o \in Tasks : job[o].step = "idle") /\ (\A n \in Turns : ~IsLive(n))
  BY <1>1, AgentSessionAssumption DEF ModeTrue, Typed, Inc
<1>3. PICK b \in Journal : b = mem
  BY DEF Typed
<1>4. PICK e \in Journal : RecoveredTo(e, b, seen)
  BY RecoveredIs
<1>5. e.thread = b.thread /\ e = Recovered(mem, seen)
  BY <1>3, <1>4 DEF RecoveredTo
<1>6. \/ thread' = [thread EXCEPT !.loaded = {b.thread}] /\ (Save(e, ok) \/ Save(b, ok)) /\ held' = ~ok
      \/ thread' \in {thread, [thread EXCEPT !.loaded = {b.thread}]} /\ held' = TRUE /\ Save(b, ok)
  BY <1>3, <1>5 DEF ResumeAnswer
<1>7. mem' \in {b, e} /\ disk' \in {b, e} /\ fatal' \in BOOLEAN /\ (~fatal' => disk' = mem') /\ held' \in BOOLEAN
  <2>1. held' \in BOOLEAN /\ fatal \in BOOLEAN
    BY <1>6 DEF Typed
  <2>2. CASE Save(e, ok)
    <3>1. mem' = e /\ disk' \in {disk, e} /\ fatal' \in BOOLEAN /\ (~fatal' => disk' = e)
      BY <2>1, <2>2, SaveIs
    <3> QED BY <1>2, <1>3, <2>1, <3>1
  <2>3. CASE Save(b, ok)
    <3>1. mem' = b /\ disk' \in {disk, b} /\ fatal' \in BOOLEAN /\ (~fatal' => disk' = b)
      BY <2>1, <2>3, SaveIs
    <3> QED BY <1>2, <1>3, <2>1, <3>1
  <2> QED BY <1>6, <2>2, <2>3
<1>8. thread' \in [n : 0 .. MaxTurns, loaded : SUBSET (0 .. MaxTurns)] /\ (~held' => b.thread \in thread'.loaded)
  <2>1. b.thread \in 0 .. MaxTurns
    BY <1>3, JournalIs
  <2> QED BY <1>6, <2>1 DEF Typed
<1>9. Typed'
  BY <1>1, <1>3, <1>4, <1>7, <1>8 DEF Typed
<1>10. ModeTrue'
  BY <1>1, <1>2, <1>5, <1>7, <1>8 DEF ModeTrue
<1>11. TurnsGrow /\ \A o \in Tasks : TaskRest(o)
  BY <1>1, TasksRest
<1>12. JournalTrue(b)'
  BY <1>1, <1>3, <1>11, JournalRests
<1>13. JournalTrue(e)'
  <2>1. ASSUME NEW o \in Tasks PROVE TaskTrue(e, o)'
    <3>1. TaskTrue(b, o) /\ TaskRest(o)
      BY <1>3, <1>11 DEF JournalTrue
    <3>2. CASE e.ops[o] = b.ops[o]
      <4>1. OpSame(b, e, o)
        BY <1>4, <3>2 DEF OpSame, RecoveredTo
      <4> QED BY <1>3, <1>4, <1>11, <3>1, <4>1, TaskNext
    <3>3. CASE e.ops[o] # b.ops[o]
      <4>1. /\ e.ops[o].inc = b.ops[o].inc /\ b.ops[o].inc # 0 /\ e.bound = b.bound
            /\ e.ops[o].turn = b.ops[o].turn /\ b.ops[o].turn \in Turns /\ e.ops[o].end = turn[b.ops[o].turn].st
        BY <1>4, <3>3 DEF RecoveredTo
      <4>2. b.ops[o].turn # 0
        BY <4>1, AgentSessionAssumption DEF Turns
      <4> QED BY <1>1, <1>2, <3>1, <4>1, <4>2 DEF TaskTrue, Closed
    <3> QED BY <3>2, <3>3
  <2> QED BY <1>1, <1>3, <1>4, <2>1, JournalTasks DEF RecoveredTo
<1>14. JournalTrue(mem)'
  BY <1>7, <1>12, <1>13, MemIs
<1>15. JournalTrue(disk)'
  BY <1>7, <1>12, <1>13, DiskIs
<1>16. WorkTrue'
  <2>1. ASSUME NEW o \in Tasks, OwnN(o) PROVE Own(mem, o)
    BY <1>1, <1>3, <1>4, <1>7, <2>1 DEF OwnN, Own, IsOpen, RecoveredTo
  <2>2. \A o, p \in Tasks : (OwnN(o) /\ OwnN(p)) => o = p
    BY <1>1, <2>1 DEF WorkTrue, OneOpen
  <2>3. \A n \in Turns : turn'[n].st \notin {"new", "running"} /\ turn'[n].of = turn[n].of /\ (turn'[n] # NoTurn => turn[n] # NoTurn)
    BY <1>1, <1>2 DEF IsLive
  <2> QED BY <1>1, <1>2, <2>2, <2>3, WorkEmpty
<1>17. \A n \in Turns : AskTrue(n)'
  BY <1>1, AsksRest
<1> QED BY <1>9, <1>10, <1>14, <1>15, <1>16, <1>17

(*********************************** the agent ***************************************)
\* A step of the agent, which leaves the broker alone.
AgentOnly == UNCHANGED <<mode, inc, mem, disk, fatal, held, conn, pending, cpending, job, answering, replying, sent, answered>>

LEMMA AgentStep ==
    ASSUME SInv, mode = "serving", AgentOnly, TurnsGrow, calls' \subseteq Call, out' \in Seq(Msg), turn' \in [Turns -> TurnT],
           thread' \in [n : 0 .. MaxTurns, loaded : SUBSET (0 .. MaxTurns)], thread.loaded \subseteq thread'.loaded
    PROVE  Typed' /\ ModeTrue' /\ JournalTrue(mem)' /\ JournalTrue(disk)' /\ \A o \in Tasks : Own(mem, o)' <=> Own(mem, o)
<1> USE DEF SInv, AgentOnly
<1>1. Typed'
  BY DEF Typed
<1>2. ModeTrue'
  BY DEF ModeTrue
<1>3. PICK b \in Journal : b = mem
  BY DEF Typed
<1>4. PICK d \in Journal : d = disk
  BY DEF Typed
<1>5. \A o \in Tasks : TaskRest(o)
  BY AgentSessionAssumption DEF TaskRest, Typed, Inc
<1>6. JournalTrue(b)' /\ JournalTrue(d)'
  BY <1>3, <1>4, <1>5, JournalRests
<1>7. JournalTrue(mem)' /\ JournalTrue(disk)'
  BY <1>3, <1>4, <1>6, MemIs, DiskIs
<1>8. \A o \in Tasks : Own(mem, o)' <=> Own(mem, o)
  BY DEF Own, IsOpen
<1> QED BY <1>1, <1>2, <1>7, <1>8

\* What the goroutines wait for is there still.
LEMMA JobsRest ==
    ASSUME SInv, AgentOnly, TurnsGrow, thread.loaded \subseteq thread'.loaded
    PROVE  \A o \in Tasks : JobTrue(o)'
<1> SUFFICES ASSUME NEW o \in Tasks PROVE JobTrue(o)'
  OBVIOUS
<1>1. JobTrue(o) /\ (Own(mem, o)' <=> Own(mem, o)) /\ job[o] \in Job
  BY DEF SInv, AgentOnly, WorkTrue, Own, IsOpen, Typed
<1>2. (job[o].step = "turn" /\ job[o].got > 0) => (job[o].got \in Turns /\ turn[job[o].got].of \in Tasks)
  BY <1>1, AgentSessionAssumption DEF JobTrue, Job, Turns, Waiting
<1> QED BY <1>1, <1>2 DEF JobTrue, AgentOnly, TurnsGrow

\* So is what calls and messages name.
LEMMA CallRests ==
    ASSUME SInv, AgentOnly, TurnsGrow, thread.loaded \subseteq thread'.loaded, NEW c \in calls,
           \A n \in Turns : turn'[n].of = turn[n].of \/ turn'[n].of # c.of
    PROVE  CallTrue(c)'
<1>1. CallTrue(c) /\ c \in Call
  BY DEF SInv, WorkTrue, Typed
<1>2. c.of \in Tasks /\ (Own(mem, c.of)' <=> Own(mem, c.of))
  BY <1>1 DEF AgentOnly, Own, IsOpen, Call
<1>3. (c.k = "turn" /\ c.id > 0) => (c.id \in Turns /\ turn[c.id].of \in Tasks)
  BY <1>1, <1>2, AgentSessionAssumption DEF CallTrue, Call, Turns, Waiting
<1> QED BY <1>1, <1>2, <1>3 DEF CallTrue, AgentOnly, TurnsGrow

LEMMA SaysRest ==
    ASSUME SInv, AgentOnly, TurnsGrow, thread.loaded \subseteq thread'.loaded, NEW x \in Msg, In(out, x),
           \A y \in Msg : In(out, y) => In(out', y),
           \A n \in Turns : turn[n].st = "running" => (turn'[n].st = "running" \/ In(out', Event("ended", n)))
    PROVE  SaysTrue(x)'
<1>1. SaysTrue(x)
  BY DEF SInv, WorkTrue
<1>2. (x.k = "reply" /\ x.id > 0) => IF x.call = "thread" THEN x.id \in thread'.loaded ELSE turn'[x.id].of = x.of
  <2> SUFFICES ASSUME x.k = "reply", x.id > 0 PROVE IF x.call = "thread" THEN x.id \in thread'.loaded ELSE turn'[x.id].of = x.of
    OBVIOUS
  <2>1. x.of \in Tasks /\ x.id \in Turns
    BY AgentSessionAssumption DEF Msg, Requests, Turns
  <2> QED BY <1>1, <2>1 DEF SaysTrue, TurnsGrow
<1>3. ASSUME x.k = "started" PROVE turn'[x.n].st = "running" \/ In(out', Event("ended", x.n))
  <2>1. x.n \in Turns /\ Event("ended", x.n) \in Msg
    BY <1>3, EventIs, EventOf
  <2> QED BY <1>1, <1>3, <2>1 DEF SaysTrue
<1>4. ASSUME x.k = "ended" PROVE turn'[x.n].st \in Ends /\ Own(mem, turn[x.n].of)'
  <2>1. x.n \in Turns /\ turn[x.n].st \in Ends /\ Own(mem, turn[x.n].of)
    BY <1>1, <1>4, EventIs DEF SaysTrue
  <2>2. turn[x.n].of \in Tasks
    BY <2>1 DEF SInv, WorkTrue, TurnTrue, NoTurn, Ends
  <2>3. turn'[x.n].of = turn[x.n].of /\ turn'[x.n].st = turn[x.n].st
    BY <2>1, <2>2 DEF TurnsGrow
  <2> QED BY <2>1, <2>3 DEF AgentOnly, Own, IsOpen
<1> QED BY <1>2, <1>3, <1>4 DEF SaysTrue

\* The queue grows by x.
OutGrows(x) == out' \in Seq(Msg) /\ Once(out') /\ InOrder(out') /\ \A y : In(out', y) <=> (In(out, y) \/ y = x)

LEMMA OutAppend ==
    ASSUME SInv, NEW x \in Msg, out' = Append(out, x), x.k # "reply" => ~In(out, x),
           x.k = "started" => \A n \in Turns : x.n = n => ~In(out, Event("ended", n))
    PROVE  OutGrows(x)
<1>1. out \in Seq(Msg) /\ Once(out) /\ InOrder(out)
  BY DEF SInv, Typed, WorkTrue
<1>2. x.k = "started" => \A y : (y.k = "ended" /\ y.n = x.n) => ~In(out, y)
  <2> SUFFICES ASSUME x.k = "started", NEW y, y.k = "ended", y.n = x.n, In(out, y) PROVE FALSE
    OBVIOUS
  <2>1. y \in Msg
    BY <1>1 DEF In
  <2>2. y = Event("ended", y.n) /\ y.n \in Turns
    BY <2>1, EventIs
  <2> QED BY <2>2
<1>3. PICK t \in Seq(Msg) : t = Append(out, x) /\ Once(t) /\ InOrder(t) /\ \A y : In(t, y) <=> (In(out, y) \/ y = x)
  BY <1>1, <1>2, Said
<1> QED BY <1>3 DEF OutGrows

LEMMA AgentWork ==
    ASSUME SInv, mode = "serving", AgentOnly, TurnsGrow, thread.loaded \subseteq thread'.loaded,
           OneCall', Once(out'), InOrder(out'), \A c \in calls' : CallTrue(c)', \A n \in Turns : TurnTrue(n)',
           \A x \in Msg : In(out', x) => SaysTrue(x)'
    PROVE  WorkTrue'
<1>1. OneOpen'
  BY DEF SInv, WorkTrue, OneOpen, AgentOnly, Own, IsOpen
<1>2. \A o \in Tasks : JobTrue(o)' /\ sent'[o] <= 1
  BY JobsRest DEF SInv, WorkTrue, AgentOnly
<1>3. (\A x \in Msg : In(out, x) => SaysTrue(x))'
  BY DEF In
<1>4. Once(out)' /\ InOrder(out)'
  BY DEF Once, InOrder
<1> QED BY <1>1, <1>2, <1>3, <1>4 DEF WorkTrue

LEMMA TurnRests ==
    ASSUME SInv, AgentOnly, turn' = turn, thread.loaded \subseteq thread'.loaded
    PROVE  TurnsGrow /\ \A n \in Turns : TurnTrue(n)'
<1>1. TurnsGrow
  BY DEF TurnsGrow
<1>2. ASSUME NEW n \in Turns PROVE TurnTrue(n)'
  <2>1. TurnTrue(n)
    BY DEF SInv, WorkTrue
  <2> QED BY <2>1 DEF TurnTrue, AgentOnly, IsLive, Own, IsOpen
<1> QED BY <1>1, <1>2

LEMMA AgentThreadKeeps == ASSUME SInv, NEW c \in calls, AgentThread(c) PROVE SInv'
<1>1. c.k = "thread" /\ c \in Call /\ AgentOnly /\ out' = out /\ turn' = turn
  BY DEF AgentThread, host, store, ghost, AgentOnly, SInv, Typed
<1>2. mode = "serving"
  BY Serving DEF SInv
<1>3. thread.n \in 0 .. MaxTurns /\ thread.loaded \subseteq 0 .. MaxTurns
  BY DEF SInv, Typed
<1>4. PICK i \in 0 .. MaxTurns : /\ calls' = (calls \ {c}) \cup {[c EXCEPT !.id = i]}
                                 /\ thread.loaded \subseteq thread'.loaded /\ (i > 0 => i \in thread'.loaded)
                                 /\ thread' \in [n : 0 .. MaxTurns, loaded : SUBSET (0 .. MaxTurns)]
  <2>1. CASE thread.n < MaxTurns /\ thread' = [n |-> thread.n + 1, loaded |-> thread.loaded \cup {thread.n + 1}]
                                 /\ calls' = (calls \ {c}) \cup {[c EXCEPT !.id = thread.n + 1]}
    <3>1. thread.n + 1 \in 0 .. MaxTurns
      BY <1>3, <2>1, AgentSessionAssumption
    <3>2. thread.loaded \cup {thread.n + 1} \in SUBSET (0 .. MaxTurns)
      BY <1>3, <3>1
    <3> QED BY <2>1, <3>1, <3>2
  <2>2. CASE calls' = (calls \ {c}) \cup {[c EXCEPT !.id = 0]} /\ thread' = thread
    <3>1. 0 \in 0 .. MaxTurns /\ ~(0 > 0)
      BY AgentSessionAssumption
    <3>2. thread.loaded \subseteq thread'.loaded /\ thread' \in [n : 0 .. MaxTurns, loaded : SUBSET (0 .. MaxTurns)]
      BY <2>2 DEF SInv, Typed
    <3> QED BY <2>2, <3>1, <3>2
  <2> QED BY <2>1, <2>2 DEF AgentThread
<1>5. PICK x : x = [c EXCEPT !.id = i]
  OBVIOUS
<1>6. x \in Call /\ x.k = "thread" /\ x.id = i
  <2>1. i \in Waiting .. MaxTurns
    BY AgentSessionAssumption DEF Waiting
  <2> QED BY <1>1, <1>5, <2>1 DEF Call
<1>7. TurnsGrow /\ \A n \in Turns : TurnTrue(n)'
  BY <1>1, <1>4, TurnRests
<1>8. Typed' /\ ModeTrue' /\ JournalTrue(mem)' /\ JournalTrue(disk)'
  <2>1. calls' \subseteq Call /\ out' \in Seq(Msg) /\ turn' \in [Turns -> TurnT]
    BY <1>1, <1>4, <1>5, <1>6 DEF SInv, Typed
  <2> QED BY <1>1, <1>2, <1>4, <1>7, <2>1, AgentStep
<1>9. WorkTrue'
  <2>1. ASSUME NEW y \in calls' PROVE CallTrue(y)'
    <3>1. CASE y = x
      BY <1>4, <1>6, <3>1 DEF CallTrue
    <3>2. CASE y \in calls
      BY <1>1, <1>4, <1>7, <3>2, CallRests
    <3> QED BY <1>4, <1>5, <3>1, <3>2
  <2>2. OneCall'
    BY <1>4, <1>5, <1>6 DEF SInv, WorkTrue, OneCall
  <2>3. ASSUME NEW y \in Msg, In(out', y) PROVE SaysTrue(y)'
    BY <1>1, <1>4, <1>7, <2>3, SaysRest
  <2>4. Once(out') /\ InOrder(out')
    BY <1>1 DEF SInv, WorkTrue
  <2> QED BY <1>1, <1>2, <1>4, <1>7, <2>1, <2>2, <2>3, <2>4, AgentWork
<1>10. \A n \in Turns : AskTrue(n)'
  BY <1>1, AsksRest DEF SInv, AgentOnly
<1> QED BY <1>8, <1>9, <1>10 DEF SInv

LEMMA AgentReplyKeeps == ASSUME SInv, NEW c \in calls, AgentReply(c) PROVE SInv'
<1>1. c.id # Waiting /\ calls' = calls \ {c} /\ c \in Call /\ AgentOnly /\ turn' = turn /\ thread' = thread /\ CallTrue(c)
      /\ out' = Append(out, [k |-> "reply", call |-> c.k, of |-> c.of, id |-> c.id])
  BY DEF AgentReply, Say, host, store, ghost, AgentOnly, SInv, Typed, WorkTrue
<1>2. mode = "serving"
  BY Serving DEF SInv
<1>3. c.id \in 0 .. MaxTurns /\ c.k \in {"thread", "turn"} /\ c.of \in Tasks
  BY <1>1, AgentSessionAssumption DEF Call, Waiting
<1>4. PICK x \in Msg : x = [k |-> "reply", call |-> c.k, of |-> c.of, id |-> c.id]
  BY <1>3 DEF Msg
<1>5. x.k = "reply" /\ x.call = c.k /\ x.of = c.of /\ x.id = c.id
  BY <1>4
<1>6. OutGrows(x)
  BY <1>1, <1>4, <1>5, OutAppend
<1>7. TurnsGrow /\ \A n \in Turns : TurnTrue(n)'
  BY <1>1, TurnRests
<1>8. Typed' /\ ModeTrue' /\ JournalTrue(mem)' /\ JournalTrue(disk)'
  <2>1. calls' \subseteq Call /\ out' \in Seq(Msg) /\ turn' \in [Turns -> TurnT] /\ thread' \in [n : 0 .. MaxTurns, loaded : SUBSET (0 .. MaxTurns)]
    BY <1>1, <1>6 DEF SInv, Typed, OutGrows
  <2> QED BY <1>1, <1>2, <1>7, <2>1, AgentStep
<1>9. WorkTrue'
  <2>1. ASSUME NEW y \in calls' PROVE CallTrue(y)'
    BY <1>1, <1>7, CallRests
  <2>2. OneCall'
    BY <1>1 DEF SInv, WorkTrue, OneCall
  <2>3. ASSUME NEW y \in Msg, In(out', y) PROVE SaysTrue(y)'
    <3>1. CASE y = x
      BY <1>1, <1>3, <1>5, <3>1 DEF CallTrue, SaysTrue
    <3>2. CASE In(out, y)
      BY <1>1, <1>6, <1>7, <3>2, SaysRest DEF OutGrows
    <3> QED BY <1>6, <2>3, <3>1, <3>2 DEF OutGrows
  <2> QED BY <1>1, <1>2, <1>6, <1>7, <2>1, <2>2, <2>3, AgentWork DEF OutGrows
<1>10. ASSUME NEW n \in Turns PROVE AskTrue(n)'
  <2>1. \A r \in Requests : In(out', Event(r, n)) => In(out, Event(r, n))
    BY <1>5, <1>6, EventOf DEF OutGrows
  <2> QED BY <1>1, <2>1, AskRests DEF SInv, AgentOnly
<1> QED BY <1>8, <1>9, <1>10 DEF SInv

\* The call c has its answer i.
LEMMA Answered ==
    ASSUME SInv, NEW c \in calls, c.k = "turn", NEW i \in 0 .. MaxTurns, calls' = (calls \ {c}) \cup {[c EXCEPT !.id = i]},
           AgentOnly, TurnsGrow, thread' = thread, i > 0 => turn'[i].of = c.of,
           \A n \in Turns : turn'[n].of = turn[n].of \/ turn'[n].of = c.of
    PROVE  calls' \subseteq Call /\ OneCall' /\ \A y \in calls' : CallTrue(y)'
<1>1. c \in Call /\ CallTrue(c)
  BY DEF SInv, Typed, WorkTrue
<1>2. PICK x : x = [c EXCEPT !.id = i]
  OBVIOUS
<1>3. x \in Call /\ x.k = "turn" /\ x.id = i /\ x.of = c.of
  <2>1. i \in Waiting .. MaxTurns
    BY AgentSessionAssumption DEF Waiting
  <2> QED BY <1>1, <1>2, <2>1 DEF Call
<1>4. calls' = (calls \ {c}) \cup {x}
  BY <1>2
<1>5. calls' \subseteq Call
  BY <1>3, <1>4 DEF SInv, Typed
<1>6. \A y, z \in calls : (y.k = "turn" /\ z.k = "turn" /\ y.of = z.of) => y = z
  BY DEF SInv, WorkTrue, OneCall
<1>7. OneCall'
  BY <1>3, <1>4, <1>6 DEF OneCall
<1>8. CallTrue(x)'
  BY <1>1, <1>3 DEF CallTrue, AgentOnly, Waiting
<1>9. ASSUME NEW y \in calls, y # c PROVE CallTrue(y)'
  <2>1. CASE y.k = "turn"
    <3>1. y.of # c.of
      BY <1>6, <1>9, <2>1
    <3> QED BY <3>1, CallRests
  <2>2. CASE y.k # "turn"
    <3>1. CallTrue(y)
      BY DEF SInv, WorkTrue
    <3> QED BY <2>2, <3>1 DEF CallTrue
  <2> QED BY <2>1, <2>2
<1> QED BY <1>4, <1>5, <1>7, <1>8, <1>9

LEMMA AgentTurnKeeps == ASSUME SInv, NEW c \in calls, AgentTurn(c) PROVE SInv'
<1>1. c.k = "turn" /\ c.id = Waiting /\ c \in Call /\ c.of \in Tasks /\ CallTrue(c) /\ AgentOnly /\ out' = out /\ thread' = thread
  BY DEF AgentTurn, host, store, ghost, AgentOnly, SInv, Typed, WorkTrue, Call
<1>2. mode = "serving"
  BY Serving DEF SInv
<1>3. Own(mem, c.of) /\ mem.thread \in thread.loaded /\ (\A n \in Turns : turn[n].of # c.of) /\ sent[c.of] > 0
  BY <1>1 DEF CallTrue
<1>4. thread' \in [n : 0 .. MaxTurns, loaded : SUBSET (0 .. MaxTurns)] /\ out' \in Seq(Msg) /\ Once(out') /\ InOrder(out')
  BY <1>1 DEF SInv, Typed, WorkTrue
<1>5. CASE calls' = (calls \ {c}) \cup {[c EXCEPT !.id = 0]} /\ turn' = turn
  <2>1. TurnsGrow /\ \A n \in Turns : TurnTrue(n)'
    BY <1>1, <1>5, TurnRests
  <2>2. 0 \in 0 .. MaxTurns
    BY AgentSessionAssumption
  <2>3. calls' \subseteq Call /\ OneCall' /\ \A y \in calls' : CallTrue(y)'
    BY <1>1, <1>5, <2>1, <2>2, Answered
  <2>4. Typed' /\ ModeTrue' /\ JournalTrue(mem)' /\ JournalTrue(disk)'
    BY <1>1, <1>2, <1>4, <1>5, <2>1, <2>3, AgentStep DEF SInv, Typed
  <2>5. ASSUME NEW y \in Msg, In(out', y) PROVE SaysTrue(y)'
    BY <1>1, <1>5, <2>1, <2>5, SaysRest
  <2>6. WorkTrue'
    BY <1>1, <1>2, <1>4, <2>1, <2>3, <2>5, AgentWork
  <2>7. \A n \in Turns : AskTrue(n)'
    BY <1>1, <1>5, AsksRest DEF SInv, AgentOnly
  <2> QED BY <2>4, <2>6, <2>7 DEF SInv
<1>6. ASSUME NEW i \in Turns, turn[i] = NoTurn, calls' = (calls \ {c}) \cup {[c EXCEPT !.id = i]},
             turn' = [turn EXCEPT ![i] = [NoTurn EXCEPT !.of = c.of, !.inc = inc, !.thread = mem.thread, !.st = "new"]]
      PROVE  SInv'
  <2>1. PICK z \in TurnT : z = NoTurn
    BY <1>6 DEF SInv, Typed
  <2>2. PICK v : v = [z EXCEPT !.of = c.of, !.inc = inc, !.thread = mem.thread, !.st = "new"]
    OBVIOUS
  <2>3. inc \in Inc /\ mem.thread \in 0 .. MaxTurns /\ turn \in [Turns -> TurnT]
    BY JournalIs DEF SInv, Typed
  <2>4. v \in TurnT /\ v.of = c.of /\ v.thread = mem.thread /\ v.st = "new" /\ v.made = z.made
    BY <1>1, <2>1, <2>2, <2>3 DEF TurnT
  <2>5. turn' \in [Turns -> TurnT] /\ turn'[i] = v /\ \A n \in Turns : n # i => turn'[n] = turn[n]
    <3>1. turn' = [turn EXCEPT ![i] = v]
      BY <1>6, <2>1, <2>2
    <3> QED BY <2>3, <2>4, <3>1
  <2>6. turn[i].of \notin Tasks /\ turn[i].st = "none" /\ turn[i].made = z.made
    BY <1>6, <2>1, AgentSessionAssumption DEF NoTurn
  <2>7. TurnsGrow
    <3>1. ASSUME NEW n \in Turns PROVE (turn[n].of \in Tasks => turn'[n].of = turn[n].of) /\ (turn[n].st \in Ends => turn'[n].st = turn[n].st)
      <4>1. CASE n = i
        BY <2>6, <4>1 DEF Ends
      <4>2. CASE n # i
        BY <2>5, <4>2
      <4> QED BY <4>1, <4>2
    <3> QED BY <3>1 DEF TurnsGrow
  <2>8. i \in 0 .. MaxTurns
    BY AgentSessionAssumption DEF Turns
  <2>9. calls' \subseteq Call /\ OneCall' /\ \A y \in calls' : CallTrue(y)'
    BY <1>1, <1>6, <2>4, <2>5, <2>7, <2>8, Answered
  <2>10. Typed' /\ ModeTrue' /\ JournalTrue(mem)' /\ JournalTrue(disk)' /\ \A o \in Tasks : Own(mem, o)' <=> Own(mem, o)
    BY <1>1, <1>2, <1>4, <2>5, <2>7, <2>9, AgentStep
  <2>11. ASSUME NEW n \in Turns PROVE TurnTrue(n)'
    <3>1. CASE n = i
      <4>1. turn'[n].of = c.of /\ turn'[n].thread = mem.thread
        BY <2>4, <2>5, <3>1
      <4>2. Own(mem, turn[n].of)'
        BY <1>1, <1>3, <4>1 DEF AgentOnly, Own, IsOpen
      <4>3. \A m \in Turns : turn'[m].of = c.of => m = i
        BY <1>3, <2>5
      <4> QED BY <1>1, <1>3, <3>1, <4>1, <4>2, <4>3 DEF TurnTrue, AgentOnly
    <3>2. CASE n # i
      <4>1. TurnTrue(n) /\ turn'[n] = turn[n]
        BY <2>5, <3>2 DEF SInv, WorkTrue
      <4>2. \A m \in Turns : (turn'[n] # NoTurn /\ turn'[m].of = turn'[n].of) => m = n
        BY <1>3, <2>4, <2>5, <4>1 DEF TurnTrue
      <4>3. turn[n] # NoTurn => (turn[n].of \in Tasks /\ sent[turn[n].of] > 0)
        BY <4>1 DEF TurnTrue
      <4>4. IsLive(n)' => (Own(mem, turn[n].of)' /\ turn'[n].thread \in thread'.loaded)
        BY <1>1, <4>1 DEF TurnTrue, AgentOnly, IsLive, Own, IsOpen
      <4> QED BY <1>1, <4>1, <4>2, <4>3, <4>4 DEF TurnTrue, AgentOnly
    <3> QED BY <3>1, <3>2
  <2>12. ASSUME NEW y \in Msg, In(out', y) PROVE SaysTrue(y)'
    <3>1. \A n \in Turns : turn[n].st = "running" => (turn'[n].st = "running" \/ In(out', Event("ended", n)))
      BY <2>5, <2>6
    <3> QED BY <1>1, <2>7, <2>12, <3>1, SaysRest
  <2>13. WorkTrue'
    BY <1>1, <1>2, <1>4, <2>7, <2>9, <2>11, <2>12, AgentWork
  <2>14. \A n \in Turns : turn'[n].made = turn[n].made
    BY <2>4, <2>5, <2>6
  <2>15. \A n \in Turns : AskTrue(n)'
    BY <1>1, <2>14, AsksRest DEF SInv, AgentOnly
  <2> QED BY <2>10, <2>13, <2>15 DEF SInv
<1> QED BY <1>5, <1>6 DEF AgentTurn

\* The turn n goes on, and says so.
LEMMA TurnStep ==
    ASSUME SInv, NEW n \in Turns, IsLive(n), AgentOnly, calls' = calls, thread' = thread,
           turn' \in [Turns -> TurnT], turn'[n].of = turn[n].of, turn'[n].thread = turn[n].thread, turn'[n] # NoTurn,
           \A m \in Turns : m # n => turn'[m] = turn[m],
           NEW k \in {"started", "ended"} \cup Requests, OutGrows(Event(k, n)),
           k = "started" => turn'[n].st = "running", k \in Requests => turn'[n].st = turn[n].st, k = "ended" => turn'[n].st \in Ends
    PROVE  Typed' /\ ModeTrue' /\ JournalTrue(mem)' /\ JournalTrue(disk)' /\ WorkTrue'
<1>1. mode = "serving"
  BY Serving DEF SInv
<1>2. TurnsGrow
  BY DEF TurnsGrow, IsLive, Ends
<1>3. TurnTrue(n) /\ turn[n] # NoTurn /\ turn[n].of \in Tasks /\ Own(mem, turn[n].of) /\ turn[n].thread \in thread.loaded
  BY DEF SInv, WorkTrue, TurnTrue, IsLive, NoTurn
<1>4. Typed' /\ ModeTrue' /\ JournalTrue(mem)' /\ JournalTrue(disk)'
  <2>1. calls' \subseteq Call /\ out' \in Seq(Msg) /\ thread' \in [n : 0 .. MaxTurns, loaded : SUBSET (0 .. MaxTurns)]
    BY DEF SInv, Typed, OutGrows
  <2> QED BY <1>1, <1>2, <2>1, AgentStep
<1>5. ASSUME NEW m \in Turns PROVE TurnTrue(m)'
  <2>1. TurnTrue(m) /\ turn'[m].of = turn[m].of /\ turn'[m].thread = turn[m].thread /\ (turn'[m] # NoTurn => turn[m] # NoTurn)
        /\ (IsLive(m)' => IsLive(m)) /\ \A l \in Turns : turn'[l].of = turn[l].of
    BY <1>3 DEF SInv, WorkTrue, IsLive
  <2> QED BY <2>1 DEF TurnTrue, AgentOnly, Own, IsOpen
<1>6. ASSUME NEW c \in calls PROVE CallTrue(c)'
  BY <1>2, CallRests
<1>7. ASSUME NEW y \in Msg, In(out', y) PROVE SaysTrue(y)'
  <2>1. CASE In(out, y)
    <3>1. \A m \in Turns : turn[m].st = "running" => (turn'[m].st = "running" \/ In(out', Event("ended", m)))
      BY DEF OutGrows
    <3>2. \A x \in Msg : In(out, x) => In(out', x)
      BY DEF OutGrows
    <3> QED BY <1>2, <2>1, <3>1, <3>2, SaysRest
  <2>2. CASE y = Event(k, n)
    <3>1. y.k = k /\ y.n = n /\ k # "reply"
      BY <2>2, EventOf
    <3>2. Own(mem, turn[n].of)'
      BY <1>3 DEF AgentOnly, Own, IsOpen
    <3>3. k = "ended" => Own(mem, turn[y.n].of)'
      BY <3>1, <3>2
    <3> QED BY <3>1, <3>3 DEF SaysTrue
  <2> QED BY <1>7, <2>1, <2>2 DEF OutGrows
<1>8. OneCall' /\ Once(out') /\ InOrder(out')
  BY DEF SInv, WorkTrue, OneCall, OutGrows
<1> QED BY <1>1, <1>2, <1>4, <1>5, <1>6, <1>7, <1>8, AgentWork

LEMMA AgentStartsKeeps == ASSUME SInv, NEW n \in Turns, AgentStarts(n) PROVE SInv'
<1>1. turn[n].st = "new" /\ turn' = [turn EXCEPT ![n].st = "running"] /\ out' = Append(out, Event("started", n))
      /\ AgentOnly /\ calls' = calls /\ thread' = thread
  BY DEF AgentStarts, Say, Event, host, store, ghost, AgentOnly
<1>2. PICK v \in TurnT : v = turn[n]
  BY DEF SInv, Typed
<1>3. PICK w : w = [v EXCEPT !.st = "running"]
  OBVIOUS
<1>4. w \in TurnT /\ w.of = v.of /\ w.thread = v.thread /\ w.made = v.made /\ w.st = "running"
  BY <1>2, <1>3 DEF TurnT
<1>5. turn' \in [Turns -> TurnT] /\ turn'[n] = w /\ \A m \in Turns : m # n => turn'[m] = turn[m]
  BY <1>1, <1>2, <1>3, <1>4 DEF SInv, Typed
<1>6. ~In(out, Event("ended", n))
  BY <1>1, EventOf DEF SInv, WorkTrue, SaysTrue, Ends
<1>7. ~In(out, Event("started", n))
  BY <1>1, <1>6, EventOf DEF SInv, WorkTrue, SaysTrue
<1>8. OutGrows(Event("started", n))
  <2>1. \A m \in Turns : Event("started", n).n = m => ~In(out, Event("ended", m))
    BY <1>6, EventOf
  <2> QED BY <1>1, <1>7, <2>1, EventOf, OutAppend
<1>9. Typed' /\ ModeTrue' /\ JournalTrue(mem)' /\ JournalTrue(disk)' /\ WorkTrue'
  <2>1. IsLive(n) /\ turn'[n] # NoTurn /\ turn'[n].st = "running"
    BY <1>1, <1>4, <1>5 DEF IsLive, NoTurn
  <2>2. PICK k \in {"started", "ended"} \cup Requests : k = "started" /\ k \notin Requests
    BY DEF Requests
  <2> QED BY <1>1, <1>2, <1>4, <1>5, <1>8, <2>1, <2>2, TurnStep
<1>10. ASSUME NEW m \in Turns PROVE AskTrue(m)'
  <2>1. \A r \in Requests : In(out', Event(r, m)) => In(out, Event(r, m))
    BY <1>8, EventOf DEF OutGrows, Requests
  <2>2. turn'[m].made = turn[m].made
    BY <1>2, <1>4, <1>5
  <2> QED BY <1>1, <2>1, <2>2, AskRests DEF SInv, AgentOnly
<1> QED BY <1>9, <1>10 DEF SInv

LEMMA AgentEndsKeeps == ASSUME SInv, NEW n \in Turns, NEW end \in Ends, AgentEnds(n, end) PROVE SInv'
<1>1. turn[n].st = "running" /\ turn' = [turn EXCEPT ![n].st = end] /\ out' = Append(out, Event("ended", n))
      /\ AgentOnly /\ calls' = calls /\ thread' = thread
  BY DEF AgentEnds, Say, Event, host, store, ghost, AgentOnly
<1>2. PICK v \in TurnT : v = turn[n]
  BY DEF SInv, Typed
<1>3. PICK w : w = [v EXCEPT !.st = end]
  OBVIOUS
<1>4. w \in TurnT /\ w.of = v.of /\ w.thread = v.thread /\ w.made = v.made /\ w.st = end
  BY <1>2, <1>3 DEF TurnT
<1>5. turn' \in [Turns -> TurnT] /\ turn'[n] = w /\ \A m \in Turns : m # n => turn'[m] = turn[m]
  BY <1>1, <1>2, <1>3, <1>4 DEF SInv, Typed
<1>6. ~In(out, Event("ended", n))
  BY <1>1, EventOf DEF SInv, WorkTrue, SaysTrue, Ends
<1>7. OutGrows(Event("ended", n))
  BY <1>1, <1>6, EventOf, OutAppend
<1>8. Typed' /\ ModeTrue' /\ JournalTrue(mem)' /\ JournalTrue(disk)' /\ WorkTrue'
  <2>1. IsLive(n) /\ turn'[n] # NoTurn /\ turn'[n].st \in Ends
    BY <1>1, <1>4, <1>5 DEF IsLive, NoTurn, Ends
  <2>2. PICK k \in {"started", "ended"} \cup Requests : k = "ended" /\ k \notin Requests
    BY DEF Requests
  <2> QED BY <1>1, <1>2, <1>4, <1>5, <1>7, <2>1, <2>2, TurnStep
<1>9. ASSUME NEW m \in Turns PROVE AskTrue(m)'
  <2>1. \A r \in Requests : In(out', Event(r, m)) => In(out, Event(r, m))
    BY <1>7, EventOf DEF OutGrows, Requests
  <2>2. turn'[m].made = turn[m].made
    BY <1>2, <1>4, <1>5
  <2> QED BY <1>1, <2>1, <2>2, AskRests DEF SInv, AgentOnly
<1> QED BY <1>8, <1>9 DEF SInv

LEMMA AgentRequestsKeeps == ASSUME SInv, NEW n \in Turns, NEW r \in Requests, AgentRequests(n, r) PROVE SInv'
<1>1. turn[n].st = "running" /\ r \notin turn[n].made /\ turn' = [turn EXCEPT ![n].made = @ \cup {r}]
      /\ out' = Append(out, Event(r, n)) /\ AgentOnly /\ calls' = calls /\ thread' = thread
  BY DEF AgentRequests, Say, Event, host, store, ghost, AgentOnly
<1>2. PICK v \in TurnT : v = turn[n]
  BY DEF SInv, Typed
<1>3. PICK w : w = [v EXCEPT !.made = v.made \cup {r}]
  OBVIOUS
<1>4. w \in TurnT /\ w.of = v.of /\ w.thread = v.thread /\ w.made = v.made \cup {r} /\ w.st = v.st
  BY <1>2, <1>3 DEF TurnT
<1>5. turn' \in [Turns -> TurnT] /\ turn'[n] = w /\ \A m \in Turns : m # n => turn'[m] = turn[m]
  <2>1. turn' = [turn EXCEPT ![n] = w]
    BY <1>1, <1>2, <1>3
  <2> QED BY <1>4, <2>1 DEF SInv, Typed
<1>6. AskTrue(n)
  BY DEF SInv
<1>7. ~In(out, Event(r, n))
  BY <1>1, <1>6 DEF AskTrue
<1>8. OutGrows(Event(r, n))
  <2>1. r \notin {"started", "ended", "reply"}
    BY DEF Requests
  <2> QED BY <1>1, <1>7, <2>1, EventOf, OutAppend
<1>9. Typed' /\ ModeTrue' /\ JournalTrue(mem)' /\ JournalTrue(disk)' /\ WorkTrue'
  <2>1. IsLive(n) /\ turn'[n] # NoTurn /\ turn'[n].st = turn[n].st
    BY <1>1, <1>2, <1>4, <1>5 DEF IsLive, NoTurn
  <2>2. PICK k \in {"started", "ended"} \cup Requests : k = r /\ k \notin {"started", "ended"}
    BY DEF Requests
  <2> QED BY <1>1, <1>2, <1>4, <1>5, <1>8, <2>1, <2>2, TurnStep
<1>10. ASSUME NEW m \in Turns PROVE AskTrue(m)'
  <2>1. CASE m # n
    <3>1. \A q \in Requests : In(out', Event(q, m)) => In(out, Event(q, m))
      BY <1>8, <2>1, EventOf, EventSame DEF OutGrows
    <3> QED BY <1>1, <1>5, <2>1, <3>1, AskRests DEF SInv, AgentOnly
  <2>2. CASE m = n
    <3>1. \A q \in Requests : In(out', Event(q, n)) => (In(out, Event(q, n)) \/ q = r)
      BY <1>8, EventOf, EventSame DEF OutGrows
    <3>2. turn'[n].made = turn[n].made \cup {r}
      BY <1>2, <1>4, <1>5
    <3>3. answered[r][n] = 0
      BY <1>1, <1>6 DEF AskTrue, SInv, Typed
    <3>4. CASE r = "ask"
      <4>1. n \notin pending /\ ~(answering.decided /\ answering.of = n) /\ answered["ask"][n] = 0
        BY <1>1, <1>6, <3>3, <3>4 DEF AskTrue
      <4>2. In(out', Event("call", n)) => In(out, Event("call", n))
        BY <3>1, <3>4 DEF Requests
      <4>3. \A q \in Requests : (In(out', Event(q, n)) \/ answered[q][n] > 0) => q \in turn'[n].made
        BY <1>6, <3>1, <3>2 DEF AskTrue
      <4> QED BY <1>1, <1>6, <2>2, <3>2, <3>4, <4>1, <4>2, <4>3 DEF AskTrue, AgentOnly
    <3>5. CASE r = "call"
      <4>1. n \notin cpending /\ n \notin replying /\ answered["call"][n] = 0
        BY <1>1, <1>6, <3>3, <3>5 DEF AskTrue
      <4>2. In(out', Event("ask", n)) => In(out, Event("ask", n))
        BY <3>1, <3>5 DEF Requests
      <4>3. \A q \in Requests : (In(out', Event(q, n)) \/ answered[q][n] > 0) => q \in turn'[n].made
        BY <1>6, <3>1, <3>2 DEF AskTrue
      <4> QED BY <1>1, <1>6, <2>2, <3>2, <3>5, <4>1, <4>2, <4>3 DEF AskTrue, AgentOnly
    <3> QED BY <3>4, <3>5 DEF Requests
  <2> QED BY <2>1, <2>2
<1> QED BY <1>9, <1>10 DEF SInv

LEMMA CrashKeeps == ASSUME SInv, Crash PROVE SInv'
<1> USE DEF SInv
<1>1. /\ mode' = "down" /\ mem' = disk /\ fatal' = FALSE /\ held' = FALSE /\ conn' = FALSE
      /\ pending' = {} /\ cpending' = {} /\ replying' = {} /\ answering' = NoAnswer
      /\ job' = [o \in Tasks |-> NoJob] /\ calls' = {} /\ out' = <<>>
      /\ thread' = [thread EXCEPT !.loaded = {}] /\ UNCHANGED <<inc, disk, sent, answered>>
  BY DEF Crash, ghost
<1>2. turn' = [n \in Turns |-> IF turn[n].st \in {"new", "running"} THEN [turn[n] EXCEPT !.st = "interrupted"] ELSE turn[n]]
  BY DEF Crash
<1>3. ASSUME NEW n \in Turns
      PROVE  /\ turn'[n] \in TurnT /\ turn'[n].st \notin {"new", "running"} /\ turn'[n].of = turn[n].of /\ turn'[n].made = turn[n].made
             /\ turn'[n] # NoTurn => turn[n] # NoTurn
             /\ turn[n].st \in Ends => turn'[n].st = turn[n].st
  <2>1. PICK v \in TurnT : v = turn[n]
    BY DEF Typed
  <2>2. CASE v.st \in {"new", "running"}
    <3>1. turn'[n] = [v EXCEPT !.st = "interrupted"]
      BY <1>2, <2>1, <2>2
    <3>2. turn[n] # NoTurn /\ turn[n].st \notin Ends
      BY <2>1, <2>2 DEF NoTurn, Ends
    <3> QED BY <2>1, <3>1, <3>2 DEF TurnT, Ends
  <2>3. CASE v.st \notin {"new", "running"}
    BY <1>2, <2>1, <2>3
  <2> QED BY <2>2, <2>3
<1>4. turn' \in [Turns -> TurnT]
  BY <1>2, <1>3
<1>5. \A o \in Tasks : job'[o] = NoJob /\ job'[o].step = "idle" /\ NoJob \in Job
  <2>1. Waiting \in Waiting .. MaxTurns
    BY AgentSessionAssumption DEF Waiting
  <2> QED BY <1>1, <2>1 DEF NoJob, Job
<1>6. Typed'
  <2>1. out' \in Seq(Msg) /\ answering' \in Ans
    BY <1>1, AgentSessionAssumption DEF NoAnswer, Ans
  <2>2. job' \in [Tasks -> Job]
    BY <1>1, <1>5
  <2>3. thread' \in [n : 0 .. MaxTurns, loaded : SUBSET (0 .. MaxTurns)]
    BY <1>1 DEF Typed
  <2>4. mem' \in Journal /\ disk' \in Journal /\ inc' \in Inc /\ sent' \in [Tasks -> Nat] /\ answered' \in [Requests -> [Turns -> Nat]]
    BY <1>1 DEF Typed
  <2> QED BY <1>1, <1>4, <2>1, <2>2, <2>3, <2>4 DEF Typed
<1>7. ModeTrue'
  BY <1>1, <1>3, <1>5 DEF ModeTrue, IsLive
<1>8. PICK d \in Journal : d = disk
  BY DEF Typed
<1>9. JournalTrue(d)'
  <2>1. TurnsGrow /\ \A o \in Tasks : TaskRest(o)
    BY <1>1, <1>3, <1>5, AgentSessionAssumption DEF TurnsGrow, TaskRest, Typed, Inc
  <2>2. ASSUME NEW o \in Tasks PROVE TaskTrue(d, o)'
    <3>1. TaskTrue(d, o) /\ OpSame(d, d, o) /\ TaskRest(o)
      BY <1>8, <2>1 DEF JournalTrue, OpSame
    <3> QED BY <1>8, <2>1, <3>1, TaskNext
  <2>3. ASSUME NEW n \in Turns PROVE AnswersTrue(d, n)'
    <3>1. AnswersTrue(d, n) /\ answering \in Ans
      BY <1>8 DEF JournalTrue, Typed
    <3> QED BY <1>1, <1>8, <3>1, AnswersNext
  <2> QED BY <1>1, <2>2, <2>3 DEF JournalTrue
<1>10. JournalTrue(mem)' /\ JournalTrue(disk)'
  BY <1>1, <1>8, <1>9, MemIs, DiskIs
<1>11. WorkTrue'
  BY <1>1, <1>3, <1>5, WorkEmpty
<1>12. ASSUME NEW n \in Turns PROVE AskTrue(n)'
  <2>1. \A x : ~In(out', x)
    BY <1>1 DEF In
  <2>2. AskTrue(n) /\ turn'[n].made = turn[n].made /\ ~answering'.decided
    BY <1>1, <1>3 DEF NoAnswer
  <2> QED BY <1>1, <2>1, <2>2 DEF AskTrue
<1> QED BY <1>6, <1>7, <1>10, <1>11, <1>12

(********************************** the invariant ************************************)
LEMMA InitKeeps == Init => SInv
<1> SUFFICES ASSUME Init PROVE SInv
  OBVIOUS
<1> USE AgentSessionAssumption
<1>1. /\ mode = "down" /\ inc = 0 /\ mem = Empty /\ disk = Empty /\ fatal = FALSE /\ held = FALSE /\ conn = FALSE
      /\ pending = {} /\ cpending = {} /\ replying = {} /\ answering = NoAnswer
      /\ job = [o \in Tasks |-> NoJob] /\ calls = {} /\ out = <<>>
      /\ turn = [n \in Turns |-> NoTurn] /\ thread = [n |-> 0, loaded |-> {}] /\ sent = [o \in Tasks |-> 0]
      /\ answered = [r \in Requests |-> [n \in Turns |-> 0]]
  BY DEF Init
<1>2. 0 \in 0 .. MaxTurns /\ 0 \in Inc /\ Waiting \in Waiting .. MaxTurns
  BY DEF Inc, Waiting
<1>3. Empty \in Journal
  <2>1. NoOp \in Op /\ NoControl \in Control /\ [next |-> "none", inc |-> 0] \in Binding
    BY <1>2 DEF NoOp, Op, NoControl, Control, Binding
  <2> QED BY <1>2, <2>1 DEF Empty, Journal
<1>4. Typed
  <2>1. NoJob \in Job /\ NoAnswer \in Ans
    BY <1>2 DEF NoJob, Job, NoAnswer, Ans
  <2>2. NoTurn \in TurnT
    BY <1>2 DEF NoTurn, TurnT
  <2>3. thread \in [n : 0 .. MaxTurns, loaded : SUBSET (0 .. MaxTurns)]
    BY <1>1, <1>2
  <2>4. job \in [Tasks -> Job] /\ turn \in [Turns -> TurnT] /\ sent \in [Tasks -> Nat] /\ answered \in [Requests -> [Turns -> Nat]]
    BY <1>1, <2>1, <2>2
  <2>5. out \in Seq(Msg)
    BY <1>1
  <2> QED BY <1>1, <1>2, <1>3, <2>1, <2>3, <2>4, <2>5 DEF Typed
<1>5. \A o \in Tasks : job[o].step = "idle" /\ sent[o] = 0
  BY <1>1 DEF NoJob
<1>6. \A n \in Turns : turn[n] = NoTurn /\ answered["ask"][n] = 0 /\ answered["call"][n] = 0 /\ ~IsLive(n)
  BY <1>1 DEF Requests, IsLive, NoTurn
<1>7. ModeTrue
  BY <1>1, <1>5, <1>6 DEF ModeTrue
<1>8. JournalTrue(mem) /\ JournalTrue(disk)
  <2>1. ASSUME NEW o \in Tasks PROVE Empty.ops[o] = NoOp /\ ~Closed(Empty, o)
    BY DEF Empty, Closed
  <2>2. ASSUME NEW o \in Tasks PROVE TaskTrue(Empty, o)
    BY <1>1, <1>5, <2>1 DEF TaskTrue, NoOp
  <2>3. ASSUME NEW n \in Turns PROVE AnswersTrue(Empty, n)
    BY <1>1, <1>6 DEF AnswersTrue
  <2> QED BY <1>1, <2>2, <2>3 DEF JournalTrue
<1>9. WorkTrue
  <2>1. \A x \in Msg : ~In(out, x)
    BY <1>1 DEF In
  <2>2. OneCall /\ Once(out) /\ InOrder(out)
    BY <1>1 DEF OneCall, Once, InOrder
  <2>3. ASSUME NEW n \in Turns PROVE TurnTrue(n)
    BY <1>6 DEF TurnTrue
  <2>4. ASSUME NEW o \in Tasks PROVE JobTrue(o) /\ sent[o] <= 1
    BY <1>5 DEF JobTrue
  <2> QED BY <1>1, <2>1, <2>2, <2>3, <2>4 DEF WorkTrue
<1>10. ASSUME NEW n \in Turns PROVE AskTrue(n)
  <2>1. \A x : ~In(out, x)
    BY <1>1 DEF In
  <2>2. \A r \in Requests : answered[r][n] = 0
    BY <1>1
  <2>3. ~answering.decided
    BY <1>1 DEF NoAnswer
  <2> QED BY <1>1, <1>6, <2>1, <2>2, <2>3 DEF AskTrue
<1> QED BY <1>4, <1>7, <1>8, <1>9, <1>10 DEF SInv

LEMMA NextKeeps == SInv /\ [Next]_vars => SInv'
<1> SUFFICES ASSUME SInv, [Next]_vars PROVE SInv'
  OBVIOUS
<1>1. CASE UNCHANGED vars
  <2>1. UNCHANGED <<mode, inc, mem, disk, fatal, held, conn, pending, cpending, job, answering, replying, calls, out, turn, thread, sent, answered>>
    BY <1>1 DEF vars
  <2> QED BY <2>1 DEF SInv, Typed, ModeTrue, IsLive, JournalTrue, TaskTrue, Closed, AnswersTrue, WorkTrue, OneOpen, Own, IsOpen, OneCall, JobTrue,
                      CallTrue, TurnTrue, SaysTrue, AskTrue, In, Once, InOrder
<1>2. ASSUME NEW ok \in BOOLEAN, Broker(ok) PROVE SInv'
  <2>1. CASE Open(ok) \/ Resume(ok) \/ (\E seen \in SUBSET Turns : ResumeAnswer(seen, ok))
    BY <2>1, OpenKeeps, ResumeKeeps, ResumeAnswerKeeps
  <2>2. CASE \E o \in Tasks : Begin(o, ok) \/ ThreadStarted(o, ok) \/ Accepted(o, ok) \/ GiveUp(o, ok)
    BY <2>2, BeginKeeps, ThreadStartedKeeps, AcceptedKeeps, GiveUpKeeps
  <2>3. CASE (\E k \in {"started", "ended"} : ReadTurn(k, ok)) \/ ReadAsk(ok) \/ ReadCall(ok)
    BY <2>3, ReadTurnKeeps, ReadAskKeeps, ReadCallKeeps
  <2>4. CASE (\E c \in Controls, n \in Turns : Permission(c, n, ok)) \/ Decide(ok) \/ Undecided(ok) \/ PermissionSent(ok)
    BY <2>4, PermissionKeeps, DecideKeeps, UndecidedKeeps, PermissionSentKeeps
  <2>5. CASE \E n \in Turns : Reply(n, ok) \/ ReplySent(n, ok)
    BY <2>5, ReplyKeeps, ReplySentKeeps
  <2>6. CASE \E o, s \in Tasks : Continue(o, s, ok)
    BY <2>6, ContinueKeeps
  <2> QED BY <1>2, <2>1, <2>2, <2>3, <2>4, <2>5, <2>6 DEF Broker
<1>3. CASE (\E o \in Tasks : Send(o)) \/ ReadReply \/ Disconnect \/ Crash
  BY <1>3, SendKeeps, ReadReplyKeeps, DisconnectKeeps, CrashKeeps
<1>4. CASE Agent
  <2>1. CASE \E c \in calls : AgentThread(c) \/ AgentTurn(c) \/ AgentReply(c)
    BY <2>1, AgentThreadKeeps, AgentTurnKeeps, AgentReplyKeeps
  <2>2. CASE \E n \in Turns : AgentStarts(n) \/ (\E r \in Requests : AgentRequests(n, r)) \/ (\E end \in Ends : AgentEnds(n, end))
    BY <2>2, AgentStartsKeeps, AgentRequestsKeeps, AgentEndsKeeps
  <2> QED BY <1>4, <2>1, <2>2 DEF Agent
<1> QED BY <1>1, <1>2, <1>3, <1>4 DEF Next

(* The invariant of the agent session: what the journal, in memory and on disk, says of a task or an      *)
(* answer is true of what was sent and of the agent's turns (save, Begin, Observe, ReplyController), one  *)
(* task of an incarnation is open at a time, and whatever the agent does is for that task.                *)
THEOREM SessionInvariant == Spec => []SInv
  BY InitKeeps, NextKeeps, PTL DEF Spec

LEMMA SentOnceHolds == SInv => SentOnce
<1> SUFFICES ASSUME SInv PROVE SentOnce
  OBVIOUS
<1>1. DispatchedOnce
  BY DEF DispatchedOnce, SInv, WorkTrue
<1>2. AnsweredOnce
  BY DEF AnsweredOnce, SInv, AskTrue, Requests
<1>3. ASSUME NEW o \in Tasks, sent[o] > 0 PROVE disk.ops[o] # NoOp
  BY <1>3 DEF SInv, JournalTrue, TaskTrue, NoOp
<1>4. ASSUME NEW n \in Turns
      PROVE  /\ answered["ask"][n] > 0 => \E c \in Controls :
                    disk.controls[c].of = n /\ disk.controls[c].st \notin {"none", "refused", "unsupported"}
             /\ answered["call"][n] > 0 => disk.requests[n] \notin {"none", "pending", "fenced"}
  <2>1. AnswersTrue(disk, n)
    BY DEF SInv, JournalTrue
  <2> QED BY <2>1 DEF AnswersTrue, Told
<1> QED BY <1>1, <1>2, <1>3, <1>4 DEF SentOnce, WriteAhead

(* A task is sent to the agent at most once, a request of the agent answered at most once, and neither    *)
(* before the journal on disk knows of it, whatever fails in between (Submit, the permission route and    *)
(* ReplyController around their journal writes).                                                          *)
THEOREM NothingSentTwice == Spec => []SentOnce
  BY SessionInvariant, SentOnceHolds, PTL

LEMMA OutcomeHolds == SInv => OutcomeTrue
  BY DEF SInv, JournalTrue, TaskTrue, OutcomeTrue

(* A turn that the journal names for a task is the task's, and an outcome it records is how that turn     *)
(* ended: Observe, ObserveRecoveredTurns and the continuations mix up no two tasks.                       *)
THEOREM OutcomesAreTrue == Spec => []OutcomeTrue
  BY SessionInvariant, OutcomeHolds, PTL

LEMMA OneTurnHolds == SInv => OneTurn
<1> SUFFICES ASSUME SInv PROVE OneTurn
  OBVIOUS
<1> DEFINE live == {n \in Turns : turn[n].st \in {"new", "running"}}
<1>1. ASSUME NEW n \in live PROVE /\ n \in Turns /\ turn[n] # NoTurn /\ turn[n].of \in Tasks /\ Own(mem, turn[n].of)
                                  /\ turn[n].thread \in thread.loaded /\ mode = "serving"
  <2>1. n \in Turns /\ IsLive(n) /\ TurnTrue(n) /\ turn[n] # NoTurn
    BY DEF SInv, WorkTrue, IsLive, NoTurn
  <2> QED BY <2>1, Serving DEF TurnTrue, SInv
<1>2. ASSUME NEW n \in live, NEW m \in live PROVE m = n
  <2>1. turn[m].of = turn[n].of
    BY <1>1 DEF SInv, WorkTrue, OneOpen
  <2> QED BY <1>1, <2>1 DEF SInv, WorkTrue, TurnTrue
<1>3. Cardinality(live) <= 1
  <2>1. CASE live = {}
    BY <2>1, FS_EmptySet
  <2>2. CASE live # {}
    <3>1. PICK n \in live : TRUE
      BY <2>2
    <3>2. live = {n}
      BY <1>2, <3>1
    <3>3. Cardinality({n}) = 1
      BY FS_Singleton
    <3> QED BY <3>2, <3>3
  <2> QED BY <2>1, <2>2
<1> QED BY <1>1, <1>3 DEF OneTurn

LEMMA ResultHolds == SInv => ResultWhole
<1> SUFFICES ASSUME SInv, ResultReady
             PROVE  /\ \A n \in Turns : turn[n].st \notin {"new", "running"}
                    /\ \A c \in calls : c.k = "turn" => c.id # Waiting
                    /\ \A o \in Tasks : sent[o] > 0 => \E s \in {o, mem.bound[o].next} \cap Tasks : mem.ops[s].end # "none"
  BY DEF ResultWhole
<1>1. /\ \A o \in Tasks : Closed(mem, o) => mem.ops[mem.bound[o].next].end # "none"
      /\ \A o \in Tasks : IsOpen(mem, o) => Closed(mem, o)
  BY DEF ResultReady
<1>2. \A o \in Tasks : ~Own(mem, o)
  BY <1>1, NotOwn
<1>3. \A n \in Turns : turn[n].st \notin {"new", "running"}
  BY <1>2, NobodyWorks DEF IsLive
<1>4. \A c \in calls : c.k = "turn" => c.id # Waiting
  BY <1>2, NobodyWorks
<1>5. ASSUME NEW o \in Tasks, sent[o] > 0 PROVE \E s \in {o, mem.bound[o].next} \cap Tasks : mem.ops[s].end # "none"
  <2>1. mem.ops[o].inc # 0
    BY <1>5 DEF SInv, JournalTrue, TaskTrue
  <2>2. CASE mem.ops[o].end # "none"
    BY <2>2
  <2>3. CASE mem.ops[o].end = "none"
    <3>1. Closed(mem, o)
      BY <1>1, <2>1, <2>3 DEF IsOpen
    <3>2. mem.bound[o].next \in Tasks
      BY <3>1, JournalIs DEF Closed, SInv, Typed
    <3> QED BY <1>1, <3>1, <3>2
  <2> QED BY <2>2, <2>3
<1> QED BY <1>3, <1>4, <1>5

(* The workspace has one worker: the agent works on one turn at a time, on a thread this agent process    *)
(* started or resumed (Begin, AgentTurn), and ResultSnapshot gives a result only when none works and      *)
(* every task sent is over or continued by one that is.                                                   *)
THEOREM WorkspaceHasOneWorker == Spec => []OneWorker
<1>1. SInv => OneWorker
  BY OneTurnHolds, ResultHolds DEF OneWorker
<1> QED BY <1>1, SessionInvariant, PTL
=============================================================================

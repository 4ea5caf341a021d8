---------------------------- MODULE VenueProofs ----------------------------
(***************************************************************************)
(* What Venue promises for any objects, nesting and number of callers.     *)
(* The argument: a reservation is held by exactly one remover, removers    *)
(* work on non-overlapping objects, and (when objects are made under the   *)
(* lock and a failed append writes nothing) an object being made is open   *)
(* and nobody is removing it.                                              *)
(***************************************************************************)
EXTENDS Venue, TLAPS

\* Append keeps the two object tables well typed.
LEMMA AppendType ==
    ASSUME TypeOK, NEW o \in Objects,
           NEW op \in Op \cup {"classify"}, NEW cls \in Class \cup {"none"},
           NEW r \in Outcomes, Append(o, op, cls, r)
    PROVE  /\ objs' \in [Objects -> Object]
           /\ durable' \in [Objects -> Object]
<1> DEFINE A(ob) == Apply(ob, op, cls)
<1>1. ASSUME NEW ob \in Object PROVE Apply(ob, op, cls) \in Object
  BY <1>1 DEF Apply, Object, Op, Class
<1>2. [objs EXCEPT ![o] = Apply(@, op, cls)] \in [Objects -> Object]
  BY <1>1 DEF TypeOK
<1>3. [durable EXCEPT ![o] = Apply(@, op, cls)] \in [Objects -> Object]
  BY <1>1 DEF TypeOK
<1> QED BY <1>2, <1>3 DEF Append, TypeOK

LEMMA IdleType == Idle \in [pc : Phase, obj : Objects, original : Object]
<1>1. (CHOOSE o \in Objects : TRUE) \in Objects
  BY VenueAssumption
<1>2. NoObject \in Object
  BY DEF NoObject, Object
<1> QED BY <1>1, <1>2 DEF Idle, Phase

LEMMA BecomeType ==
    ASSUME TypeOK, NEW c \in Callers, NEW o \in Objects, NEW pc \in Phase,
           Become(c, pc, o) \/ Return(c)
    PROVE  job' \in [Callers -> [pc : Phase, obj : Objects, original : Object]]
<1>1. NoObject \in Object
  BY DEF NoObject, Object
<1>2. CASE Become(c, pc, o)
  BY <1>1, <1>2 DEF Become, TypeOK
<1>3. CASE Return(c)
  BY <1>3, IdleType DEF Return, TypeOK
<1> QED BY <1>2, <1>3

LEMMA ReserveType ==
    ASSUME TypeOK, NEW c \in Callers, NEW o \in Objects, Reserve(c, o)
    PROVE  TypeOK'
<1>1. job' \in [Callers -> [pc : Phase, obj : Objects, original : Object]]
  BY DEF Reserve, TypeOK, Phase
<1> QED BY <1>1 DEF Reserve, TypeOK

\* Type correctness: no step takes the state outside its declared sets.
THEOREM TypeCorrect == Spec => []TypeOK
<1>1. Init => TypeOK
  <2> SUFFICES ASSUME Init PROVE TypeOK
    OBVIOUS
  <2>1. NoObject \in Object /\ [last |-> "created", class |-> "none", created |-> TRUE] \in Object
    BY DEF NoObject, Object, Op
  <2>2. objs \in [Objects -> Object] /\ durable \in [Objects -> Object]
    BY <2>1 DEF Init
  <2>3. data \in [Objects -> BOOLEAN]
    BY SMT DEF Init
  <2> QED BY <2>2, <2>3, IdleType DEF Init, TypeOK
<1>2. TypeOK /\ [Next]_vars => TypeOK'
  <2> SUFFICES ASSUME TypeOK, [Next]_vars PROVE TypeOK'
    OBVIOUS
  <2> DEFINE J == [Callers -> [pc : Phase, obj : Objects, original : Object]]
  <2>1. ASSUME NEW c \in Callers, NEW o \in Objects, Intent(c, o) PROVE TypeOK'
    <3>1. PICK r \in Outcomes : /\ Append(o, "intent", IF o \in AttemptObjs THEN "attempt" ELSE "cache", r)
                                /\ Become(c, "make", o) \/ UNCHANGED job
      BY <2>1 DEF Intent
    <3>2. objs' \in [Objects -> Object] /\ durable' \in [Objects -> Object]
      <4>1. (IF o \in AttemptObjs THEN "attempt" ELSE "cache") \in Class \cup {"none"}
        BY DEF Class
      <4> QED BY <3>1, <4>1, AppendType DEF Op
    <3>3. job' \in J
      BY <3>1, BecomeType DEF Phase, TypeOK
    <3> QED BY <2>1, <3>2, <3>3 DEF Intent, TypeOK
  <2>2. ASSUME NEW c \in Callers, Make(c) PROVE TypeOK'
    <3>1. job[c].obj \in Objects
      BY DEF TypeOK
    <3>2. job' \in J
      BY <2>2, <3>1, BecomeType DEF Make, Phase
    <3>3. data' \in [Objects -> BOOLEAN]
      BY <2>2, <3>1 DEF Make, TypeOK
    <3> QED BY <2>2, <3>2, <3>3 DEF Make, TypeOK
  <2>3. ASSUME NEW c \in Callers, Created(c) PROVE TypeOK'
    <3>1. job[c].obj \in Objects
      BY DEF TypeOK
    <3>2. job' \in J
      BY <2>3, <3>1, BecomeType DEF Created, Phase
    <3>3. objs' \in [Objects -> Object] /\ durable' \in [Objects -> Object]
      BY <2>3, <3>1, AppendType DEF Created, Op, TypeOK
    <3> QED BY <2>3, <3>2, <3>3 DEF Created, TypeOK
  <2>4. ASSUME NEW c \in Callers, Failed(c) PROVE TypeOK'
    <3>1. job[c].obj \in Objects
      BY DEF TypeOK
    <3>2. job' \in J
      BY <2>4, <3>1, BecomeType DEF Failed, Phase
    <3>3. objs' \in [Objects -> Object] /\ durable' \in [Objects -> Object]
      BY <2>4, <3>1, AppendType DEF Failed, Op, TypeOK
    <3> QED BY <2>4, <3>2, <3>3 DEF Failed, TypeOK
  <2>5. ASSUME NEW c \in Callers, Abandon(c) PROVE TypeOK'
    <3>1. job[c].obj \in Objects
      BY DEF TypeOK
    <3>2. CASE Reserve(c, job[c].obj)
      BY <3>1, <3>2, ReserveType
    <3>3. CASE ~Reserve(c, job[c].obj)
      <4>1. Return(c) /\ UNCHANGED <<up, objs, durable, reserved, data>>
        BY <2>5, <3>3 DEF Abandon
      <4>2. job' \in J
        BY <4>1, <3>1, BecomeType DEF Phase
      <4> QED BY <4>1, <4>2 DEF TypeOK
    <3> QED BY <3>2, <3>3
  <2>6. ASSUME NEW c \in Callers, RemoveAll(c) PROVE TypeOK'
    <3>1. job[c].obj \in Objects
      BY DEF TypeOK
    <3>2. job' \in J
      <4>1. CASE Return(c)
        BY <4>1, <3>1, BecomeType DEF Phase
      <4>2. CASE job' = [job EXCEPT ![c].pc = "removed"]
        BY <4>2 DEF TypeOK, Phase
      <4> QED BY <2>6, <4>1, <4>2 DEF RemoveAll
    <3>3. data' \in [Objects -> BOOLEAN]
      BY <2>6, Zenon DEF RemoveAll, TypeOK
    <3> QED BY <2>6, <3>2, <3>3 DEF RemoveAll, TypeOK
  <2>7. ASSUME NEW c \in Callers, RecordRemoval(c) PROVE TypeOK'
    <3>1. job[c].obj \in Objects
      BY DEF TypeOK
    <3>2. job' \in J
      BY <2>7, <3>1, BecomeType DEF RecordRemoval, Phase
    <3>3. objs' \in [Objects -> Object] /\ durable' \in [Objects -> Object]
      BY <2>7, <3>1, AppendType DEF RecordRemoval, Op, TypeOK
    <3> QED BY <2>7, <3>2, <3>3 DEF RecordRemoval, TypeOK
  <2>8. ASSUME NEW c \in Callers, NEW o \in Objects, EnsureCache(c, o) \/ Teardown(c, o)
        PROVE TypeOK'
    BY <2>8, ReserveType DEF EnsureCache, Teardown, TypeOK
  <2>9. ASSUME NEW o \in Objects, NEW cls \in Class, Classify(o, cls) PROVE TypeOK'
    <3>1. objs' \in [Objects -> Object] /\ durable' \in [Objects -> Object]
      BY <2>9, AppendType DEF Classify
    <3> QED BY <2>9, <3>1 DEF Classify, TypeOK
  <2>10. CASE Crash \/ Reopen
    BY <2>10, IdleType DEF Crash, Reopen, TypeOK
  <2>11. CASE UNCHANGED vars
    BY <2>11 DEF vars, TypeOK
  <2> QED BY <2>1, <2>2, <2>3, <2>4, <2>5, <2>6, <2>7, <2>8, <2>9, <2>10, <2>11
          DEF Next, CallerStep
<1> QED BY <1>1, <1>2, PTL DEF Spec

-----------------------------------------------------------------------------
\* A reservation is disjoint from every reservation held, so it extends a
\* set of disjoint removals.
LEMMA ReserveRemovals ==
    ASSUME TypeOK, RemovalInv, up, NEW c \in Callers, NEW o \in Objects,
           Reserve(c, o), ~Removing(c)
    PROVE  RemovalInv'
<1>1. /\ job'[c] = [pc |-> "removing", obj |-> o, original |-> objs[o]]
      /\ \A d \in Callers : d # c => job'[d] = job[d]
      /\ objs' = objs /\ up' = up /\ reserved' = reserved \cup {o}
  BY DEF Reserve, TypeOK
<1>2. \A d \in Callers : Removing(d) => ~Overlaps(o, job[d].obj)
  BY DEF Reserve, RemovalConflict, RemovalInv, OriginalKept
<1>3. BusyIsUp'
  BY <1>1 DEF RemovalInv, BusyIsUp
<1>4. OriginalKept'
  BY <1>1 DEF RemovalInv, OriginalKept, Removing
<1>5. RemovalsDisjoint'
  BY <1>1, <1>2 DEF RemovalInv, RemovalsDisjoint, Removing, Overlaps
<1> QED BY <1>3, <1>4, <1>5 DEF RemovalInv

\* A step that leaves reservations alone, changes no reserved object and
\* moves one caller that is not removing keeps the removals as they were.
LEMMA QuietRemovals ==
    ASSUME TypeOK, RemovalInv, up' = up, up, reserved' = reserved,
           NEW c \in Callers, ~Removing(c), ~Removing(c)',
           \A d \in Callers : d # c => job'[d] = job[d],
           \A p \in reserved : objs'[p] = objs[p]
    PROVE  RemovalInv'
<1>1. \A d \in Callers : Removing(d)' => /\ d # c
                                        /\ Removing(d)
                                        /\ job'[d] = job[d]
  BY DEF Removing
<1>2. BusyIsUp'
  BY DEF RemovalInv, BusyIsUp
<1>3. OriginalKept'
  BY <1>1 DEF RemovalInv, OriginalKept
<1>4. RemovalsDisjoint'
  BY <1>1 DEF RemovalInv, RemovalsDisjoint, Overlaps
<1> QED BY <1>2, <1>3, <1>4 DEF RemovalInv

\* A remover that lets go of its reservation leaves the other removals as
\* they were.
LEMMA ReleaseRemovals ==
    ASSUME TypeOK, RemovalInv, up' = up, NEW c \in Callers, Removing(c), ~Removing(c)',
           reserved' = reserved \ {job[c].obj},
           \A d \in Callers : d # c => job'[d] = job[d],
           \A p \in Objects : p # job[c].obj => objs'[p] = objs[p]
    PROVE  RemovalInv'
<1>1. \A d \in Callers : Removing(d)' => /\ d # c
                                        /\ Removing(d)
                                        /\ job'[d] = job[d]
                                        /\ job[d].obj # job[c].obj
                                        /\ job[d].obj \in Objects
  BY DEF Removing, RemovalInv, RemovalsDisjoint, Overlaps, TypeOK
<1>2. BusyIsUp'
  <2>1. up
    BY DEF RemovalInv, BusyIsUp, Removing
  <2> QED BY <2>1 DEF BusyIsUp
<1>3. OriginalKept'
  BY <1>1 DEF RemovalInv, OriginalKept
<1>4. RemovalsDisjoint'
  BY <1>1 DEF RemovalInv, RemovalsDisjoint, Overlaps
<1> QED BY <1>2, <1>3, <1>4 DEF RemovalInv

\* What Become and Return do to the callers.
LEMMA JobStep ==
    ASSUME TypeOK, NEW c \in Callers, NEW o \in Objects,
           NEW pc \in Phase, Become(c, pc, o) \/ Return(c)
    PROVE  /\ \A d \in Callers : d # c => job'[d] = job[d]
           /\ job'[c].pc \in {pc, "idle"}
           /\ job'[c].pc = "idle" \/ job'[c].obj = o
BY DEF Become, Return, Idle, TypeOK

LEMMA AppendElsewhere ==
    ASSUME TypeOK, NEW o, NEW op, NEW cls, NEW r, Append(o, op, cls, r)
    PROVE  \A p \in Objects : p # o => objs'[p] = objs[p] /\ durable'[p] = durable[p]
BY DEF Append, TypeOK

LEMMA RemovalStep == TypeOK /\ RemovalInv /\ [Next]_vars => RemovalInv'
<1> SUFFICES ASSUME TypeOK, RemovalInv, [Next]_vars PROVE RemovalInv'
  OBVIOUS
<1> USE DEF Removing
<1>0. \A c \in Callers : job[c].obj \in Objects /\ (job[c].pc # "idle" => up)
  BY DEF TypeOK, RemovalInv, BusyIsUp
<1>1. ASSUME NEW c \in Callers, NEW o \in Objects, Intent(c, o) PROVE RemovalInv'
  <2>1. o \notin reserved
    BY <1>1 DEF Intent, RemovalConflict, Overlaps
  <2>2. \A p \in reserved : objs'[p] = objs[p]
    BY <1>1, <2>1, AppendElsewhere DEF Intent, TypeOK
  <2>3. (\A d \in Callers : d # c => job'[d] = job[d]) /\ job'[c].pc \in {"make", "idle"}
    BY <1>1, JobStep DEF Intent, Phase
  <2> QED BY <1>1, <2>2, <2>3, QuietRemovals DEF Intent
<1>2. ASSUME NEW c \in Callers, Make(c) PROVE RemovalInv'
  <2>1. (\A d \in Callers : d # c => job'[d] = job[d]) /\ job'[c].pc \in {"made", "broken", "idle"}
    BY <1>0, <1>2, JobStep DEF Make, Phase
  <2> QED BY <1>0, <1>2, <2>1, QuietRemovals DEF Make
<1>3. ASSUME NEW c \in Callers, Created(c) \/ Failed(c) PROVE RemovalInv'
  <2>1. (\A d \in Callers : d # c => job'[d] = job[d]) /\ job'[c].pc \in {"broken", "abandon", "idle"}
    BY <1>0, <1>3, JobStep DEF Created, Failed, Phase
  <2>2. \A p \in reserved : objs'[p] = objs[p]
    BY <1>0, <1>3, AppendElsewhere DEF Created, Failed, MayMark, TypeOK
  <2> QED BY <1>0, <1>3, <2>1, <2>2, QuietRemovals DEF Created, Failed
<1>4. ASSUME NEW c \in Callers, Abandon(c) PROVE RemovalInv'
  <2>1. CASE Reserve(c, job[c].obj)
    BY <1>0, <1>4, <2>1, ReserveRemovals DEF Abandon
  <2>2. CASE Return(c) /\ UNCHANGED <<up, objs, durable, reserved, data>>
    <3>1. (\A d \in Callers : d # c => job'[d] = job[d]) /\ job'[c].pc = "idle"
      BY <2>2 DEF Return, Idle, TypeOK
    <3> QED BY <1>0, <1>4, <2>2, <3>1, QuietRemovals DEF Abandon
  <2> QED BY <1>4, <2>1, <2>2 DEF Abandon
<1>5. ASSUME NEW c \in Callers, RemoveAll(c) PROVE RemovalInv'
  <2>1. CASE job' = [job EXCEPT ![c].pc = "removed"] /\ UNCHANGED reserved
    <3>1. /\ \A d \in Callers : Removing(d)' <=> Removing(d)
          /\ \A d \in Callers : job'[d].obj = job[d].obj /\ job'[d].original = job[d].original
          /\ objs' = objs /\ up' = up
      BY <1>5, <2>1 DEF RemoveAll, TypeOK
    <3>2. BusyIsUp'
      BY <1>0, <1>5, <3>1 DEF RemovalInv, BusyIsUp, RemoveAll
    <3>3. OriginalKept' /\ RemovalsDisjoint'
      BY <2>1, <3>1 DEF RemovalInv, OriginalKept, RemovalsDisjoint, Overlaps
    <3> QED BY <3>2, <3>3 DEF RemovalInv
  <2>2. CASE Return(c) /\ reserved' = reserved \ {job[c].obj}
    <3>1. (\A d \in Callers : d # c => job'[d] = job[d]) /\ job'[c].pc = "idle"
      BY <2>2 DEF Return, Idle, TypeOK
    <3> QED BY <1>5, <2>2, <3>1, ReleaseRemovals DEF RemoveAll
  <2> QED BY <1>5, <2>1, <2>2 DEF RemoveAll
<1>6. ASSUME NEW c \in Callers, RecordRemoval(c) PROVE RemovalInv'
  <2>1. (\A d \in Callers : d # c => job'[d] = job[d]) /\ job'[c].pc = "idle"
    BY <1>6 DEF RecordRemoval, Return, Idle, TypeOK
  <2>2. \A p \in Objects : p # job[c].obj => objs'[p] = objs[p]
    BY <1>0, <1>6, AppendElsewhere DEF RecordRemoval
  <2> QED BY <1>6, <2>1, <2>2, ReleaseRemovals DEF RecordRemoval
<1>7. ASSUME NEW c \in Callers, NEW o \in Objects, Teardown(c, o) PROVE RemovalInv'
  BY <1>7, ReserveRemovals DEF Teardown
<1>8. ASSUME NEW c \in Callers, NEW o \in Objects, EnsureCache(c, o) PROVE RemovalInv'
  BY <1>8, QuietRemovals DEF EnsureCache
<1>9. ASSUME NEW o \in Objects, NEW cls \in Class, Classify(o, cls) PROVE RemovalInv'
  <2>1. \A p \in reserved : objs'[p] = objs[p]
    BY <1>9, AppendElsewhere DEF Classify, TypeOK
  <2>2. UNCHANGED <<up, reserved, job>>
    BY <1>9 DEF Classify
  <2> QED BY <2>1, <2>2 DEF RemovalInv, BusyIsUp, OriginalKept, RemovalsDisjoint, Overlaps
<1>10. CASE Crash
  <2>1. \A d \in Callers : job'[d].pc = "idle"
    BY <1>10 DEF Crash, Idle
  <2> QED BY <2>1 DEF RemovalInv, BusyIsUp, OriginalKept, RemovalsDisjoint
<1>11. CASE Reopen
  <2>1. \A d \in Callers : job'[d].pc = "idle"
    BY <1>0, <1>11 DEF Reopen
  <2> QED BY <2>1 DEF RemovalInv, BusyIsUp, OriginalKept, RemovalsDisjoint
<1>12. CASE UNCHANGED vars
  BY <1>12 DEF vars, RemovalInv, BusyIsUp, OriginalKept, RemovalsDisjoint, Overlaps
<1> QED BY <1>1, <1>2, <1>3, <1>4, <1>5, <1>6, <1>7, <1>8, <1>9, <1>10, <1>11, <1>12
        DEF Next, CallerStep

LEMMA RemovalInit == Init => RemovalInv
BY DEF Init, RemovalInv, BusyIsUp, OriginalKept, RemovalsDisjoint, Removing, Idle

\* Two removals never run over overlapping paths, whatever appends fail and
\* however long os.RemoveAll takes outside v.mu.
THEOREM RemovalsAreDisjoint == Spec => []RemovalsDisjoint
<1>1. RemovalInv => RemovalsDisjoint
  BY DEF RemovalInv
<1> QED BY <1>1, RemovalInit, RemovalStep, TypeCorrect, PTL DEF Spec

\* The object under removal is still the one that was judged when
\* teardownNoteWith takes the lock again.
THEOREM OriginalIsKept == Spec => []OriginalKept
<1>1. RemovalInv => OriginalKept
  BY DEF RemovalInv
<1> QED BY <1>1, RemovalInit, RemovalStep, TypeCorrect, PTL DEF Spec

-----------------------------------------------------------------------------
(***************************************************************************)
(* The ledger accounts for the data, when objects are made under the lock  *)
(* and a failed append leaves no line behind.                              *)
(***************************************************************************)
Reliable == AppendFaults = {} /\ LockMade = Objects

\* With no late append, memory and file take the same line or neither does.
LEMMA AppendTogether ==
    ASSUME Reliable, TypeOK, NEW o \in Objects, NEW op, NEW cls, NEW r \in Outcomes,
           Append(o, op, cls, r), objs = durable
    PROVE  /\ objs' = durable'
           /\ \A p \in Objects : p # o => objs'[p] = objs[p]
           /\ objs'[o] \in {objs[o], Apply(objs[o], op, cls)}
           /\ r = "ok" => objs'[o] = Apply(objs[o], op, cls)
BY DEF Append, Outcomes, Reliable, TypeOK

LEMMA ApplyOpens ==
    ASSUME NEW ob \in Object, NEW cls
    PROVE  /\ Open(Apply(ob, "intent", cls))
           /\ Open(Apply(ob, "created", cls))
           /\ Open(Apply(ob, "failed", cls))
           /\ Open(Apply(ob, "classify", cls)) <=> Open(ob)
BY DEF Apply, Open, Object

\* Reserving an object nobody else is making.
LEMMA ReserveLedger ==
    ASSUME TypeOK, RemovalInv, LedgerInv, up, NEW c \in Callers, NEW o \in Objects,
           Reserve(c, o),
           \A d \in Callers : (d # c /\ Making(d)) => job[d].obj # o
    PROVE  LedgerInv'
<1>1. /\ job'[c].pc = "removing"
      /\ \A d \in Callers : d # c => job'[d] = job[d]
      /\ UNCHANGED <<up, objs, durable, data>> /\ reserved' = reserved \cup {o}
  BY DEF Reserve, TypeOK
<1>2. MemoryIsLedger' /\ DataIsLedgered'
  BY <1>1 DEF LedgerInv, MemoryIsLedger, DataIsLedgered
<1>3. MakersOpen' /\ MakersDistinct' /\ RemovedGone'
  BY <1>1 DEF LedgerInv, MakersOpen, MakersDistinct, RemovedGone, Making
<1> QED BY <1>2, <1>3 DEF LedgerInv

LEMMA LedgerStep ==
    ASSUME Reliable
    PROVE  TypeOK /\ RemovalInv /\ LedgerInv /\ [Next]_vars => LedgerInv'
<1> SUFFICES ASSUME TypeOK, RemovalInv, LedgerInv, [Next]_vars PROVE LedgerInv'
  OBVIOUS
<1>0. \A c \in Callers : job[c].obj \in Objects /\ (job[c].pc # "idle" => up)
  BY DEF TypeOK, RemovalInv, BusyIsUp
<1>a. up => objs = durable
  BY DEF LedgerInv, MemoryIsLedger
<1>b. \A o \in Objects : objs[o] \in Object /\ data[o] \in BOOLEAN
  BY DEF TypeOK
<1>1. ASSUME NEW c \in Callers, NEW o \in Objects, Intent(c, o) PROVE LedgerInv'
  <2> DEFINE cls == IF o \in AttemptObjs THEN "attempt" ELSE "cache"
  <2>1. PICK r \in Outcomes : /\ Append(o, "intent", cls, r)
                              /\ IF r = "ok" THEN Become(c, "make", o) ELSE UNCHANGED job
    BY <1>1 DEF Intent
  <2>2. up /\ objs = durable /\ up' = up /\ data' = data /\ reserved' = reserved
        /\ o \notin reserved /\ ~Open(objs[o])
    BY <1>1, <1>a DEF Intent, RemovalConflict, Overlaps
  <2>3. objs' = durable' /\ (\A p \in Objects : p # o => objs'[p] = objs[p])
        /\ (r = "ok" => Open(objs'[o]))
    BY <2>1, <2>2, <1>b, AppendTogether, ApplyOpens
  <2>4. MemoryIsLedger' /\ DataIsLedgered'
    BY <2>2, <2>3 DEF LedgerInv, MemoryIsLedger, DataIsLedgered
  <2>5. (\A d \in Callers : d # c => job'[d] = job[d]) /\ job'[c].pc \in {"make", "idle"}
        /\ (job'[c].pc = "make" => job'[c].obj = o /\ r = "ok")
    BY <1>1, <2>1 DEF Intent, Become, TypeOK
  <2>6. \A d \in Callers : Making(d) => job[d].obj # o
    BY <1>1 DEF Intent, BeingMade
  <2>7. MakersOpen' /\ MakersDistinct'
    BY <2>2, <2>3, <2>5, <2>6, <1>0 DEF LedgerInv, MakersOpen, MakersDistinct, Making
  <2>8. RemovedGone'
    BY <2>2, <2>5 DEF LedgerInv, RemovedGone
  <2> QED BY <2>4, <2>7, <2>8 DEF LedgerInv
<1>2. ASSUME NEW c \in Callers, Make(c) PROVE LedgerInv'
  <2> DEFINE o == job[c].obj
  <2>1. (\A d \in Callers : d # c => job'[d] = job[d])
        /\ job'[c].pc \in {"made", "broken", "idle"}
        /\ (job'[c].pc # "idle" => job'[c].obj = o)
    BY <1>0, <1>2 DEF Make, Become, Return, Idle, TypeOK
  <2>2. UNCHANGED <<up, objs, durable, reserved>>
    BY <1>2 DEF Make
  <2>3. \A p \in Objects : p # o => data'[p] = data[p]
    BY <1>0, <1>2 DEF Make, TypeOK
  <2>4. up /\ Open(objs[o]) /\ o \notin reserved
    BY <1>0, <1>2 DEF Make, LedgerInv, MakersOpen, Making
  <2>5. MemoryIsLedger' /\ DataIsLedgered'
    BY <1>0, <1>a, <2>2, <2>3, <2>4 DEF LedgerInv, MemoryIsLedger, DataIsLedgered
  <2>6. MakersOpen' /\ MakersDistinct'
    BY <1>2, <2>1, <2>2 DEF Make, LedgerInv, MakersOpen, MakersDistinct, Making
  <2>7. RemovedGone'
    BY <1>0, <2>1, <2>3, <2>4 DEF LedgerInv, RemovedGone, RemovalInv, OriginalKept, Removing
  <2> QED BY <2>5, <2>6, <2>7 DEF LedgerInv
<1>3. ASSUME NEW c \in Callers, Created(c) \/ Failed(c) PROVE LedgerInv'
  <2> DEFINE o == job[c].obj
  <2>1. (\A d \in Callers : d # c => job'[d] = job[d])
        /\ job'[c].pc \in {"broken", "abandon", "idle"}
        /\ (job'[c].pc # "idle" => job'[c].obj = o)
    BY <1>0, <1>3 DEF Created, Failed, Become, Return, Idle, TypeOK
  <2>2. UNCHANGED <<up, reserved, data>> /\ Making(c) /\ up /\ objs = durable
    BY <1>0, <1>a, <1>3 DEF Created, Failed, Making
  <2>3. objs' = durable' /\ (\A p \in Objects : Open(objs[p]) => Open(objs'[p]))
    <3>1. CASE \E r \in Outcomes : Append(o, "created", "none", r)
      BY <1>0, <1>b, <2>2, <3>1, AppendTogether, ApplyOpens
    <3>2. CASE \E r \in Outcomes : Append(o, "failed", "none", r)
      BY <1>0, <1>b, <2>2, <3>2, AppendTogether, ApplyOpens
    <3>3. CASE UNCHANGED <<objs, durable>>
      BY <2>2, <3>3
    <3> QED BY <1>3, <3>1, <3>2, <3>3 DEF Created, Failed
  <2>4. MemoryIsLedger' /\ DataIsLedgered'
    BY <2>2, <2>3 DEF LedgerInv, MemoryIsLedger, DataIsLedgered
  <2>5. MakersOpen' /\ MakersDistinct' /\ RemovedGone'
    BY <1>0, <2>1, <2>2, <2>3 DEF LedgerInv, MakersOpen, MakersDistinct, RemovedGone, Making
  <2> QED BY <2>4, <2>5 DEF LedgerInv
<1>4. ASSUME NEW c \in Callers, Abandon(c) PROVE LedgerInv'
  <2>1. CASE Reserve(c, job[c].obj)
    BY <1>0, <1>4, <2>1, ReserveLedger DEF Abandon, LedgerInv, MakersDistinct, Making
  <2>2. CASE Return(c) /\ UNCHANGED <<up, objs, durable, reserved, data>>
    <3>1. (\A d \in Callers : d # c => job'[d] = job[d]) /\ job'[c].pc = "idle"
      BY <2>2 DEF Return, Idle, TypeOK
    <3> QED BY <2>2, <3>1 DEF LedgerInv, MemoryIsLedger, DataIsLedgered, MakersOpen,
                              MakersDistinct, RemovedGone, Making
  <2> QED BY <1>4, <2>1, <2>2 DEF Abandon
<1>5. ASSUME NEW c \in Callers, RemoveAll(c) PROVE LedgerInv'
  <2>1. UNCHANGED <<up, objs, durable>> /\ reserved' \subseteq reserved
        /\ (\A p \in Objects : data'[p] => data[p])
    BY <1>5 DEF RemoveAll
  <2>2. (\A d \in Callers : d # c => job'[d] = job[d]) /\ job'[c].pc \in {"removed", "idle"}
        /\ (job'[c].pc = "removed" => job'[c].obj = job[c].obj /\ ~data'[job[c].obj])
    <3>1. CASE job' = [job EXCEPT ![c].pc = "removed"]
      <4>1. CASE data' = [p \in Objects |-> data[p] /\ p # job[c].obj /\ <<job[c].obj, p>> \notin Nested]
        BY <1>0, <3>1, <4>1 DEF TypeOK
      <4>2. CASE Return(c)
        BY <4>2 DEF Return, Idle, TypeOK
      <4> QED BY <1>5, <4>1, <4>2 DEF RemoveAll
    <3>2. CASE Return(c)
      BY <3>2 DEF Return, Idle, TypeOK
    <3> QED BY <1>5, <3>1, <3>2 DEF RemoveAll
  <2>3. MemoryIsLedger' /\ DataIsLedgered'
    BY <2>1 DEF LedgerInv, MemoryIsLedger, DataIsLedgered
  <2>4. MakersOpen' /\ MakersDistinct'
    BY <2>1, <2>2 DEF LedgerInv, MakersOpen, MakersDistinct, Making
  <2>5. RemovedGone'
    BY <1>0, <2>1, <2>2 DEF LedgerInv, RemovedGone
  <2> QED BY <2>3, <2>4, <2>5 DEF LedgerInv
<1>6. ASSUME NEW c \in Callers, RecordRemoval(c) PROVE LedgerInv'
  <2> DEFINE o == job[c].obj
  <2>1. UNCHANGED <<up, data>> /\ up /\ objs = durable /\ reserved' = reserved \ {o}
        /\ o \in reserved /\ ~data[o]
    BY <1>0, <1>a, <1>6 DEF RecordRemoval, LedgerInv, RemovedGone, RemovalInv, OriginalKept, Removing
  <2>2. (\A d \in Callers : d # c => job'[d] = job[d]) /\ job'[c].pc = "idle"
    BY <1>6 DEF RecordRemoval, Return, Idle, TypeOK
  <2>3. objs' = durable' /\ (\A p \in Objects : p # o => objs'[p] = objs[p])
    <3>1. CASE \E r \in Outcomes : Append(o, "removed", "none", r)
      BY <1>0, <2>1, <3>1, AppendTogether
    <3>2. CASE UNCHANGED <<objs, durable>>
      BY <2>1, <3>2
    <3> QED BY <1>6, <3>1, <3>2 DEF RecordRemoval
  <2>4. MemoryIsLedger' /\ DataIsLedgered'
    BY <2>1, <2>3 DEF LedgerInv, MemoryIsLedger, DataIsLedgered
  <2>5. MakersOpen' /\ MakersDistinct' /\ RemovedGone'
    BY <1>0, <2>1, <2>2, <2>3 DEF LedgerInv, MakersOpen, MakersDistinct, RemovedGone, Making
  <2> QED BY <2>4, <2>5 DEF LedgerInv
<1>7. ASSUME NEW c \in Callers, NEW o \in Objects, Teardown(c, o) PROVE LedgerInv'
  BY <1>7, ReserveLedger DEF Teardown, Reliable, BeingMade
<1>8. ASSUME NEW c \in Callers, NEW o \in Objects, EnsureCache(c, o) PROVE LedgerInv'
  <2>1. UNCHANGED <<up, objs, durable, reserved, job>> /\ up /\ o \notin reserved /\ Open(durable[o])
        /\ (\A p \in Objects : p # o => data'[p] = data[p])
    BY <1>8, <1>a DEF EnsureCache, RemovalConflict, Overlaps, TypeOK
  <2>2. RemovedGone'
    BY <1>0, <2>1 DEF LedgerInv, RemovedGone, RemovalInv, OriginalKept, Removing
  <2> QED BY <2>1, <2>2 DEF LedgerInv, MemoryIsLedger, DataIsLedgered, MakersOpen,
                            MakersDistinct, Making
<1>9. ASSUME NEW o \in Objects, NEW cls \in Class, Classify(o, cls) PROVE LedgerInv'
  <2>1. UNCHANGED <<up, reserved, data, job>> /\ up /\ objs = durable
    BY <1>9, <1>a DEF Classify
  <2>2. objs' = durable' /\ (\A p \in Objects : Open(objs[p]) => Open(objs'[p]))
    BY <1>9, <1>b, <2>1, AppendTogether, ApplyOpens DEF Classify
  <2> QED BY <1>0, <2>1, <2>2 DEF LedgerInv, MemoryIsLedger, DataIsLedgered, MakersOpen,
                            MakersDistinct, RemovedGone, Making
<1>10. CASE Crash \/ Reopen
  <2>1. \A d \in Callers : job'[d].pc = "idle"
    BY <1>0, <1>10 DEF Crash, Reopen, Idle
  <2>2. UNCHANGED <<durable, data>> /\ (up' => objs' = durable')
    BY <1>10 DEF Crash, Reopen
  <2> QED BY <2>1, <2>2 DEF LedgerInv, MemoryIsLedger, DataIsLedgered, MakersOpen,
                            MakersDistinct, RemovedGone, Making
<1>11. CASE UNCHANGED vars
  BY <1>11 DEF vars, LedgerInv, MemoryIsLedger, DataIsLedgered, MakersOpen,
               MakersDistinct, RemovedGone, Making
<1> QED BY <1>1, <1>2, <1>3, <1>4, <1>5, <1>6, <1>7, <1>8, <1>9, <1>10, <1>11
        DEF Next, CallerStep

LEMMA LedgerInit == Init => LedgerInv
<1> SUFFICES ASSUME Init PROVE LedgerInv
  OBVIOUS
<1>1. DataIsLedgered
  BY DEF Init, DataIsLedgered, Open
<1> QED BY <1>1 DEF Init, LedgerInv, MemoryIsLedger, MakersOpen, MakersDistinct,
                    RemovedGone, Making, Idle

\* venue.go's first rule: no path exists that a replay of the ledger, after a
\* crash at any point, would not account for.
THEOREM LedgerAccountsForData == ASSUME Reliable PROVE Spec => []DataIsLedgered
<1>1. LedgerInv => DataIsLedgered
  BY DEF LedgerInv
<1> QED BY <1>1, LedgerInit, LedgerStep, RemovalInit, RemovalStep, TypeCorrect, PTL DEF Spec

\* The running process and the file never disagree.
THEOREM LedgerIsMemory == ASSUME Reliable PROVE Spec => []MemoryIsLedger
<1>1. LedgerInv => MemoryIsLedger
  BY DEF LedgerInv
<1> QED BY <1>1, LedgerInit, LedgerStep, RemovalInit, RemovalStep, TypeCorrect, PTL DEF Spec

-----------------------------------------------------------------------------
(***************************************************************************)
(* A removal deletes its own object only.                                  *)
(***************************************************************************)

\* What is being removed holds nothing open: Teardown looked, and nothing can
\* be opened inside a reserved path.  The failure path does not look, but no
\* cache directory goes down it.
HoldsNothingOpen ==
    \A c \in Callers : job[c].pc = "removing" =>
        \A p \in Objects : <<job[c].obj, p>> \in Nested => ~Open(objs[p])

BrokenHoldsNothing ==
    \A c \in Callers : job[c].pc \in {"broken", "abandon"} => job[c].obj \notin CacheDirs

HoldInv == HoldsNothingOpen /\ BrokenHoldsNothing

\* A step that begins no removal, breaks no cache directory and opens nothing
\* inside a reserved path.
LEMMA QuietHolds ==
    ASSUME RemovalInv, HoldInv,
           \A d \in Callers : job'[d].pc = "removing" => job'[d] = job[d],
           \A d \in Callers : job'[d].pc \in {"broken", "abandon"} => job'[d].obj \notin CacheDirs,
           \A p \in Objects, r \in reserved :
               <<r, p>> \in Nested => (Open(objs'[p]) => Open(objs[p]))
    PROVE  HoldInv'
<1>1. HoldsNothingOpen'
  <2> SUFFICES ASSUME NEW d \in Callers, job'[d].pc = "removing", NEW p \in Objects,
                      <<job'[d].obj, p>> \in Nested, Open(objs'[p])
               PROVE  FALSE
    BY DEF HoldsNothingOpen
  <2>1. job[d] = job'[d] /\ job[d].obj \in reserved
    BY DEF RemovalInv, OriginalKept, Removing
  <2> QED BY <2>1 DEF HoldInv, HoldsNothingOpen
<1>2. BrokenHoldsNothing'
  BY DEF BrokenHoldsNothing
<1> QED BY <1>1, <1>2 DEF HoldInv

\* A line that is no intent opens nothing that was not open.
LEMMA AppendOpensNothing ==
    ASSUME TypeOK, NEW o \in Objects, NEW op, NEW cls, NEW r, Append(o, op, cls, r),
           Open(objs[o]) \/ op = "removed"
    PROVE  \A p \in Objects : Open(objs'[p]) => Open(objs[p])
<1>1. \A p \in Objects : p # o => objs'[p] = objs[p]
  BY AppendElsewhere
<1>2. op = "removed" => objs'[o] \in {objs[o], [objs[o] EXCEPT !.last = "removed"]}
  BY DEF Append, Apply, TypeOK
<1>3. op = "removed" => (Open(objs'[o]) => Open(objs[o]))
  BY <1>2 DEF Open, TypeOK, Object
<1> QED BY <1>1, <1>3

LEMMA ReserveHolds ==
    ASSUME TypeOK, RemovalInv, HoldInv, NEW c \in Callers, NEW o \in Objects, Reserve(c, o),
           \A p \in Objects : <<o, p>> \in Nested => ~Open(objs[p])
    PROVE  HoldInv'
<1>1. /\ job'[c].pc = "removing" /\ job'[c].obj = o
      /\ \A d \in Callers : d # c => job'[d] = job[d]
      /\ objs' = objs
  BY DEF Reserve, TypeOK
<1> QED BY <1>1 DEF HoldInv, HoldsNothingOpen, BrokenHoldsNothing

LEMMA HoldStep == TypeOK /\ RemovalInv /\ HoldInv /\ [Next]_vars => HoldInv'
<1> SUFFICES ASSUME TypeOK, RemovalInv, HoldInv, [Next]_vars PROVE HoldInv'
  OBVIOUS
<1>0. \A c \in Callers : job[c].obj \in Objects /\ (job[c].pc # "idle" => up)
  BY DEF TypeOK, RemovalInv, BusyIsUp
<1>b. \A d \in Callers : job[d].pc \in {"broken", "abandon"} => job[d].obj \notin CacheDirs
  BY DEF HoldInv, BrokenHoldsNothing
<1>1. ASSUME NEW c \in Callers, NEW o \in Objects, Intent(c, o) PROVE HoldInv'
  <2>1. \A r \in reserved : <<r, o>> \notin Nested
    BY <1>1 DEF Intent, RemovalConflict, Overlaps
  <2>2. \A p \in Objects : p # o => objs'[p] = objs[p]
    BY <1>1, AppendElsewhere DEF Intent
  <2>3. (\A d \in Callers : d # c => job'[d] = job[d]) /\ job'[c].pc \in {"make", "idle"}
    BY <1>1, JobStep DEF Intent, Phase
  <2> QED BY <1>b, <2>1, <2>2, <2>3, QuietHolds
<1>2. ASSUME NEW c \in Callers, Make(c) PROVE HoldInv'
  <2>1. /\ \A d \in Callers : d # c => job'[d] = job[d]
        /\ job'[c].pc \in {"made", "broken", "idle"}
        /\ job'[c].pc = "broken" => job'[c].obj = job[c].obj /\ job[c].obj \notin CacheDirs
    BY <1>0, <1>2 DEF Make, Become, Return, Idle, TypeOK
  <2> QED BY <1>2, <1>b, <2>1, QuietHolds DEF Make
<1>3. ASSUME NEW c \in Callers, Created(c) PROVE HoldInv'
  <2>1. /\ \A d \in Callers : d # c => job'[d] = job[d]
        /\ job'[c].pc \in {"broken", "idle"}
        /\ job'[c].pc = "broken" => job'[c].obj = job[c].obj /\ job[c].obj \notin CacheDirs
    BY <1>0, <1>3 DEF Created, Become, Return, Idle, TypeOK
  <2>2. \A p \in Objects : Open(objs'[p]) => Open(objs[p])
    BY <1>0, <1>3, AppendOpensNothing DEF Created, MayMark
  <2> QED BY <1>b, <2>1, <2>2, QuietHolds
<1>4. ASSUME NEW c \in Callers, Failed(c) PROVE HoldInv'
  <2>1. /\ \A d \in Callers : d # c => job'[d] = job[d]
        /\ job'[c].pc \in {"abandon", "idle"}
        /\ job'[c].pc = "abandon" => job'[c].obj = job[c].obj
    BY <1>0, <1>4 DEF Failed, Become, Return, Idle, TypeOK
  <2>2. \A p \in Objects : Open(objs'[p]) => Open(objs[p])
    BY <1>0, <1>4, AppendOpensNothing DEF Failed, MayMark
  <2>3. job[c].obj \notin CacheDirs
    BY <1>4, <1>b DEF Failed
  <2> QED BY <1>b, <2>1, <2>2, <2>3, QuietHolds
<1>5. ASSUME NEW c \in Callers, Abandon(c) PROVE HoldInv'
  <2>1. CASE Reserve(c, job[c].obj)
    <3>1. job[c].obj \notin CacheDirs
      BY <1>5, <1>b DEF Abandon
    <3> QED BY <1>0, <2>1, <3>1, ReserveHolds, VenueAssumption
  <2>2. CASE Return(c) /\ UNCHANGED <<up, objs, durable, reserved, data>>
    <3>1. (\A d \in Callers : d # c => job'[d] = job[d]) /\ job'[c].pc = "idle"
      BY <2>2 DEF Return, Idle, TypeOK
    <3> QED BY <1>b, <2>2, <3>1, QuietHolds
  <2> QED BY <1>5, <2>1, <2>2 DEF Abandon
<1>6. ASSUME NEW c \in Callers, RemoveAll(c) PROVE HoldInv'
  <2>1. (\A d \in Callers : d # c => job'[d] = job[d]) /\ job'[c].pc \in {"removed", "idle"}
    BY <1>6 DEF RemoveAll, Return, Idle, TypeOK
  <2> QED BY <1>6, <1>b, <2>1, QuietHolds DEF RemoveAll
<1>7. ASSUME NEW c \in Callers, RecordRemoval(c) PROVE HoldInv'
  <2>1. (\A d \in Callers : d # c => job'[d] = job[d]) /\ job'[c].pc = "idle"
    BY <1>7 DEF RecordRemoval, Return, Idle, TypeOK
  <2>2. \A p \in Objects : Open(objs'[p]) => Open(objs[p])
    BY <1>0, <1>7, AppendOpensNothing DEF RecordRemoval
  <2> QED BY <1>b, <2>1, <2>2, QuietHolds
<1>8. ASSUME NEW c \in Callers, NEW o \in Objects, Teardown(c, o) PROVE HoldInv'
  BY <1>8, ReserveHolds DEF Teardown, Contains
<1>9. ASSUME NEW c \in Callers, NEW o \in Objects, EnsureCache(c, o) PROVE HoldInv'
  BY <1>9, <1>b, QuietHolds DEF EnsureCache
<1>10. ASSUME NEW o \in Objects, NEW cls \in Class, Classify(o, cls) PROVE HoldInv'
  <2>1. \A p \in Objects : Open(objs'[p]) => Open(objs[p])
    BY <1>10, AppendOpensNothing DEF Classify
  <2> QED BY <1>10, <1>b, <2>1, QuietHolds DEF Classify
<1>11. CASE Crash \/ Reopen
  <2>1. \A d \in Callers : job'[d].pc = "idle"
    BY <1>0, <1>11 DEF Crash, Reopen, Idle
  <2> QED BY <2>1 DEF HoldInv, HoldsNothingOpen, BrokenHoldsNothing
<1>12. CASE UNCHANGED vars
  BY <1>12 DEF vars, HoldInv, HoldsNothingOpen, BrokenHoldsNothing
<1> QED BY <1>1, <1>2, <1>3, <1>4, <1>5, <1>6, <1>7, <1>8, <1>9, <1>10, <1>11, <1>12
        DEF Next, CallerStep

LEMMA HoldInit == Init => HoldInv
BY DEF Init, HoldInv, HoldsNothingOpen, BrokenHoldsNothing, Idle

\* Data goes from a path only while the path itself is being removed.
DeletesOwn == \A p \in Objects : (data[p] /\ ~data'[p]) =>
    \E c \in Callers : job[c].pc = "removing" /\ job[c].obj = p

LEMMA DeletesStep ==
    TypeOK /\ RemovalInv /\ LedgerInv /\ HoldInv /\ [Next]_vars => [DeletesOwn]_vars
<1> SUFFICES ASSUME TypeOK, RemovalInv, LedgerInv, HoldInv, Next,
                    NEW p \in Objects, data[p], ~data'[p]
             PROVE  \E c \in Callers : job[c].pc = "removing" /\ job[c].obj = p
  BY DEF DeletesOwn
<1>1. PICK c \in Callers : RemoveAll(c)
  <2>1. ASSUME NEW c \in Callers, Make(c) PROVE FALSE
    BY <2>1 DEF Make, TypeOK
  <2>2. ASSUME NEW c \in Callers, NEW o \in Objects, EnsureCache(c, o) PROVE FALSE
    BY <2>2 DEF EnsureCache, TypeOK
  <2>3. ASSUME data' = data PROVE FALSE
    BY <2>3
  <2> QED BY <2>1, <2>2, <2>3 DEF Next, CallerStep, Created, Failed, Abandon, Reserve,
             RecordRemoval, Intent, Teardown, Classify, Crash, Reopen
<1>2. /\ job[c].pc = "removing"
      /\ p = job[c].obj \/ <<job[c].obj, p>> \in Nested
  BY <1>1 DEF RemoveAll
<1>3. up /\ Open(durable[p]) /\ objs = durable
  BY <1>2 DEF RemovalInv, BusyIsUp, LedgerInv, DataIsLedgered, MemoryIsLedger
<1> QED BY <1>2, <1>3 DEF HoldInv, HoldsNothingOpen

\* A removal deletes its own object only: evicting a cache directory never
\* takes data inside it along, whatever is made, fails or is torn down between
\* the eviction's look and os.RemoveAll (Manager.cachesLocked, cache.Contains,
\* teardownNoteWith).
THEOREM OnlyTheRemovedIsDeleted == ASSUME Reliable PROVE Spec => OnlyOwnRemovalDeletes
<1>1. Spec => [][DeletesOwn]_vars
  BY LedgerInit, LedgerStep, RemovalInit, RemovalStep, HoldInit, HoldStep, DeletesStep,
     TypeCorrect, PTL DEF Spec
<1> QED BY <1>1 DEF OnlyOwnRemovalDeletes, DeletesOwn
=============================================================================

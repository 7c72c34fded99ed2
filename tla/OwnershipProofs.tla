-------------------------- MODULE OwnershipProofs --------------------------
(***************************************************************************)
(* Theorems about Ownership for any tickets, people and handlers.          *)
(***************************************************************************)
EXTENDS Ownership, FiniteSetTheorems, TLAPS

Hook == [ticket: Tickets, user: Assignees]

\* The row, what is outside of it, and the handlers in flight.
RowOK ==
  /\ lane \in [Tickets -> Lanes]
  /\ se \in [Tickets -> Owners] /\ dev \in [Tickets -> Owners]
  /\ owed \in [Tickets -> Int]
OutsideOK ==
  /\ live \in SUBSET Tickets
  /\ assignee \in [Tickets -> Assignees]
  /\ absence \in [SEs -> SEs \cup {None, Present}]
  /\ hooks \in SUBSET Hook
  /\ burst \in [Tickets -> Burst \cup {Quiet}]
  /\ notices \in [Tickets -> Nat]
TasksOK ==
  /\ task \in [Tasks -> TaskRecord]
  /\ \A k \in Tasks : SlotOK(task[k])
BoundsOK == raced \in BOOLEAN /\ runs \in Nat /\ moves \in Nat /\ faults \in Nat

LEMMA TypeParts == TypeOK <=> RowOK /\ OutsideOK /\ TasksOK /\ BoundsOK
BY DEF TypeOK, RowOK, OutsideOK, Hook, TasksOK, BoundsOK

\* What a handler on its way is for, and what it read is still true without a race.
Role(r, lanes, race) ==
  /\ r.pc = "tell" => r.kind = "to_dev" /\ r.changed
  /\ r.pc = "lane" => r.kind \in {"to_dev", "to_se"}
  /\ r.pc = "members" => r.kind = "to_dev"
  /\ r.pc = "lane" /\ r.kind = "to_dev" => r.changed /\ (race \/ lanes[r.ticket] = "se")
  /\ r.pc # "idle" /\ r.kind \in {"to_dev", "to_se"} => r.field = "dev"
  /\ r.pc = "owner" => r.kind \in Kinds
  /\ r.pc = "owner" /\ r.kind = "hook" => race \/ r.field = lanes[r.ticket]

\* Handlers come one at a time.
Alone == \A j, k \in Tasks : task[j].pc # "idle" /\ task[k].pc # "idle" => j = k

\* The handlers that moved t to the dev lane and have yet to tell the customer.
InDebt(r, t) ==
  /\ r.ticket = t /\ r.kind = "to_dev" /\ r.changed
  /\ r.pc \in {"members", "owner", "assign", "post", "tell"}
Owing(t) == {k \in Tasks : InDebt(task[k], t)}

MessagesTrail ==
  /\ faults = 0 => \A t \in Tickets : owed[t] <= Cardinality(Owing(t))
  /\ ~raced => \A t \in Tickets : owed[t] >= 0 /\ (Owing(t) # {} => owed[t] >= 1)

HandlersKnow ==
  /\ \A k \in Tasks : Role(task[k], lane, raced)
  /\ ~raced => Alone

Inv == TypeOK /\ HandlersKnow /\ MessagesTrail

-----------------------------------------------------------------------------
LEMMA NoTaskTyped ==
  /\ NoTask \in TaskRecord /\ NoTask.pc = "idle" /\ NoTask.kind = None /\ SlotOK(NoTask)
  /\ \A lanes, race : Role(NoTask, lanes, race)
<1>1. NoTask \in TaskRecord /\ NoTask.pc = "idle" /\ NoTask.kind = None
  BY DEF NoTask, TaskRecord, PCs, Lanes, Owners, People
<1>q. QED
  BY <1>1 DEF SlotOK, Role

LEMMA EffectiveTyped ==
  ASSUME RowOK, NEW t \in Tickets
  PROVE  Effective(t) \in Owners /\ Column(t) \in Owners
BY DEF RowOK, Effective, Column

LEMMA RerouteTyped ==
  ASSUME NEW away \in [SEs -> SEs \cup {None, Present}], NEW owner \in SEs
  PROVE  Reroute(owner, away) \subseteq SEs \cup {None}
<1>1. Pick(away) \subseteq SEs \cup {None}
  BY DEF Pick, LeastLoaded
<1>q. QED
  BY <1>1, ConstantsAssumption DEF Reroute

\* Whoever is on support, the pick is one of the team or nobody.
LEMMA PicksTyped ==
  ASSUME NEW group \in SUBSET Devs
  PROVE  Picks(group) \subseteq Devs \cup {None}
BY DEF Picks

LEMMA InitInv == Init => Inv
<1>1. SUFFICES ASSUME Init PROVE Inv
  OBVIOUS
<1>2. RowOK /\ OutsideOK
  BY <1>1 DEF Init, RowOK, OutsideOK, Lanes, Owners, People, Assignees
<1>3. TasksOK /\ BoundsOK
  BY <1>1, NoTaskTyped DEF Init, TasksOK, BoundsOK
<1>4. HandlersKnow
  BY <1>1, NoTaskTyped DEF Init, HandlersKnow, Alone
<1>5. \A t \in Tickets : Owing(t) = {} /\ owed[t] = 0
  BY <1>1, NoTaskTyped DEF Init, Owing, InDebt
<1>6. MessagesTrail
  BY <1>5, FS_EmptySet DEF MessagesTrail
<1>q. QED
  BY <1>2, <1>3, <1>4, <1>6, TypeParts DEF Inv

\* A slot that gets a good record stays good, and so do the others.
LEMMA SlotWritten ==
  ASSUME TasksOK, NEW k \in Tasks, NEW rec, SlotOK(rec), task' = [task EXCEPT ![k] = rec]
  PROVE  TasksOK' /\ task'[k] = rec /\ \A j \in Tasks \ {k} : task'[j] = task[j]
BY DEF TasksOK, SlotOK

-----------------------------------------------------------------------------
(* The tables.                                                             *)

LEMMA StepTables ==
  ASSUME TypeOK, NEW k \in Tasks, Step(k) \/ Fail(k)
  PROVE  RowOK' /\ OutsideOK' /\ BoundsOK'
<1>1. /\ RowOK /\ OutsideOK /\ BoundsOK /\ task[k] \in TaskRecord /\ SlotOK(task[k])
      /\ task[k].owner \in Owners /\ task[k].seen \in Owners /\ task[k].field \in Lanes
  BY TypeParts DEF TasksOK, TaskRecord
<1>2. BoundsOK'
  <2>1. raced' = raced /\ runs' = runs /\ moves' = moves /\ (faults' = faults \/ Outage)
    BY DEF Step, Fail, WriteLane, PickDev, WriteOwner, ReadAssignee, PostAssignee, Tell, Schedule,
       Upsert, ListOpen, MoveNext, CheckOwner, outside
  <2>q. QED
    BY <1>1, <2>1 DEF BoundsOK, Outage
<1>3. CASE WriteLane(k)
  <2>1. PICK t \in Tickets, to \in Lanes, n \in Int :
          /\ lane' = [lane EXCEPT ![t] = to] /\ owed' = [owed EXCEPT ![t] = n]
    <3>1. PICK t \in Tickets : t = task[k].ticket
      BY <1>1, <1>3 DEF WriteLane, SlotOK
    <3>2. PICK to \in Lanes : to = IF task[k].kind = "to_dev" THEN "dev" ELSE "se"
      BY DEF Lanes
    <3>3. PICK n \in Int : n = IF to = "dev" /\ lane[t] = "se" THEN owed[t] + 1 ELSE owed[t]
      BY <1>1 DEF RowOK
    <3>q. QED
      BY <1>3, <3>1, <3>2, <3>3 DEF WriteLane
  <2>2. UNCHANGED <<se, dev, live, assignee, absence, hooks, burst, notices>>
    BY <1>3 DEF WriteLane, outside
  <2>q. QED
    BY <1>1, <1>2, <2>1, <2>2 DEF RowOK, OutsideOK
<1>4. CASE WriteOwner(k)
  BY <1>1, <1>2, <1>4 DEF WriteOwner, RowOK, OutsideOK, outside
<1>5. CASE PostAssignee(k)
  <2>1. UNCHANGED <<row, outside>>
    BY <1>5 DEF PostAssignee
  <2>2. assignee' \in [Tickets -> Assignees]
    BY <1>1, <1>5 DEF PostAssignee, OutsideOK, Assignees
  <2>q. QED
    BY <1>1, <1>2, <2>1, <2>2 DEF RowOK, OutsideOK, row, outside
<1>6. CASE Tell(k)
  <2>1. PICK n \in Int : owed' = [owed EXCEPT ![task[k].ticket] = n]
    <3>1. owed[task[k].ticket] - 1 \in Int
      BY <1>1, <1>6 DEF Tell, SlotOK, RowOK
    <3>q. QED
      BY <1>6, <3>1 DEF Tell
  <2>q. QED
    BY <1>1, <1>2, <1>6, <2>1 DEF Tell, RowOK, OutsideOK, outside
<1>7. CASE Schedule(k)
  <2>1. task[k].ticket \in Tickets
    BY <1>1, <1>7 DEF Schedule, SlotOK
  <2>2. NewBurst(k) \in Burst
    <3>1. se[task[k].ticket] \in Owners
      BY <1>1, <2>1 DEF RowOK
    <3>q. QED
      BY <1>1, <3>1 DEF NewBurst, Burst
  <2>3. PICK b \in Burst : b = NewBurst(k)
    BY <2>2
  <2>q. QED
    BY <1>1, <1>2, <1>7, <2>1, <2>3 DEF Schedule, RowOK, OutsideOK, row
<1>8. CASE Upsert(k)
  <2>1. task[k].absentee \in SEs /\ task[k].owner \in SEs \cup {None}
    BY <1>1, <1>8 DEF Upsert, SlotOK
  <2>q. QED
    BY <1>1, <1>2, <1>8, <2>1 DEF Upsert, RowOK, OutsideOK, row
<1>9. CASE PickDev(k) \/ ReadAssignee(k) \/ ListOpen(k) \/ MoveNext(k) \/ CheckOwner(k) \/ Fail(k)
  BY <1>1, <1>2, <1>9 DEF PickDev, ReadAssignee, ListOpen, MoveNext, CheckOwner, Fail, RowOK,
     OutsideOK, row, outside
<1>q. QED
  BY <1>3, <1>4, <1>5, <1>6, <1>7, <1>8, <1>9 DEF Step

LEMMA StartTables ==
  ASSUME TypeOK, NEW k \in Tasks, Start(k)
  PROVE  /\ RowOK' /\ OutsideOK' /\ BoundsOK'
         /\ UNCHANGED <<lane, se, dev, owed, faults>>
<1>1. RowOK /\ OutsideOK /\ BoundsOK
  BY TypeParts
<1>2. /\ UNCHANGED <<lane, se, dev, owed, live, assignee, absence, burst, notices, moves, faults>>
      /\ hooks' \subseteq hooks
      /\ \E rec : Begin(k, rec)
  BY DEF Start, MoveToDev, ReturnToSe, SetSeOwner, SubmitOoo, Receive, row, outside
<1>3. BoundsOK'
  <2>1. PICK rec : Begin(k, rec)
    BY <1>2
  <2>2. raced' \in BOOLEAN
    BY <2>1 DEF Begin
  <2>3. runs' \in Nat
    BY <1>1, <2>1 DEF Begin, BoundsOK
  <2>q. QED
    BY <1>1, <1>2, <2>2, <2>3 DEF BoundsOK
<1>q. QED
  BY <1>1, <1>2, <1>3 DEF RowOK, OutsideOK

LEMMA WorldTables ==
  ASSUME TypeOK, World \/ Restart \/ UNCHANGED vars
  PROVE  /\ RowOK' /\ OutsideOK' /\ BoundsOK' /\ UNCHANGED <<lane, se, dev, owed>>
         /\ raced => raced'
<1>1. RowOK /\ OutsideOK /\ BoundsOK
  BY TypeParts
<1>2. BoundsOK' /\ (raced => raced')
  <2>1. CASE World
    <3>1. CASE \E t \in Tickets, u \in Assignees : Reassign(t, u)
      BY <1>1, <3>1 DEF BoundsOK, Reassign, Idle
    <3>2. CASE \E h \in hooks : IgnoreHook(h)
      BY <1>1, <3>2 DEF BoundsOK, IgnoreHook, Outage
    <3>3. CASE \/ \E s \in SEs : MarkBack(s)
               \/ \E t \in Tickets : Retire(t) \/ Fire(t)
      BY <1>1, <3>3 DEF BoundsOK, MarkBack, Retire, Fire, Idle
    <3>q. QED
      BY <2>1, <3>1, <3>2, <3>3 DEF World
  <2>2. CASE Restart \/ UNCHANGED vars
    BY <1>1, <2>2 DEF BoundsOK, Restart, Outage, vars
  <2>q. QED
    BY <2>1, <2>2
<1>3. UNCHANGED <<lane, se, dev, owed>>
  BY DEF World, Restart, vars, Reassign, IgnoreHook, MarkBack, Retire, Fire, row
<1>4. CASE \E t \in Tickets, u \in Assignees : Reassign(t, u)
  BY <1>1, <1>2, <1>3, <1>4 DEF Reassign, RowOK, OutsideOK, Hook
<1>5. CASE \E t \in Tickets : Fire(t)
  BY <1>1, <1>2, <1>3, <1>5 DEF Fire, RowOK, OutsideOK
<1>6. CASE Restart
  BY <1>1, <1>2, <1>3, <1>6 DEF Restart, RowOK, OutsideOK
<1>7. CASE \/ \E h \in hooks : IgnoreHook(h)
           \/ \E s \in SEs : MarkBack(s)
           \/ \E t \in Tickets : Retire(t)
           \/ UNCHANGED vars
  BY <1>1, <1>2, <1>3, <1>7 DEF IgnoreHook, MarkBack, Retire, vars, RowOK, OutsideOK
<1>q. QED
  BY <1>4, <1>5, <1>6, <1>7 DEF World

-----------------------------------------------------------------------------
(* The handlers.                                                           *)

\* The record a step leaves in its slot, and whether it owes a message.
LEMMA StepRecord ==
  ASSUME Inv, NEW k \in Tasks, Step(k) \/ Fail(k)
  PROVE  \E rec :
           /\ task' = [task EXCEPT ![k] = rec] /\ SlotOK(rec) /\ Role(rec, lane', raced')
           /\ \/ owed' = owed /\ \A t : InDebt(rec, t) <=> InDebt(task[k], t)
              \/ WriteLane(k) /\ task[k].kind = "to_dev" /\ InDebt(rec, task[k].ticket)
              \/ (Tell(k) \/ Fail(k)) /\ rec = NoTask
<1>1. /\ RowOK /\ OutsideOK /\ TasksOK /\ task[k] \in TaskRecord /\ SlotOK(task[k])
      /\ Role(task[k], lane, raced)
  BY TypeParts DEF Inv, TasksOK, HandlersKnow
<1>2. /\ SlotOK(NoTask) /\ NoTask.pc = "idle" /\ \A lanes, race : Role(NoTask, lanes, race)
      /\ \A t : ~InDebt(NoTask, t)
  BY NoTaskTyped DEF InDebt
<1>3. CASE WriteLane(k)
  <2>1. PICK pc \in {"members", "owner", "assign"} :
          /\ Goto(k, pc) /\ (task[k].kind = "to_dev" <=> pc = "members")
    <3>1. CASE task[k].kind = "to_dev"
      BY <1>3, <3>1 DEF WriteLane
    <3>2. CASE task[k].kind # "to_dev" /\ task[k].seen # None
      BY <1>3, <3>2 DEF WriteLane
    <3>3. CASE task[k].kind # "to_dev" /\ task[k].seen = None
      BY <1>3, <3>3 DEF WriteLane
    <3>q. QED
      BY <3>1, <3>2, <3>3
  <2>2. PICK rec : rec = [task[k] EXCEPT !.pc = pc]
    OBVIOUS
  <2>3. /\ rec \in TaskRecord /\ rec.pc = pc /\ rec.kind = task[k].kind
        /\ rec.ticket = task[k].ticket /\ rec.changed = task[k].changed
        /\ rec.field = task[k].field /\ rec.absentee = task[k].absentee
    BY <1>1, <2>1, <2>2 DEF TaskRecord, PCs
  <2>4. task[k].kind \in {"to_dev", "to_se"} /\ task[k].ticket \in Tickets /\ task[k].field = "dev"
        /\ (task[k].kind = "to_dev" => task[k].changed)
    BY <1>1, <1>3 DEF WriteLane, Role, SlotOK
  <2>5. SlotOK(rec) /\ Role(rec, lane', raced')
    BY <2>1, <2>3, <2>4 DEF SlotOK, Role, Kinds
  <2>6. CASE task[k].kind = "to_dev"
    BY <1>3, <2>1, <2>2, <2>3, <2>4, <2>5, <2>6 DEF InDebt, Goto
  <2>7. CASE task[k].kind = "to_se"
    <3>1. owed' = owed
      BY <1>1, <1>3, <2>7 DEF WriteLane, RowOK
    <3>q. QED
      BY <2>1, <2>2, <2>3, <2>5, <2>7, <3>1 DEF InDebt, Goto
  <2>q. QED
    BY <2>4, <2>6, <2>7
<1>4. CASE PickDev(k)
  <2>1. PICK d \in Owners, pc \in {"owner", "assign"} :
          task' = [task EXCEPT ![k] = [task[k] EXCEPT !.pc = pc, !.owner = d]]
    <3>1. PICK d \in Devs \cup {None} :
            task' = IF d \in {None, task[k].seen} THEN [task EXCEPT ![k].pc = "assign"]
                    ELSE [task EXCEPT ![k].pc = "owner", ![k].owner = d]
      BY <1>4, PicksTyped DEF PickDev
    <3>2. CASE d \in {None, task[k].seen}
      <4>1. task[k].owner \in Owners /\ task[k] = [task[k] EXCEPT !.owner = task[k].owner]
        BY <1>1 DEF TaskRecord
      <4>2. [task[k] EXCEPT !.pc = "assign"] = [task[k] EXCEPT !.pc = "assign", !.owner = task[k].owner]
        BY <1>1 DEF TaskRecord
      <4>q. QED
        BY <3>1, <3>2, <4>1, <4>2
    <3>3. CASE d \notin {None, task[k].seen}
      BY <3>1, <3>3 DEF Owners, People
    <3>q. QED
      BY <3>2, <3>3
  <2>2. PICK rec : rec = [task[k] EXCEPT !.pc = pc, !.owner = d]
    OBVIOUS
  <2>3. /\ rec \in TaskRecord /\ rec.pc = pc /\ rec.kind = task[k].kind
        /\ rec.ticket = task[k].ticket /\ rec.changed = task[k].changed
        /\ rec.field = task[k].field /\ rec.absentee = task[k].absentee
    BY <1>1, <2>1, <2>2 DEF TaskRecord, PCs
  <2>4. task[k].kind = "to_dev" /\ task[k].ticket \in Tickets /\ task[k].field = "dev"
        /\ task[k].pc = "members" /\ owed' = owed
    BY <1>1, <1>4 DEF PickDev, Role, SlotOK, row
  <2>5. SlotOK(rec) /\ Role(rec, lane', raced') /\ \A t : InDebt(rec, t) <=> InDebt(task[k], t)
    BY <2>1, <2>3, <2>4 DEF SlotOK, Role, Kinds, InDebt
  <2>q. QED
    BY <2>1, <2>2, <2>4, <2>5
<1>5. CASE WriteOwner(k) \/ ReadAssignee(k)
  <2>1. PICK d \in Owners, pc \in {"schedule", "assign", "post"} :
          /\ task' = [task EXCEPT ![k] = [task[k] EXCEPT !.pc = pc, !.owner = d]]
          /\ pc = "schedule" => task[k].kind = "hook"
    <3>1. CASE WriteOwner(k)
      <4>1. task[k].owner \in Owners /\ \A pc : [task[k] EXCEPT !.pc = pc]
                                         = [task[k] EXCEPT !.pc = pc, !.owner = task[k].owner]
        BY <1>1 DEF TaskRecord
      <4>q. QED
        BY <3>1, <4>1 DEF WriteOwner, Goto
    <3>2. CASE ReadAssignee(k)
      <4>1. Effective(task[k].ticket) \in Owners
        BY <1>1, <3>2, EffectiveTyped DEF ReadAssignee, SlotOK
      <4>q. QED
        BY <3>2, <4>1 DEF ReadAssignee
    <3>q. QED
      BY <1>5, <3>1, <3>2
  <2>2. PICK rec : rec = [task[k] EXCEPT !.pc = pc, !.owner = d]
    OBVIOUS
  <2>3. /\ rec \in TaskRecord /\ rec.pc = pc /\ rec.kind = task[k].kind
        /\ rec.ticket = task[k].ticket /\ rec.changed = task[k].changed
        /\ rec.field = task[k].field /\ rec.absentee = task[k].absentee
    BY <1>1, <2>1, <2>2 DEF TaskRecord, PCs
  <2>4. task[k].ticket \in Tickets /\ task[k].pc \in {"owner", "assign"} /\ owed' = owed
    BY <1>1, <1>5 DEF WriteOwner, ReadAssignee, SlotOK, row
  <2>5. SlotOK(rec) /\ Role(rec, lane', raced')
    BY <1>1, <2>1, <2>3, <2>4 DEF SlotOK, Role
  <2>6. \A t : InDebt(rec, t) <=> InDebt(task[k], t)
    BY <2>1, <2>3, <2>4 DEF InDebt
  <2>q. QED
    BY <2>1, <2>2, <2>4, <2>5, <2>6
<1>6. CASE PostAssignee(k)
  <2>1. owed' = owed /\ task[k].pc = "post" /\ task[k].ticket \in Tickets
    BY <1>1, <1>6 DEF PostAssignee, SlotOK, row
  <2>2. PICK rec : rec = AfterPush(k)
    OBVIOUS
  <2>3. task' = [task EXCEPT ![k] = rec]
    BY <1>6, <2>2 DEF PostAssignee, FinishPush
  <2>4. CASE task[k].kind = "to_dev" /\ task[k].changed
    <3>1. rec = [task[k] EXCEPT !.pc = "tell"]
      BY <2>2, <2>4 DEF AfterPush
    <3>2. /\ rec \in TaskRecord /\ rec.pc = "tell" /\ rec.kind = task[k].kind
          /\ rec.ticket = task[k].ticket /\ rec.changed = task[k].changed
          /\ rec.field = task[k].field
      BY <1>1, <3>1 DEF TaskRecord, PCs
    <3>3. SlotOK(rec) /\ Role(rec, lane', raced')
      BY <1>1, <2>1, <2>4, <3>2 DEF SlotOK, Role
    <3>4. \A t : InDebt(rec, t) <=> InDebt(task[k], t)
      BY <2>1, <2>4, <3>2 DEF InDebt
    <3>q. QED
      BY <2>1, <2>3, <3>3, <3>4
  <2>5. CASE task[k].kind = "ooo"
    <3>1. rec = [task[k] EXCEPT !.pc = "next"]
      BY <2>2, <2>5 DEF AfterPush
    <3>2. /\ rec \in TaskRecord /\ rec.pc = "next" /\ rec.kind = task[k].kind
          /\ rec.absentee = task[k].absentee
      BY <1>1, <3>1 DEF TaskRecord, PCs
    <3>3. SlotOK(rec) /\ Role(rec, lane', raced')
      BY <1>1, <2>1, <2>5, <3>2 DEF SlotOK, Role
    <3>4. \A t : InDebt(rec, t) <=> InDebt(task[k], t)
      BY <2>1, <2>5, <3>2 DEF InDebt
    <3>q. QED
      BY <2>1, <2>3, <3>3, <3>4
  <2>6. CASE ~(task[k].kind = "to_dev" /\ task[k].changed) /\ task[k].kind # "ooo"
    <3>1. rec = NoTask
      BY <2>2, <2>6 DEF AfterPush
    <3>2. \A t : ~InDebt(task[k], t)
      BY <2>6 DEF InDebt
    <3>q. QED
      BY <1>2, <2>1, <2>3, <3>1, <3>2
  <2>q. QED
    BY <2>4, <2>5, <2>6
<1>7. CASE Tell(k) \/ Fail(k)
  BY <1>2, <1>7 DEF Tell, Fail
<1>8. CASE Schedule(k)
  <2>1. owed' = owed /\ task' = [task EXCEPT ![k] = NoTask] /\ \A t : ~InDebt(task[k], t)
    BY <1>8 DEF Schedule, InDebt, row
  <2>q. QED
    BY <1>2, <2>1
<1>9. CASE Upsert(k)
  <2>1. /\ task[k].kind = "ooo" /\ task[k].absentee \in SEs /\ owed' = owed
        /\ \A t : ~InDebt(task[k], t)
    BY <1>1, <1>9 DEF Upsert, SlotOK, row, InDebt
  <2>2. PICK rec : rec = [task[k] EXCEPT !.pc = "list"]
    OBVIOUS
  <2>3. /\ rec \in TaskRecord /\ rec.pc = "list" /\ rec.kind = task[k].kind
        /\ rec.absentee = task[k].absentee
    BY <1>1, <2>2 DEF TaskRecord, PCs
  <2>4. SlotOK(rec) /\ Role(rec, lane', raced') /\ \A t : ~InDebt(rec, t)
    BY <2>1, <2>3 DEF SlotOK, Role, InDebt
  <2>5. task' = [task EXCEPT ![k] = rec] \/ task' = [task EXCEPT ![k] = NoTask]
    BY <1>9, <2>2 DEF Upsert
  <2>q. QED
    BY <1>2, <2>1, <2>4, <2>5
<1>10. CASE ListOpen(k)
  <2>1. /\ task[k].kind = "ooo" /\ task[k].absentee \in SEs /\ owed' = owed
        /\ \A t : ~InDebt(task[k], t)
    BY <1>1, <1>10 DEF ListOpen, SlotOK, row, InDebt
  <2>2. PICK queue \in SUBSET Tickets : queue = {t \in live : se[t] = task[k].absentee}
    BY <1>1 DEF OutsideOK
  <2>3. PICK rec : rec = [task[k] EXCEPT !.pc = "next", !.away = absence, !.queue = queue]
    OBVIOUS
  <2>4. /\ rec \in TaskRecord /\ rec.pc = "next" /\ rec.kind = task[k].kind
        /\ rec.absentee = task[k].absentee
    BY <1>1, <2>3 DEF TaskRecord, PCs, OutsideOK
  <2>5. SlotOK(rec) /\ Role(rec, lane', raced') /\ \A t : ~InDebt(rec, t)
    BY <2>1, <2>4 DEF SlotOK, Role, InDebt
  <2>6. task' = [task EXCEPT ![k] = rec]
    BY <1>1, <1>10, <2>2, <2>3 DEF ListOpen, TasksOK
  <2>q. QED
    BY <2>1, <2>5, <2>6
<1>11. CASE MoveNext(k)
  <2>1. /\ task[k].kind = "ooo" /\ task[k].absentee \in SEs /\ owed' = owed
        /\ \A t : ~InDebt(task[k], t)
    BY <1>1, <1>11 DEF MoveNext, SlotOK, row, InDebt
  <2>2. CASE task' = [task EXCEPT ![k] = NoTask]
    BY <1>2, <2>1, <2>2
  <2>3. CASE task' # [task EXCEPT ![k] = NoTask]
    <3>1. PICK t \in task[k].queue, target \in Reroute(task[k].absentee, task[k].away) :
            task' = [task EXCEPT ![k].queue = @ \ {t}, ![k].ticket = t, ![k].owner = target,
                                 ![k].pc = IF target = task[k].absentee THEN "next" ELSE "check"]
      BY <1>11, <2>3 DEF MoveNext
    <3>2. t \in Tickets /\ target \in Owners
      <4>1. Reroute(task[k].absentee, task[k].away) \subseteq SEs \cup {None}
        BY <1>1, <2>1, RerouteTyped DEF TaskRecord
      <4>q. QED
        BY <1>1, <4>1 DEF TaskRecord, Owners, People
    <3>3. PICK pc \in {"next", "check"} : pc = IF target = task[k].absentee THEN "next" ELSE "check"
      OBVIOUS
    <3>4. PICK rec : rec = [task[k] EXCEPT !.queue = @ \ {t}, !.ticket = t, !.owner = target, !.pc = pc]
      OBVIOUS
    <3>5. /\ rec \in TaskRecord /\ rec.pc = pc /\ rec.kind = task[k].kind
          /\ rec.absentee = task[k].absentee /\ rec.ticket = t
      BY <1>1, <3>2, <3>4 DEF TaskRecord, PCs
    <3>6. SlotOK(rec) /\ Role(rec, lane', raced') /\ \A u : ~InDebt(rec, u)
      BY <2>1, <3>2, <3>3, <3>5 DEF SlotOK, Role, InDebt
    <3>7. task' = [task EXCEPT ![k] = rec]
      BY <1>1, <3>1, <3>3, <3>4 DEF TasksOK
    <3>q. QED
      BY <2>1, <3>6, <3>7
  <2>q. QED
    BY <2>2, <2>3
<1>12. CASE CheckOwner(k)
  <2>1. /\ task[k].kind = "ooo" /\ task[k].absentee \in SEs /\ owed' = owed
        /\ task[k].ticket \in Tickets /\ \A t : ~InDebt(task[k], t)
    BY <1>1, <1>12 DEF CheckOwner, SlotOK, row, InDebt
  <2>2. PICK pc \in {"next", "owner"} :
          pc = IF se[task[k].ticket] = task[k].owner THEN "next" ELSE "owner"
    OBVIOUS
  <2>3. PICK rec : rec = [task[k] EXCEPT !.pc = pc]
    OBVIOUS
  <2>4. /\ rec \in TaskRecord /\ rec.pc = pc /\ rec.kind = task[k].kind
        /\ rec.absentee = task[k].absentee /\ rec.ticket = task[k].ticket
    BY <1>1, <2>2, <2>3 DEF TaskRecord, PCs
  <2>5. SlotOK(rec) /\ Role(rec, lane', raced') /\ \A t : ~InDebt(rec, t)
    BY <2>1, <2>2, <2>4 DEF SlotOK, Role, InDebt, Kinds
  <2>6. task' = [task EXCEPT ![k] = rec]
    BY <1>12, <2>2, <2>3 DEF CheckOwner, Goto
  <2>q. QED
    BY <2>1, <2>5, <2>6
<1>q. QED
  BY <1>3, <1>4, <1>5, <1>6, <1>7, <1>8, <1>9, <1>10, <1>11, <1>12 DEF Step

LEMMA StartRecord ==
  ASSUME Inv, NEW k \in Tasks, Start(k)
  PROVE  \E rec : /\ Begin(k, rec) /\ SlotOK(rec) /\ Role(rec, lane, raced')
                  /\ \A t : ~InDebt(rec, t)
<1>1. /\ RowOK /\ OutsideOK /\ NoTask \in TaskRecord /\ NoTask.owner = None /\ NoTask.seen = None
      /\ NoTask.changed = FALSE
  BY TypeParts, NoTaskTyped DEF Inv, NoTask
<1>2. CASE \E t \in Tickets : MoveToDev(k, t)
  <2>1. PICK t \in Tickets : MoveToDev(k, t)
    BY <1>2
  <2>2. PICK pc \in {"lane", "members"}, changed \in BOOLEAN :
          /\ pc = IF lane[t] = "se" THEN "lane" ELSE "members"
          /\ changed = (lane[t] = "se")
    OBVIOUS
  <2>3. PICK rec : rec = [NoTask EXCEPT !.kind = "to_dev", !.ticket = t, !.field = "dev",
                            !.seen = dev[t], !.changed = changed, !.pc = pc]
    OBVIOUS
  <2>4. Begin(k, rec)
    BY <2>1, <2>2, <2>3 DEF MoveToDev
  <2>5. /\ rec \in TaskRecord /\ rec.pc = pc /\ rec.kind = "to_dev" /\ rec.ticket = t
        /\ rec.field = "dev" /\ rec.changed = changed
    BY <1>1, <2>3 DEF RowOK, TaskRecord, PCs, Kinds, Lanes
  <2>6. SlotOK(rec) /\ Role(rec, lane, raced') /\ \A u : ~InDebt(rec, u)
    BY <2>2, <2>5 DEF SlotOK, Role, InDebt
  <2>q. QED
    BY <2>4, <2>6
<1>3. CASE \E t \in Tickets : ReturnToSe(k, t)
  <2>1. PICK t \in Tickets : ReturnToSe(k, t)
    BY <1>3
  <2>2. PICK pc \in {"lane", "owner", "assign"} :
          pc = IF lane[t] = "dev" THEN "lane" ELSE IF dev[t] # None THEN "owner" ELSE "assign"
    OBVIOUS
  <2>3. PICK rec : rec = [NoTask EXCEPT !.kind = "to_se", !.ticket = t, !.field = "dev",
                            !.seen = dev[t], !.pc = pc]
    OBVIOUS
  <2>4. Begin(k, rec)
    BY <2>1, <2>2, <2>3 DEF ReturnToSe
  <2>5. /\ rec \in TaskRecord /\ rec.pc = pc /\ rec.kind = "to_se" /\ rec.ticket = t
        /\ rec.field = "dev"
    BY <1>1, <2>3 DEF RowOK, TaskRecord, PCs, Kinds, Lanes
  <2>6. SlotOK(rec) /\ Role(rec, lane, raced') /\ \A u : ~InDebt(rec, u)
    BY <2>2, <2>5 DEF SlotOK, Role, InDebt, Kinds
  <2>q. QED
    BY <2>4, <2>6
<1>4. CASE \E t \in Tickets, s \in SEs : SetSeOwner(k, t, s)
  <2>1. PICK t \in Tickets, s \in SEs : SetSeOwner(k, t, s)
    BY <1>4
  <2>2. PICK rec : rec = [NoTask EXCEPT !.kind = "select", !.ticket = t, !.owner = s, !.pc = "owner"]
    OBVIOUS
  <2>3. rec \in TaskRecord /\ rec.pc = "owner" /\ rec.kind = "select" /\ rec.ticket = t
    BY <1>1, <2>2 DEF TaskRecord, PCs, Kinds, Owners, People
  <2>4. SlotOK(rec) /\ Role(rec, lane, raced') /\ \A u : ~InDebt(rec, u)
    BY <2>3 DEF SlotOK, Role, InDebt, Kinds
  <2>q. QED
    BY <2>1, <2>2, <2>4 DEF SetSeOwner
<1>5. CASE \E s \in SEs, c \in SEs \cup {None}, move \in BOOLEAN : SubmitOoo(k, s, c, move)
  <2>1. PICK s \in SEs, c \in SEs \cup {None}, move \in BOOLEAN : SubmitOoo(k, s, c, move)
    BY <1>5
  <2>2. PICK rec : rec = [NoTask EXCEPT !.kind = "ooo", !.absentee = s, !.owner = c,
                            !.changed = move, !.pc = "upsert"]
    OBVIOUS
  <2>3. /\ rec \in TaskRecord /\ rec.pc = "upsert" /\ rec.kind = "ooo" /\ rec.absentee = s
        /\ rec.owner = c
    BY <1>1, <2>2 DEF TaskRecord, PCs, Kinds, Owners, People
  <2>4. SlotOK(rec) /\ Role(rec, lane, raced') /\ \A u : ~InDebt(rec, u)
    BY <2>3 DEF SlotOK, Role, InDebt
  <2>q. QED
    BY <2>1, <2>2, <2>4 DEF SubmitOoo
<1>6. CASE \E h \in hooks : Receive(k, h)
  <2>1. PICK h \in hooks : Receive(k, h)
    BY <1>6
  <2>2. PICK t \in Tickets : t = h.ticket
    BY <1>1 DEF OutsideOK, Hook
  <2>3. Column(t) \in Owners /\ h.user \in Owners /\ lane[t] \in Lanes
    BY <1>1, <2>1, EffectiveTyped DEF Receive, RowOK
  <2>4. PICK rec : rec = [NoTask EXCEPT !.kind = "hook", !.ticket = t, !.field = lane[t],
                            !.owner = h.user, !.seen = Column(t), !.pc = "owner"]
    OBVIOUS
  <2>5. rec \in TaskRecord /\ rec.pc = "owner" /\ rec.kind = "hook" /\ rec.ticket = t
        /\ rec.field = lane[t]
    BY <1>1, <2>3, <2>4 DEF TaskRecord, PCs, Kinds
  <2>6. SlotOK(rec) /\ Role(rec, lane, raced') /\ \A u : ~InDebt(rec, u)
    BY <2>5 DEF SlotOK, Role, InDebt, Kinds
  <2>q. QED
    BY <2>1, <2>2, <2>4, <2>6 DEF Receive
<1>q. QED
  BY <1>2, <1>3, <1>4, <1>5, <1>6 DEF Start

-----------------------------------------------------------------------------
(* The invariant.                                                          *)

LEMMA OwingFinite ==
  ASSUME NEW t
  PROVE  IsFiniteSet(Owing(t)) /\ Cardinality(Owing(t)) \in Nat
<1>1. Owing(t) \subseteq Tasks
  BY DEF Owing
<1>q. QED
  BY <1>1, ConstantsAssumption, FS_Subset, FS_CardinalityType

LEMMA StartInv ==
  ASSUME Inv, NEW k \in Tasks, Start(k)
  PROVE  Inv'
<1>1. PICK rec : /\ Begin(k, rec) /\ SlotOK(rec) /\ Role(rec, lane, raced')
                 /\ \A t : ~InDebt(rec, t)
  BY StartRecord
<1>2. /\ TypeOK /\ RowOK /\ TasksOK /\ RowOK' /\ OutsideOK' /\ BoundsOK'
      /\ UNCHANGED <<lane, se, dev, owed, faults>>
  BY StartTables, TypeParts DEF Inv
<1>3. /\ task' = [task EXCEPT ![k] = rec] /\ task[k].pc = "idle"
      /\ raced => raced'
      /\ ~raced' => Idle
  BY <1>1 DEF Begin
<1>4. TasksOK' /\ task'[k] = rec /\ \A j \in Tasks \ {k} : task'[j] = task[j]
  BY <1>1, <1>2, <1>3, SlotWritten
<1>5. HandlersKnow'
  <2>1. \A j \in Tasks \ {k} : Role(task[j], lane, raced')
    BY <1>3 DEF Inv, HandlersKnow, Role
  <2>2. ~raced' => Alone'
    BY <1>3, <1>4 DEF Alone, Idle
  <2>q. QED
    BY <1>1, <1>2, <1>4, <2>1, <2>2 DEF HandlersKnow
<1>6. \A t : Owing(t)' = Owing(t)
  BY <1>1, <1>3, <1>4 DEF Owing, InDebt
<1>7. MessagesTrail'
  BY <1>2, <1>3, <1>6 DEF Inv, MessagesTrail
<1>q. QED
  BY <1>2, <1>4, <1>5, <1>7, TypeParts DEF Inv, TypeOK, RowOK, OutsideOK, Hook, TasksOK, BoundsOK

LEMMA StepInv ==
  ASSUME Inv, NEW k \in Tasks, Step(k) \/ Fail(k)
  PROVE  Inv'
<1>1. PICK rec :
        /\ task' = [task EXCEPT ![k] = rec] /\ SlotOK(rec) /\ Role(rec, lane', raced')
        /\ \/ owed' = owed /\ \A t : InDebt(rec, t) <=> InDebt(task[k], t)
           \/ WriteLane(k) /\ task[k].kind = "to_dev" /\ InDebt(rec, task[k].ticket)
           \/ (Tell(k) \/ Fail(k)) /\ rec = NoTask
  BY StepRecord
<1>2. /\ TypeOK /\ RowOK /\ TasksOK /\ BoundsOK /\ RowOK' /\ OutsideOK' /\ BoundsOK'
      /\ Role(task[k], lane, raced) /\ SlotOK(task[k])
  BY StepTables, TypeParts DEF Inv, HandlersKnow, TasksOK
<1>3. /\ raced' = raced /\ task[k].pc # "idle"
      /\ faults' = 0 => faults = 0
  <2>1. raced' = raced /\ task[k].pc # "idle" /\ (faults' = faults \/ Outage)
    BY DEF Step, Fail, WriteLane, PickDev, WriteOwner, ReadAssignee, PostAssignee, Tell, Schedule,
       Upsert, ListOpen, MoveNext, CheckOwner, outside
  <2>q. QED
    BY <1>2, <2>1 DEF Outage, BoundsOK
<1>4. TasksOK' /\ task'[k] = rec /\ \A j \in Tasks \ {k} : task'[j] = task[j]
  BY <1>1, <1>2, SlotWritten
<1>5. HandlersKnow'
  <2>1. CASE raced
    BY <1>1, <1>3, <1>4, <2>1 DEF Inv, HandlersKnow, Role
  <2>2. CASE ~raced
    <3>1. \A j \in Tasks \ {k} : task[j].pc = "idle"
      BY <1>3, <2>2 DEF Inv, HandlersKnow, Alone
    <3>2. \A j \in Tasks \ {k} : Role(task[j], lane', raced')
      BY <3>1 DEF Role
    <3>q. QED
      BY <1>1, <1>4, <3>1, <3>2 DEF HandlersKnow, Alone
  <2>q. QED
    BY <2>1, <2>2
<1>6. \A t : Owing(t)' = {j \in Tasks \ {k} : InDebt(task[j], t)} \cup {j \in {k} : InDebt(rec, t)}
  BY <1>4 DEF Owing
<1>7. ASSUME owed' = owed, \A t : InDebt(rec, t) <=> InDebt(task[k], t)
      PROVE  MessagesTrail'
  <2>1. \A t : Owing(t)' = Owing(t)
    BY <1>6, <1>7 DEF Owing
  <2>q. QED
    BY <1>3, <1>7, <2>1 DEF Inv, MessagesTrail
<1>8. ASSUME WriteLane(k), task[k].kind = "to_dev", InDebt(rec, task[k].ticket)
      PROVE  MessagesTrail'
  <2>1. PICK t \in Tickets : t = task[k].ticket
    BY <1>2, <1>8 DEF WriteLane, SlotOK
  <2>2. \A u : ~InDebt(task[k], u)
    BY <1>8 DEF WriteLane, InDebt
  <2>3. Owing(t)' = Owing(t) \cup {k} /\ k \notin Owing(t)
    BY <1>6, <1>8, <2>1, <2>2 DEF Owing
  <2>4. \A u \in Tickets \ {t} : Owing(u)' = Owing(u)
    BY <1>6, <1>8, <2>1, <2>2 DEF Owing, InDebt
  <2>5. Cardinality(Owing(t)') = Cardinality(Owing(t)) + 1 /\ Cardinality(Owing(t)) \in Nat
    BY <2>3, OwingFinite, FS_AddElement
  <2>6. /\ owed' = [owed EXCEPT ![t] = IF lane[t] = "se" THEN @ + 1 ELSE @]
        /\ owed[t] \in Int
    BY <1>2, <1>8, <2>1 DEF WriteLane, RowOK
  <2>7. \A u \in Tickets \ {t} : owed'[u] = owed[u]
    BY <1>2, <2>6 DEF RowOK
  <2>8. owed'[t] = IF lane[t] = "se" THEN owed[t] + 1 ELSE owed[t]
    BY <1>2, <2>6 DEF RowOK
  <2>9. ASSUME faults' = 0
        PROVE  \A u \in Tickets : owed'[u] <= Cardinality(Owing(u)')
    <3>1. \A u \in Tickets : owed[u] <= Cardinality(Owing(u))
      BY <1>3, <2>9 DEF Inv, MessagesTrail
    <3>2. owed'[t] <= Cardinality(Owing(t)')
      BY <2>5, <2>6, <2>8, <3>1
    <3>q. QED
      BY <2>4, <2>7, <3>1, <3>2
  <2>10. ASSUME ~raced'
         PROVE  \A u \in Tickets : owed'[u] >= 0 /\ (Owing(u)' # {} => owed'[u] >= 1)
    <3>1. \A u \in Tickets : owed[u] >= 0 /\ (Owing(u) # {} => owed[u] >= 1)
      BY <1>3, <2>10 DEF Inv, MessagesTrail
    <3>2. lane[t] = "se"
      BY <1>2, <1>3, <1>8, <2>1, <2>10 DEF Role, WriteLane
    <3>3. owed'[t] >= 1 /\ owed'[t] >= 0
      BY <2>6, <2>8, <3>1, <3>2
    <3>q. QED
      BY <2>4, <2>7, <3>1, <3>3
  <2>q. QED
    BY <2>9, <2>10 DEF MessagesTrail
<1>9. ASSUME Tell(k), rec = NoTask
      PROVE  MessagesTrail'
  <2>1. PICK t \in Tickets : t = task[k].ticket
    BY <1>2, <1>9 DEF Tell, SlotOK
  <2>2. InDebt(task[k], t) /\ \A u : ~InDebt(rec, u)
    BY <1>2, <1>9, <2>1, NoTaskTyped DEF Tell, Role, InDebt
  <2>3. Owing(t)' = Owing(t) \ {k} /\ k \in Owing(t)
    BY <1>6, <2>2 DEF Owing
  <2>4. \A u \in Tickets \ {t} : Owing(u)' = Owing(u)
    BY <1>6, <2>2 DEF Owing, InDebt
  <2>5. Cardinality(Owing(t)') = Cardinality(Owing(t)) - 1 /\ Cardinality(Owing(t)) \in Nat
    BY <2>3, OwingFinite, FS_RemoveElement
  <2>6. owed' = [owed EXCEPT ![t] = @ - 1] /\ owed[t] \in Int
    BY <1>2, <1>9, <2>1 DEF Tell, RowOK
  <2>7. \A u \in Tickets \ {t} : owed'[u] = owed[u]
    BY <1>2, <2>6 DEF RowOK
  <2>8. owed'[t] = owed[t] - 1
    BY <1>2, <2>6 DEF RowOK
  <2>9. ASSUME faults' = 0
        PROVE  \A u \in Tickets : owed'[u] <= Cardinality(Owing(u)')
    <3>1. \A u \in Tickets : owed[u] <= Cardinality(Owing(u))
      BY <1>3, <2>9 DEF Inv, MessagesTrail
    <3>2. owed'[t] <= Cardinality(Owing(t)')
      BY <2>5, <2>6, <2>8, <3>1
    <3>q. QED
      BY <2>4, <2>7, <3>1, <3>2
  <2>10. ASSUME ~raced'
         PROVE  \A u \in Tickets : owed'[u] >= 0 /\ (Owing(u)' # {} => owed'[u] >= 1)
    <3>1. \A u \in Tickets : owed[u] >= 0 /\ (Owing(u) # {} => owed[u] >= 1)
      BY <1>3, <2>10 DEF Inv, MessagesTrail
    <3>2. owed'[t] >= 0
      BY <2>3, <2>6, <2>8, <3>1
    <3>3. \A j \in Tasks \ {k} : task[j].pc = "idle"
      BY <1>3, <2>10 DEF Inv, HandlersKnow, Alone
    <3>4. Owing(t)' = {}
      BY <2>3, <3>3 DEF Owing, InDebt
    <3>q. QED
      BY <2>4, <2>7, <3>1, <3>2, <3>4
  <2>q. QED
    BY <2>9, <2>10 DEF MessagesTrail
<1>10. ASSUME Fail(k), rec = NoTask
       PROVE  MessagesTrail'
  <2>1. owed' = owed /\ faults' # 0
    BY <1>2, <1>10 DEF Fail, row, Outage, BoundsOK
  <2>2. \A u : ~InDebt(rec, u)
    BY <1>10, NoTaskTyped DEF InDebt
  <2>3. \A u : Owing(u)' \subseteq Owing(u)
    BY <1>6, <2>2 DEF Owing
  <2>q. QED
    BY <1>3, <2>1, <2>3 DEF Inv, MessagesTrail
<1>11. MessagesTrail'
  BY <1>1, <1>7, <1>8, <1>9, <1>10
<1>q. QED
  BY <1>2, <1>4, <1>5, <1>11, TypeParts DEF Inv, TypeOK, RowOK, OutsideOK, Hook, TasksOK, BoundsOK

LEMMA WorldInv ==
  ASSUME Inv, World \/ Restart \/ UNCHANGED vars
  PROVE  Inv'
<1>1. /\ TypeOK /\ TasksOK /\ RowOK' /\ OutsideOK' /\ BoundsOK'
      /\ UNCHANGED <<lane, se, dev, owed>> /\ (raced => raced')
  BY WorldTables, TypeParts DEF Inv
<1>2. \A k \in Tasks : task'[k] \in {task[k], NoTask}
  BY DEF World, Restart, vars, Reassign, IgnoreHook, MarkBack, Retire, Fire
<1>3. task' \in [Tasks -> TaskRecord] /\ faults' = 0 => (faults = 0 /\ task' = task)
  <2>1. CASE Restart
    BY <1>1, <2>1, TypeParts DEF Restart, Outage, BoundsOK, Inv
  <2>2. CASE World \/ UNCHANGED vars
    BY <1>1, <2>2, TypeParts DEF World, vars, Reassign, IgnoreHook, MarkBack, Retire, Fire, Outage,
       BoundsOK, Inv
  <2>q. QED
    BY <2>1, <2>2
<1>4. TasksOK'
  <2>1. task' \in [Tasks -> TaskRecord]
    BY <1>1, NoTaskTyped DEF World, Restart, vars, Reassign, IgnoreHook, MarkBack, Retire, Fire,
       TasksOK
  <2>q. QED
    BY <1>1, <1>2, <2>1, NoTaskTyped DEF TasksOK
<1>5. HandlersKnow'
  <2>1. \A k \in Tasks : Role(task[k], lane, raced')
    BY <1>1 DEF Inv, HandlersKnow, Role
  <2>2. ~raced' => Alone'
    BY <1>1, <1>2, NoTaskTyped DEF Inv, HandlersKnow, Alone
  <2>q. QED
    BY <1>1, <1>2, <2>1, <2>2, NoTaskTyped DEF HandlersKnow
<1>6. \A t : Owing(t)' \subseteq Owing(t) /\ (task' = task => Owing(t)' = Owing(t))
  BY <1>2, NoTaskTyped DEF Owing, InDebt
<1>7. MessagesTrail'
  BY <1>1, <1>3, <1>4, <1>6 DEF Inv, MessagesTrail, TasksOK
<1>q. QED
  BY <1>1, <1>4, <1>5, <1>7, TypeParts DEF Inv, TypeOK, RowOK, OutsideOK, Hook, TasksOK, BoundsOK

LEMMA NextInv == Inv /\ [Next]_vars => Inv'
BY StartInv, StepInv, WorldInv DEF Next

\* Whatever races, fails or is lost, the owners are people of the right kind, and
\* every handler keeps the ticket and the absentee it works for.
THEOREM TypeCorrect == Spec => []TypeOK
<1>1. Inv => TypeOK
  BY DEF Inv
<1>q. QED
  BY <1>1, InitInv, NextInv, PTL DEF Spec

\* However many clicks overlap, a customer hears of every move to the dev lane, and
\* when none overlap, of those moves only.
THEOREM HandoffAlwaysTold == Spec => []HandoffTold
<1>1. Inv => HandoffTold
  <2>1. SUFFICES ASSUME Inv PROVE HandoffTold
    OBVIOUS
  <2>2. Idle => \A t \in Tickets : Owing(t) = {}
    BY DEF Idle, Owing, InDebt
  <2>q. QED
    BY <2>1, <2>2, FS_EmptySet DEF Inv, MessagesTrail, HandoffTold
<1>q. QED
  BY <1>1, InitInv, NextInv, PTL DEF Spec

\* Without an overlap, no change of assignee on the dev lane reaches the SE owner.
THEOREM SeOwnerAlwaysKept == Spec => SeOwnerKept
<1>1. ASSUME Inv, [Next]_vars, NEW t \in Tickets, ~raced', se'[t] # se[t], lane[t] = "dev"
      PROVE  \E k \in Tasks : task[k].kind \in {"select", "ooo"}
  <2>1. PICK k \in Tasks : WriteOwner(k)
    <3>1. se' # se
      BY <1>1
    <3>2. ~\E k \in Tasks : Start(k)
      BY <1>1, <3>1, StartTables DEF Inv
    <3>3. ~(World \/ Restart \/ UNCHANGED vars)
      BY <1>1, <3>1, WorldTables DEF Inv
    <3>4. PICK k \in Tasks : Step(k) \/ Fail(k)
      BY <1>1, <3>2, <3>3 DEF Next
    <3>q. QED
      BY <3>1, <3>4 DEF Step, Fail, WriteLane, PickDev, ReadAssignee, PostAssignee, Tell, Schedule,
         Upsert, ListOpen, MoveNext, CheckOwner, row
  <2>2. /\ task[k].pc = "owner" /\ task[k].field # "dev" /\ task[k].ticket = t
        /\ raced' = raced
    BY <1>1, <2>1, TypeParts DEF Inv, WriteOwner, RowOK
  <2>3. Role(task[k], lane, raced)
    BY <1>1 DEF Inv, HandlersKnow
  <2>q. QED
    BY <1>1, <2>2, <2>3 DEF Role, Kinds
<1>2. Inv /\ [Next]_vars =>
        [\A t \in Tickets : ~raced' /\ se'[t] # se[t] /\ lane[t] = "dev" =>
            \E k \in Tasks : task[k].kind \in {"select", "ooo"}]_vars
  BY <1>1
<1>q. QED
  BY <1>2, InitInv, NextInv, PTL DEF Spec, SeOwnerKept

-----------------------------------------------------------------------------
(* Handlers and webhooks one at a time: owners agree, absentees are left     *)
(* without tickets, and the settled owner is told.                         *)

NoDev(t) == lane[t] = "se" => dev[t] = None
Named(t) == assignee[t] \in People /\ Effective(t) \in Mapped => Effective(t) = assignee[t]

\* A ticket that is as it should be, or will be once its webhook has come.
Settled(t) == NoDev(t) /\ (Named(t) \/ [ticket |-> t, user |-> assignee[t]] \in hooks)

\* A handler that has yet to agree with Linear on its ticket.
Busy(r, t) == r.ticket = t /\ r.pc \in {"lane", "members", "owner", "assign", "post"}

\* What a handler has read is still true.
Knows(r) ==
  LET t == r.ticket IN
  /\ r.kind # "hook" => hooks = {}
  /\ r.kind \in {"select", "ooo"} => r.field = "se"
  /\ r.kind = "hook" => r.pc \in {"owner", "schedule"}
  /\ r.pc = "lane" => NoDev(t) /\ (r.kind = "to_se" => r.seen = dev[t] /\ r.owner = None)
  /\ r.pc = "members" => lane[t] = "dev"
  /\ r.pc = "owner" /\ r.kind = "to_dev" => lane[t] = "dev"
  /\ r.pc = "owner" /\ r.kind = "to_se" => r.owner = None
  /\ r.pc = "owner" /\ r.kind = "hook" => r.owner = assignee[t] /\ r.field = lane[t]
  /\ r.pc = "owner" /\ r.kind # "to_se" => NoDev(t)
  /\ r.pc \in {"assign", "post"} => NoDev(t)
  /\ r.pc = "post" => r.owner = Effective(t)

\* The live tickets an absentee still has are those the handler has yet to move.
Moving(r) ==
  /\ r.pc # "idle" /\ r.kind = "ooo" => r.field = "se"
  /\ r.pc = "list" => absence[r.absentee] # Present
  /\ r.pc \in {"next", "check", "owner", "assign", "post"} /\ r.kind = "ooo" =>
       /\ r.away = absence /\ absence[r.absentee] # Present
       /\ r.pc \in {"check", "owner"} => r.owner # r.absentee
       /\ \/ \A p \in SEs : absence[p] # Present
          \/ \A t \in live : se[t] = r.absentee =>
               t \in r.queue \/ (t = r.ticket /\ r.pc \in {"check", "owner"})

HooksFresh == \A h \in hooks : h.user = assignee[h.ticket]

\* A burst that began with an owner knows who held the ticket.
BurstKnows ==
  \A t \in Tickets : burst[t] # Quiet => burst[t].origin \in {None, burst[t].before}

AgreeInv ==
  /\ Inv /\ BurstKnows
  /\ ~raced /\ faults = 0 =>
       /\ HooksFresh
       /\ \A k \in Tasks : task[k].pc # "idle" => Knows(task[k])
       /\ \A t \in Tickets : Settled(t) \/ \E k \in Tasks : Busy(task[k], t)
  /\ ~raced => \A k \in Tasks : Moving(task[k])

\* A handler at work, and everything else as it should be.
Works(k) ==
  /\ HooksFresh /\ (task[k].pc # "idle" => Knows(task[k]))
  /\ \A t \in Tickets : Settled(t) \/ Busy(task[k], t)

LEMMA AgreeInit == Init => AgreeInv
<1> SUFFICES ASSUME Init PROVE AgreeInv
  OBVIOUS
<1>1. Inv /\ \A k \in Tasks : task[k].pc = "idle"
  BY InitInv, NoTaskTyped DEF Init
<1>2. BurstKnows /\ HooksFresh
  BY DEF Init, BurstKnows, HooksFresh
<1>3. \A t \in Tickets : Settled(t)
  BY DEF Init, Settled, NoDev, Named, Effective
<1>4. \A k \in Tasks : Moving(task[k])
  BY <1>1 DEF Moving
<1>q. QED
  BY <1>1, <1>2, <1>3, <1>4 DEF AgreeInv

\* What the steps of a handler have in common.
LEMMA AtWork ==
  ASSUME Inv, NEW k \in Tasks
  PROVE  /\ RowOK /\ OutsideOK /\ TasksOK /\ task \in [Tasks -> TaskRecord]
         /\ task[k] \in TaskRecord /\ SlotOK(task[k]) /\ Role(task[k], lane, raced)
BY TypeParts DEF Inv, TasksOK, HandlersKnow

\* The tickets whose row, assignee and webhook stay as they were.
LEMMA SettledKept ==
  ASSUME NEW t, lane'[t] = lane[t], dev'[t] = dev[t], se'[t] = se[t], assignee'[t] = assignee[t],
         hooks' = hooks
  PROVE  (Settled(t)' <=> Settled(t)) /\ (NoDev(t)' <=> NoDev(t)) /\ Effective(t)' = Effective(t)
BY DEF Settled, NoDev, Named, Effective

LEMMA AgreeLane ==
  ASSUME Inv, NEW k \in Tasks, WriteLane(k)
  PROVE  (Works(k) => Works(k)') /\ Moving(task[k])'
<1>1. PICK r \in TaskRecord : r = task[k]
  BY AtWork
<1>2. PICK s : s = task'[k]
  OBVIOUS
<1>3. PICK t \in Tickets : t = r.ticket
  BY <1>1, AtWork DEF WriteLane, SlotOK
<1>4. /\ r.pc = "lane" /\ r.kind \in {"to_dev", "to_se"}
      /\ UNCHANGED <<dev, se, assignee, hooks>>
      /\ lane' = [lane EXCEPT ![t] = IF r.kind = "to_dev" THEN "dev" ELSE "se"]
  BY <1>1, <1>3, AtWork DEF WriteLane, Role, outside
<1>5. /\ s.ticket = t /\ s.kind = r.kind /\ s.owner = r.owner
      /\ s.pc = IF r.kind = "to_dev" THEN "members" ELSE IF r.seen # None THEN "owner" ELSE "assign"
  BY <1>1, <1>2, <1>3, <1>4, AtWork DEF WriteLane, Goto, TaskRecord
<1>6. Moving(s)'
  BY <1>4, <1>5 DEF Moving
<1>7. ASSUME Works(k) PROVE Works(k)'
  <2>1. /\ Knows(r) /\ HooksFresh /\ HooksFresh' /\ Busy(s, t)
        /\ lane'[t] = IF r.kind = "to_dev" THEN "dev" ELSE "se"
        /\ \A u \in Tickets \ {t} : Settled(u) /\ lane'[u] = lane[u]
    BY <1>1, <1>3, <1>4, <1>5, <1>7, AtWork DEF Works, Busy, RowOK, HooksFresh
  <2>2. Knows(s)'
    BY <1>3, <1>4, <1>5, <2>1 DEF Knows, NoDev
  <2>3. \A u \in Tickets \ {t} : Settled(u)'
    BY <1>4, <2>1, SettledKept
  <2>q. QED
    BY <1>2, <2>1, <2>2, <2>3 DEF Works
<1>q. QED
  BY <1>2, <1>6, <1>7

LEMMA AgreePick ==
  ASSUME Inv, NEW k \in Tasks, PickDev(k)
  PROVE  (Works(k) => Works(k)') /\ Moving(task[k])'
<1>1. PICK r \in TaskRecord : r = task[k]
  BY AtWork
<1>2. PICK s : s = task'[k]
  OBVIOUS
<1>3. PICK t \in Tickets : t = r.ticket
  BY <1>1, AtWork DEF PickDev, SlotOK
<1>4. /\ r.pc = "members" /\ r.kind = "to_dev"
      /\ UNCHANGED <<lane, dev, se, assignee, hooks>>
  BY <1>1, AtWork DEF PickDev, Role, row, outside
<1>5. s.ticket = t /\ s.kind = r.kind /\ s.pc \in {"owner", "assign"}
  <2>1. PICK d : task' = IF d \in {None, r.seen} THEN [task EXCEPT ![k].pc = "assign"]
                         ELSE [task EXCEPT ![k].pc = "owner", ![k].owner = d]
    BY <1>1 DEF PickDev
  <2>2. CASE task' = [task EXCEPT ![k].pc = "assign"]
    BY <1>1, <1>2, <1>3, <2>2, AtWork DEF TaskRecord
  <2>3. CASE task' = [task EXCEPT ![k].pc = "owner", ![k].owner = d]
    <3>1. PICK rec : rec = [r EXCEPT !.pc = "owner", !.owner = d]
      OBVIOUS
    <3>2. s = rec
      BY <1>1, <1>2, <2>3, <3>1, AtWork
    <3>q. QED
      BY <1>1, <1>3, <3>1, <3>2 DEF TaskRecord
  <2>q. QED
    BY <2>1, <2>2, <2>3
<1>6. Moving(s)'
  BY <1>4, <1>5 DEF Moving
<1>7. ASSUME Works(k) PROVE Works(k)'
  <2>1. /\ Knows(r) /\ HooksFresh' /\ Busy(s, t)
        /\ \A u \in Tickets \ {t} : Settled(u)
    BY <1>1, <1>3, <1>4, <1>5, <1>7 DEF Works, Busy, HooksFresh
  <2>2. Knows(s)'
    BY <1>3, <1>4, <1>5, <2>1 DEF Knows, NoDev
  <2>3. \A u \in Tickets \ {t} : Settled(u)'
    BY <1>4, <2>1, SettledKept
  <2>q. QED
    BY <1>2, <2>1, <2>2, <2>3 DEF Works
<1>q. QED
  BY <1>2, <1>6, <1>7

LEMMA AgreeOwner ==
  ASSUME Inv, NEW k \in Tasks, WriteOwner(k)
  PROVE  (Works(k) => Works(k)') /\ (Moving(task[k]) => Moving(task[k])')
<1>1. PICK r \in TaskRecord : r = task[k]
  BY AtWork
<1>2. PICK s : s = task'[k]
  OBVIOUS
<1>3. PICK t \in Tickets : t = r.ticket
  BY <1>1, AtWork DEF WriteOwner, SlotOK
<1>4. /\ r.pc = "owner" /\ r.kind \in Kinds
      /\ r.kind \in {"to_dev", "to_se"} => r.field = "dev"
      /\ UNCHANGED <<lane, assignee, hooks, live, absence>>
      /\ dev' = IF r.field = "dev" THEN [dev EXCEPT ![t] = r.owner] ELSE dev
      /\ se' = IF r.field = "dev" THEN se ELSE [se EXCEPT ![t] = r.owner]
  BY <1>1, <1>3, AtWork DEF WriteOwner, Role, outside
<1>5. /\ s.ticket = t /\ s.kind = r.kind /\ s.field = r.field /\ s.absentee = r.absentee
      /\ s.away = r.away /\ s.queue = r.queue
      /\ s.pc = IF r.kind = "hook" THEN "schedule" ELSE "assign"
  BY <1>1, <1>2, <1>3, AtWork DEF WriteOwner, Goto, TaskRecord
<1>6. /\ dev'[t] = IF r.field = "dev" THEN r.owner ELSE dev[t]
      /\ se'[t] = IF r.field = "dev" THEN se[t] ELSE r.owner
      /\ \A u \in Tickets \ {t} : dev'[u] = dev[u] /\ se'[u] = se[u]
  BY <1>4, AtWork DEF RowOK
<1>7. ASSUME Moving(r) PROVE Moving(s)'
  <2>1. CASE r.kind # "ooo"
    BY <1>4, <1>5, <2>1 DEF Moving
  <2>2. CASE r.kind = "ooo"
    <3>1. /\ r.away = absence /\ absence[r.absentee] # Present /\ r.owner # r.absentee
          /\ r.field = "se"
          /\ \/ \A p \in SEs : absence[p] # Present
             \/ \A u \in live : se[u] = r.absentee => u \in r.queue \/ u = t
      BY <1>3, <1>4, <1>7, <2>2 DEF Moving
    <3>2. live \subseteq Tickets
      BY AtWork DEF OutsideOK
    <3>3. /\ \/ \A p \in SEs : absence'[p] # Present
             \/ \A u \in live' : se'[u] = s.absentee => u \in s.queue
      BY <1>4, <1>5, <1>6, <3>1, <3>2
    <3>q. QED
      BY <1>4, <1>5, <2>2, <3>1, <3>3 DEF Moving
  <2>q. QED
    BY <2>1, <2>2
<1>8. ASSUME Works(k) PROVE Works(k)'
  <2>1. /\ Knows(r) /\ HooksFresh' /\ \A u \in Tickets \ {t} : Settled(u)
    BY <1>1, <1>3, <1>4, <1>8 DEF Works, Busy, HooksFresh
  <2>2. NoDev(t)'
    BY <1>3, <1>4, <1>6, <2>1 DEF Knows, NoDev, Kinds
  <2>3. Knows(s)'
    BY <1>3, <1>4, <1>5, <2>1, <2>2 DEF Knows, Kinds
  <2>4. \A u \in Tickets \ {t} : Settled(u)'
    BY <1>4, <1>6, <2>1, SettledKept
  <2>5. CASE r.kind = "hook"
    <3>1. r.owner = assignee[t] /\ r.field = lane[t] /\ NoDev(t) /\ lane[t] \in Lanes
      BY <1>3, <1>4, <2>1, <2>5, AtWork DEF Knows, RowOK
    <3>2. Named(t)'
      <4>1. CASE lane[t] = "dev"
        BY <1>4, <1>6, <3>1, <4>1, ConstantsAssumption DEF Named, Effective, People
      <4>2. CASE lane[t] = "se"
        BY <1>4, <1>6, <3>1, <4>2 DEF Named, Effective, NoDev
      <4>q. QED
        BY <3>1, <4>1, <4>2 DEF Lanes
    <3>q. QED
      BY <1>2, <2>1, <2>2, <2>3, <2>4, <3>2 DEF Works, Settled
  <2>6. CASE r.kind # "hook"
    <3>1. Busy(s, t)
      BY <1>5, <2>6 DEF Busy
    <3>q. QED
      BY <1>2, <2>1, <2>3, <2>4, <3>1 DEF Works
  <2>q. QED
    BY <2>5, <2>6
<1>q. QED
  BY <1>1, <1>2, <1>7, <1>8

LEMMA AgreeRead ==
  ASSUME Inv, NEW k \in Tasks, ReadAssignee(k)
  PROVE  (Works(k) => Works(k)') /\ (Moving(task[k]) => Moving(task[k])')
<1>1. PICK r \in TaskRecord : r = task[k]
  BY AtWork
<1>2. PICK s : s = task'[k]
  OBVIOUS
<1>3. PICK t \in Tickets : t = r.ticket
  BY <1>1, AtWork DEF ReadAssignee, SlotOK
<1>4. r.pc = "assign" /\ UNCHANGED <<lane, dev, se, assignee, hooks, live, absence>>
  BY <1>1 DEF ReadAssignee, row, outside
<1>5. /\ s.ticket = t /\ s.kind = r.kind /\ s.field = r.field /\ s.absentee = r.absentee
      /\ s.away = r.away /\ s.queue = r.queue /\ s.pc = "post" /\ s.owner = Effective(t)
  <2>1. PICK rec : rec = [r EXCEPT !.pc = "post", !.owner = Effective(t)]
    OBVIOUS
  <2>2. s = rec
    BY <1>1, <1>2, <1>3, <2>1, AtWork DEF ReadAssignee
  <2>q. QED
    BY <1>3, <2>1, <2>2 DEF TaskRecord
<1>6. Moving(r) => Moving(s)'
  BY <1>3, <1>4, <1>5 DEF Moving
<1>7. ASSUME Works(k) PROVE Works(k)'
  <2>1. /\ Knows(r) /\ HooksFresh' /\ Busy(s, t) /\ \A u \in Tickets \ {t} : Settled(u)
    BY <1>1, <1>3, <1>4, <1>5, <1>7 DEF Works, Busy, HooksFresh
  <2>2. Knows(s)'
    BY <1>3, <1>4, <1>5, <2>1 DEF Knows, NoDev, Effective
  <2>3. \A u \in Tickets \ {t} : Settled(u)'
    BY <1>4, <2>1, SettledKept
  <2>q. QED
    BY <1>2, <2>1, <2>2, <2>3 DEF Works
<1>q. QED
  BY <1>1, <1>2, <1>6, <1>7

LEMMA AgreePost ==
  ASSUME Inv, NEW k \in Tasks, PostAssignee(k)
  PROVE  /\ faults' = faults /\ faults \in Nat /\ Works(k) => Works(k)'
         /\ Moving(task[k]) => Moving(task[k])'
<1>1. PICK r \in TaskRecord : r = task[k]
  BY AtWork
<1>2. PICK s : s = task'[k]
  OBVIOUS
<1>3. PICK t \in Tickets : t = r.ticket
  BY <1>1, AtWork DEF PostAssignee, SlotOK
<1>4. r.pc = "post" /\ UNCHANGED <<lane, dev, se, hooks, live, absence>>
  BY <1>1 DEF PostAssignee, row, outside
<1>5. /\ \/ s.pc = "idle"
         \/ s.pc = "tell" /\ s.kind = r.kind /\ r.kind = "to_dev"
         \/ s.pc = "next" /\ s.kind = r.kind /\ r.kind = "ooo"
      /\ s.pc # "idle" => s.ticket = t /\ s.field = r.field /\ s.absentee = r.absentee
                          /\ s.away = r.away /\ s.queue = r.queue
  <2>1. PICK rec : rec = AfterPush(k)
    OBVIOUS
  <2>2. s = rec
    BY <1>2, <2>1, AtWork DEF PostAssignee, FinishPush
  <2>3. CASE r.kind = "to_dev" /\ r.changed
    BY <1>1, <1>3, <2>1, <2>2, <2>3 DEF AfterPush, TaskRecord
  <2>4. CASE r.kind = "ooo"
    BY <1>1, <1>3, <2>1, <2>2, <2>4 DEF AfterPush, TaskRecord
  <2>5. CASE ~(r.kind = "to_dev" /\ r.changed) /\ r.kind # "ooo"
    BY <1>1, <2>1, <2>2, <2>5, NoTaskTyped DEF AfterPush
  <2>q. QED
    BY <2>3, <2>4, <2>5
<1>6. Moving(r) => Moving(s)'
  BY <1>3, <1>4, <1>5 DEF Moving
<1>7. ASSUME faults' = faults, faults \in Nat, Works(k) PROVE Works(k)'
  <2>1. /\ Knows(r) /\ hooks = {} /\ HooksFresh' /\ \A u \in Tickets \ {t} : Settled(u)
    BY <1>1, <1>3, <1>4, <1>7 DEF Works, Busy, HooksFresh, Knows
  <2>2. assignee' = [assignee EXCEPT ![t] = IF r.owner \in Mapped THEN r.owner ELSE @]
    BY <1>1, <1>3, <1>7 DEF PostAssignee, Outage
  <2>3. /\ assignee'[t] = IF r.owner \in Mapped THEN r.owner ELSE assignee[t]
        /\ \A u \in Tickets \ {t} : assignee'[u] = assignee[u]
    BY <2>2, AtWork DEF OutsideOK
  <2>4. NoDev(t) /\ r.owner = Effective(t)
    BY <1>3, <1>4, <2>1 DEF Knows
  <2>5. Settled(t)'
    BY <1>4, <2>3, <2>4 DEF Settled, NoDev, Named, Effective
  <2>6. \A u \in Tickets \ {t} : Settled(u)'
    BY <1>4, <2>1, <2>3, SettledKept
  <2>7. s.pc # "idle" => Knows(s)'
    BY <1>4, <1>5, <2>1 DEF Knows
  <2>q. QED
    BY <1>2, <2>1, <2>5, <2>6, <2>7 DEF Works
<1>q. QED
  BY <1>1, <1>2, <1>6, <1>7

\* An absentee is not the one a ticket is rerouted to, unless nobody is in.
LEMMA RerouteLeaves ==
  ASSUME NEW away \in [SEs -> SEs \cup {None, Present}], NEW s \in SEs, away[s] # Present,
         NEW target \in Reroute(s, away)
  PROVE  target # s \/ \A p \in SEs : away[p] # Present
<1>1. CASE away[s] # None /\ away[away[s]] = Present
  BY <1>1 DEF Reroute
<1>2. CASE ~(away[s] # None /\ away[away[s]] = Present)
  <2>1. PICK p \in Pick(away) : target = IF p = None THEN s ELSE p
    BY <1>2 DEF Reroute
  <2>2. CASE {q \in SEs : away[q] = Present} = {}
    BY <2>2
  <2>3. CASE {q \in SEs : away[q] = Present} # {}
    <3>1. p \in SEs /\ away[p] = Present
      BY <2>1, <2>3 DEF Pick, LeastLoaded
    <3>q. QED
      BY <2>1, <3>1, ConstantsAssumption
  <2>q. QED
    BY <2>2, <2>3
<1>q. QED
  BY <1>1, <1>2

\* The steps that neither write a row nor push.
LEMMA AgreeCalm ==
  ASSUME Inv, NEW k \in Tasks, NEW r, r = task[k], NEW s, s = task'[k],
         UNCHANGED <<lane, dev, se, assignee, hooks>>,
         r.pc \notin {"idle", "lane", "members", "owner", "assign", "post"},
         s.pc \in {"idle", "list", "next", "check", "owner"},
         s.pc # "idle" => s.kind = r.kind /\ s.field = r.field /\ r.kind = "ooo",
         s.pc = "owner" => s.ticket \in Tickets,
         Works(k)
  PROVE  Works(k)'
<1>1. \A u \in Tickets : Settled(u) /\ Settled(u)'
  BY SettledKept DEF Works, Busy
<1>2. HooksFresh'
  BY DEF Works, HooksFresh
<1>3. s.pc # "idle" => Knows(s)'
  BY <1>1 DEF Works, Knows, Settled
<1>q. QED
  BY <1>1, <1>2, <1>3 DEF Works

LEMMA AgreeEnd ==
  ASSUME Inv, NEW k \in Tasks, Tell(k) \/ Schedule(k)
  PROVE  (Works(k) => Works(k)') /\ Moving(task[k])'
<1>1. /\ UNCHANGED <<lane, dev, se, assignee, hooks>> /\ task[k].pc \in {"tell", "schedule"}
      /\ task'[k].pc = "idle"
  BY AtWork, NoTaskTyped DEF Tell, Schedule, row, outside
<1>2. Moving(task[k])'
  BY <1>1 DEF Moving
<1>q. QED
  BY <1>1, <1>2, AgreeCalm

LEMMA AgreeAway ==
  ASSUME Inv, NEW k \in Tasks, Upsert(k) \/ ListOpen(k)
  PROVE  (Works(k) => Works(k)') /\ (Moving(task[k]) => Moving(task[k])')
<1>1. PICK r \in TaskRecord : r = task[k]
  BY AtWork
<1>2. PICK s : s = task'[k]
  OBVIOUS
<1>3. /\ UNCHANGED <<lane, dev, se, assignee, hooks, live>> /\ r.pc \in {"upsert", "list"}
      /\ r.kind = "ooo" /\ r.absentee \in SEs
      /\ absence \in [SEs -> SEs \cup {None, Present}]
  BY <1>1, AtWork DEF Upsert, ListOpen, row, outside, SlotOK, OutsideOK
<1>4. CASE Upsert(k)
  <2>1. /\ s.pc = "idle" \/ s = [r EXCEPT !.pc = "list"]
        /\ absence' = [absence EXCEPT ![r.absentee] = r.owner]
        /\ r.owner \in SEs \cup {None}
    BY <1>1, <1>2, <1>4, AtWork, NoTaskTyped DEF Upsert, SlotOK
  <2>2. s.pc # "idle" => /\ s.pc = "list" /\ s.kind = r.kind /\ s.field = r.field
                         /\ s.absentee = r.absentee
    BY <2>1 DEF TaskRecord
  <2>3. absence'[r.absentee] # Present
    BY <1>3, <2>1, ConstantsAssumption
  <2>4. Moving(r) => Moving(s)'
    BY <1>3, <2>2, <2>3 DEF Moving
  <2>5. s.pc \in {"idle", "list"}
    BY <2>2
  <2>q. QED
    BY <1>1, <1>2, <1>3, <2>2, <2>4, <2>5, AgreeCalm
<1>5. CASE ListOpen(k)
  <2>1. PICK queue : queue = {t \in live : se[t] = r.absentee}
    OBVIOUS
  <2>2. PICK rec : rec = [r EXCEPT !.pc = "next", !.away = absence, !.queue = queue]
    OBVIOUS
  <2>3. s = rec /\ absence' = absence /\ r.pc = "list"
    BY <1>1, <1>2, <1>5, <2>1, <2>2, AtWork DEF ListOpen, outside
  <2>4. /\ s.pc = "next" /\ s.kind = r.kind /\ s.field = r.field /\ s.absentee = r.absentee
        /\ s.away = absence /\ s.queue = queue
    BY <2>2, <2>3 DEF TaskRecord
  <2>5. Moving(r) => Moving(s)'
    BY <1>3, <2>1, <2>3, <2>4 DEF Moving
  <2>q. QED
    BY <1>1, <1>2, <1>3, <2>4, <2>5, AgreeCalm
<1>q. QED
  BY <1>4, <1>5

LEMMA AgreeMove ==
  ASSUME Inv, NEW k \in Tasks, MoveNext(k)
  PROVE  (Works(k) => Works(k)') /\ (Moving(task[k]) => Moving(task[k])')
<1>1. PICK r \in TaskRecord : r = task[k]
  BY AtWork
<1>2. PICK s : s = task'[k]
  OBVIOUS
<1>3. /\ UNCHANGED <<lane, dev, se, assignee, hooks, live, absence>> /\ r.pc = "next"
      /\ r.kind = "ooo" /\ r.absentee \in SEs
      /\ r.away \in [SEs -> SEs \cup {None, Present}]
  BY <1>1, AtWork DEF MoveNext, row, outside, SlotOK, TaskRecord
<1>4. CASE s.pc = "idle"
  BY <1>1, <1>2, <1>3, <1>4, AgreeCalm DEF Moving
<1>5. CASE s.pc # "idle"
  <2>1. PICK t \in r.queue, target \in Reroute(r.absentee, r.away) :
          task' = [task EXCEPT ![k].queue = @ \ {t}, ![k].ticket = t, ![k].owner = target,
                               ![k].pc = IF target = r.absentee THEN "next" ELSE "check"]
    <3>1. task' # [task EXCEPT ![k] = NoTask]
      BY <1>2, <1>5, AtWork, NoTaskTyped
    <3>2. \E t \in task[k].queue, target \in Reroute(task[k].absentee, task[k].away) :
            task' = [task EXCEPT ![k].queue = @ \ {t}, ![k].ticket = t, ![k].owner = target,
                                 ![k].pc = IF target = task[k].absentee THEN "next" ELSE "check"]
      BY <3>1 DEF MoveNext
    <3>q. QED
      BY <1>1, <3>2
  <2>2. PICK pc \in {"next", "check"} : pc = IF target = r.absentee THEN "next" ELSE "check"
    OBVIOUS
  <2>3. PICK rec : rec = [r EXCEPT !.queue = @ \ {t}, !.ticket = t, !.owner = target, !.pc = pc]
    OBVIOUS
  <2>4. s = rec
    BY <1>1, <1>2, <2>1, <2>2, <2>3, AtWork
  <2>5. /\ s.pc = pc /\ s.kind = r.kind /\ s.field = r.field /\ s.absentee = r.absentee
        /\ s.away = r.away /\ s.queue = r.queue \ {t} /\ s.ticket = t /\ s.owner = target
    BY <2>3, <2>4 DEF TaskRecord
  <2>6. ASSUME Moving(r) PROVE Moving(s)'
    <3>1. r.away = absence /\ r.away[r.absentee] # Present /\ r.field = "se"
      BY <1>3, <2>6 DEF Moving
    <3>2. target # r.absentee \/ \A p \in SEs : absence[p] # Present
      BY <1>3, <3>1, RerouteLeaves
    <3>3. \/ \A p \in SEs : absence[p] # Present
          \/ \A u \in live : se[u] = r.absentee => u \in r.queue
      BY <1>3, <2>6 DEF Moving
    <3>q. QED
      BY <1>3, <2>2, <2>5, <3>1, <3>2, <3>3 DEF Moving
  <2>7. Works(k) => Works(k)'
    BY <1>1, <1>2, <1>3, <2>5, AgreeCalm
  <2>q. QED
    BY <1>1, <1>2, <2>6, <2>7
<1>q. QED
  BY <1>4, <1>5

LEMMA AgreeCheck ==
  ASSUME Inv, NEW k \in Tasks, CheckOwner(k)
  PROVE  (Works(k) => Works(k)') /\ (Moving(task[k]) => Moving(task[k])')
<1>1. PICK r \in TaskRecord : r = task[k]
  BY AtWork
<1>2. PICK s : s = task'[k]
  OBVIOUS
<1>3. /\ UNCHANGED <<lane, dev, se, assignee, hooks, live, absence>> /\ r.pc = "check"
      /\ r.kind = "ooo" /\ r.ticket \in Tickets
  BY <1>1, AtWork DEF CheckOwner, row, outside, SlotOK
<1>4. /\ s.pc = IF se[r.ticket] = r.owner THEN "next" ELSE "owner"
      /\ s.kind = r.kind /\ s.field = r.field /\ s.absentee = r.absentee /\ s.owner = r.owner
      /\ s.away = r.away /\ s.queue = r.queue /\ s.ticket = r.ticket
  BY <1>1, <1>2, AtWork DEF CheckOwner, Goto, TaskRecord
<1>5. Moving(r) => Moving(s)'
  BY <1>3, <1>4 DEF Moving
<1>6. Works(k) => Works(k)'
  BY <1>1, <1>2, <1>3, <1>4, AgreeCalm
<1>q. QED
  BY <1>1, <1>2, <1>5, <1>6

\* A handler at work knows enough for its next step to keep the agreement.
LEMMA WorksAlone ==
  ASSUME AgreeInv, NEW k \in Tasks, task[k].pc # "idle", ~raced
  PROVE  /\ \A j \in Tasks \ {k} : task[j].pc = "idle"
         /\ faults = 0 => Works(k)
<1>1. \A j \in Tasks \ {k} : task[j].pc = "idle"
  BY DEF AgreeInv, Inv, HandlersKnow, Alone
<1>q. QED
  BY <1>1 DEF AgreeInv, Works, Busy

\* The burst a step leaves behind.
LEMMA StepBurst ==
  ASSUME Inv, BurstKnows, NEW k \in Tasks, Step(k) \/ Fail(k)
  PROVE  BurstKnows' /\ \A t \in Tickets : burst[t] # Quiet => burst'[t] # Quiet
<1>1. /\ burst \in [Tickets -> Burst \cup {Quiet}] /\ SlotOK(task[k])
      /\ RowOK /\ task[k] \in TaskRecord
  BY AtWork DEF OutsideOK
<1>2. CASE Schedule(k)
  <2>1. PICK t \in Tickets : t = task[k].ticket
    BY <1>1, <1>2 DEF Schedule, SlotOK
  <2>2. PICK b : b = NewBurst(k)
    OBVIOUS
  <2>3. b.origin \in {None, b.before}
    BY <2>2 DEF NewBurst
  <2>4. burst' = [burst EXCEPT ![t] = IF @ = Quiet THEN b ELSE @]
    BY <1>2, <2>1, <2>2 DEF Schedule
  <2>5. \A u \in Tickets : burst'[u] = IF u = t /\ burst[t] = Quiet THEN b ELSE burst[u]
    BY <1>1, <2>4
  <2>6. BurstKnows'
    BY <2>3, <2>5 DEF BurstKnows
  <2>7. \A u \in Tickets : burst[u] # Quiet => burst'[u] # Quiet
    BY <2>5
  <2>q. QED
    BY <2>6, <2>7
<1>3. CASE ~Schedule(k)
  <2>1. burst' = burst
    BY <1>3 DEF Step, Fail, WriteLane, PickDev, WriteOwner, ReadAssignee, PostAssignee, Tell,
       Upsert, ListOpen, MoveNext, CheckOwner, outside
  <2>q. QED
    BY <2>1 DEF BurstKnows
<1>q. QED
  BY <1>2, <1>3

LEMMA AgreeStep ==
  ASSUME AgreeInv, NEW k \in Tasks, Step(k) \/ Fail(k)
  PROVE  AgreeInv'
<1>1. Inv /\ Inv' /\ BurstKnows'
  BY StepInv, StepBurst DEF AgreeInv
<1>2. /\ raced' = raced /\ task[k].pc # "idle" /\ faults \in Nat
      /\ faults' = 0 => faults = 0 /\ faults' = faults
  <2>1. raced' = raced /\ task[k].pc # "idle" /\ (faults' = faults \/ Outage)
    BY DEF Step, Fail, WriteLane, PickDev, WriteOwner, ReadAssignee, PostAssignee, Tell, Schedule,
       Upsert, ListOpen, MoveNext, CheckOwner, outside
  <2>2. faults \in Nat
    BY <1>1 DEF Inv, TypeOK
  <2>q. QED
    BY <2>1, <2>2 DEF Outage
<1>3. \A j \in Tasks \ {k} : task'[j] = task[j]
  BY <1>1, StepRecord DEF Inv, TypeOK
<1>4. /\ faults' = faults /\ Step(k) /\ Works(k) => Works(k)'
      /\ Moving(task[k]) => Moving(task[k])'
  <2>1. CASE Fail(k)
    <3>1. task'[k].pc = "idle" /\ (faults' # faults \/ ~Step(k))
      BY <1>1, <1>2, <2>1, NoTaskTyped DEF Fail, Outage, Inv, TypeOK
    <3>q. QED
      BY <1>2, <2>1, <3>1 DEF Moving, Fail, Outage
  <2>2. CASE Step(k)
    BY <1>1, <1>2, <2>2, AgreeLane, AgreePick, AgreeOwner, AgreeRead, AgreePost, AgreeEnd, AgreeAway,
       AgreeMove, AgreeCheck DEF Step
  <2>q. QED
    BY <2>1, <2>2
<1>5. ASSUME ~raced' PROVE \A j \in Tasks : Moving(task[j])'
  <2>1. \A j \in Tasks \ {k} : task'[j].pc = "idle"
    BY <1>2, <1>3, <1>5, WorksAlone
  <2>2. \A j \in Tasks \ {k} : Moving(task[j])'
    BY <2>1 DEF Moving
  <2>3. Moving(task[k])
    BY <1>2, <1>5 DEF AgreeInv
  <2>q. QED
    BY <1>4, <2>2, <2>3
<1>6. ASSUME ~raced', faults' = 0
      PROVE  /\ HooksFresh'
             /\ \A j \in Tasks : task'[j].pc # "idle" => Knows(task[j])'
             /\ \A t \in Tickets : Settled(t)' \/ \E j \in Tasks : Busy(task'[j], t)
  <2>1. Works(k) /\ \A j \in Tasks \ {k} : task'[j].pc = "idle"
    BY <1>2, <1>3, <1>6, WorksAlone
  <2>2. Step(k)
    BY <1>2, <1>6 DEF Fail, Outage
  <2>3. Works(k)'
    BY <1>2, <1>4, <1>6, <2>1, <2>2
  <2>q. QED
    BY <2>1, <2>3 DEF Works
<1>q. QED
  BY <1>1, <1>5, <1>6 DEF AgreeInv

\* What a click or a submission reads when everything else is done.
LEMMA ClickKnows ==
  ASSUME Inv, NEW k \in Tasks, NEW rec, Begin(k, rec), ~raced', rec.kind # "hook",
         UNCHANGED <<row, outside, assignee>>
  PROVE  hooks = {} /\ ((\A t \in Tickets : Settled(t)) =>
                          \A t \in Tickets : Settled(t)' /\ NoDev(t) /\ NoDev(t)')
<1>1. hooks = {} /\ UNCHANGED <<lane, dev, se, assignee, hooks>>
  BY DEF Begin, row, outside
<1>q. QED
  BY <1>1, SettledKept DEF Settled

LEMMA StartKnows ==
  ASSUME Inv, NEW k \in Tasks, Start(k), ~raced'
  PROVE  \E rec :
           /\ task' = [task EXCEPT ![k] = rec] /\ Moving(rec)'
           /\ HooksFresh /\ (\A t \in Tickets : Settled(t)) =>
                /\ Knows(rec)' /\ HooksFresh'
                /\ \A t \in Tickets : Settled(t)' \/ Busy(rec, t)
<1>1. /\ RowOK /\ OutsideOK /\ NoTask \in TaskRecord /\ NoTask.owner = None /\ NoTask.seen = None
      /\ NoTask.field = "se"
  BY TypeParts, NoTaskTyped DEF Inv, NoTask
<1>2. CASE \E t \in Tickets : MoveToDev(k, t)
  <2>1. PICK t \in Tickets : MoveToDev(k, t)
    BY <1>2
  <2>2. PICK pc \in {"lane", "members"}, changed \in BOOLEAN :
          /\ pc = IF lane[t] = "se" THEN "lane" ELSE "members"
          /\ changed = (lane[t] = "se")
    OBVIOUS
  <2>3. PICK rec : rec = [NoTask EXCEPT !.kind = "to_dev", !.ticket = t, !.field = "dev",
                            !.seen = dev[t], !.changed = changed, !.pc = pc]
    OBVIOUS
  <2>4. /\ Begin(k, rec) /\ UNCHANGED <<row, outside, assignee>>
    BY <2>1, <2>2, <2>3 DEF MoveToDev
  <2>5. rec.pc = pc /\ rec.kind = "to_dev" /\ rec.ticket = t
    BY <1>1, <2>3 DEF TaskRecord
  <2>6. lane' = lane /\ hooks' = hooks /\ lane[t] \in Lanes
    BY <1>1, <2>4 DEF row, outside, RowOK
  <2>7. Moving(rec)'
    BY <2>5 DEF Moving
  <2>8. ASSUME \A u \in Tickets : Settled(u)
        PROVE  Knows(rec)' /\ HooksFresh' /\ \A u \in Tickets : Settled(u)'
    <3>1. hooks = {} /\ \A u \in Tickets : Settled(u)' /\ NoDev(u)'
      BY <2>4, <2>5, <2>8, ClickKnows
    <3>q. QED
      BY <2>2, <2>5, <2>6, <3>1 DEF Knows, HooksFresh, Lanes
  <2>q. QED
    BY <2>4, <2>7, <2>8 DEF Begin
<1>3. CASE \E t \in Tickets : ReturnToSe(k, t)
  <2>1. PICK t \in Tickets : ReturnToSe(k, t)
    BY <1>3
  <2>2. PICK pc \in {"lane", "owner", "assign"} :
          pc = IF lane[t] = "dev" THEN "lane" ELSE IF dev[t] # None THEN "owner" ELSE "assign"
    OBVIOUS
  <2>3. PICK rec : rec = [NoTask EXCEPT !.kind = "to_se", !.ticket = t, !.field = "dev",
                            !.seen = dev[t], !.pc = pc]
    OBVIOUS
  <2>4. Begin(k, rec) /\ UNCHANGED <<row, outside, assignee>>
    BY <2>1, <2>2, <2>3 DEF ReturnToSe
  <2>5. rec.pc = pc /\ rec.kind = "to_se" /\ rec.ticket = t /\ rec.seen = dev[t] /\ rec.owner = None
    BY <1>1, <2>3 DEF TaskRecord
  <2>6. dev' = dev /\ hooks' = hooks
    BY <2>4 DEF row, outside
  <2>7. Moving(rec)'
    BY <2>5 DEF Moving
  <2>8. ASSUME \A u \in Tickets : Settled(u)
        PROVE  Knows(rec)' /\ HooksFresh' /\ \A u \in Tickets : Settled(u)'
    <3>1. hooks = {} /\ \A u \in Tickets : Settled(u)' /\ NoDev(u)'
      BY <2>4, <2>5, <2>8, ClickKnows
    <3>q. QED
      BY <2>5, <2>6, <3>1 DEF Knows, HooksFresh
  <2>q. QED
    BY <2>4, <2>7, <2>8 DEF Begin
<1>4. CASE \E t \in Tickets, s \in SEs : SetSeOwner(k, t, s)
  <2>1. PICK t \in Tickets, s \in SEs : SetSeOwner(k, t, s)
    BY <1>4
  <2>2. PICK rec : rec = [NoTask EXCEPT !.kind = "select", !.ticket = t, !.owner = s, !.pc = "owner"]
    OBVIOUS
  <2>3. Begin(k, rec) /\ UNCHANGED <<row, outside, assignee>>
    BY <2>1, <2>2 DEF SetSeOwner
  <2>4. rec.pc = "owner" /\ rec.kind = "select" /\ rec.ticket = t /\ rec.field = "se"
    BY <1>1, <2>2 DEF TaskRecord
  <2>5. hooks' = hooks
    BY <2>3 DEF outside
  <2>6. Moving(rec)'
    BY <2>4 DEF Moving
  <2>7. ASSUME \A u \in Tickets : Settled(u)
        PROVE  Knows(rec)' /\ HooksFresh' /\ \A u \in Tickets : Settled(u)'
    <3>1. hooks = {} /\ \A u \in Tickets : Settled(u)' /\ NoDev(u)'
      BY <2>3, <2>4, <2>7, ClickKnows
    <3>q. QED
      BY <2>4, <2>5, <3>1 DEF Knows, HooksFresh
  <2>q. QED
    BY <2>3, <2>6, <2>7 DEF Begin
<1>5. CASE \E s \in SEs, c \in SEs \cup {None}, move \in BOOLEAN : SubmitOoo(k, s, c, move)
  <2>1. PICK s \in SEs, c \in SEs \cup {None}, move \in BOOLEAN : SubmitOoo(k, s, c, move)
    BY <1>5
  <2>2. PICK rec : rec = [NoTask EXCEPT !.kind = "ooo", !.absentee = s, !.owner = c,
                            !.changed = move, !.pc = "upsert"]
    OBVIOUS
  <2>3. Begin(k, rec) /\ UNCHANGED <<row, outside, assignee>>
    BY <2>1, <2>2 DEF SubmitOoo
  <2>4. rec.pc = "upsert" /\ rec.kind = "ooo" /\ rec.field = "se"
    BY <1>1, <2>2 DEF TaskRecord
  <2>5. hooks' = hooks
    BY <2>3 DEF outside
  <2>6. Moving(rec)'
    BY <2>4 DEF Moving
  <2>7. ASSUME \A u \in Tickets : Settled(u)
        PROVE  Knows(rec)' /\ HooksFresh' /\ \A u \in Tickets : Settled(u)'
    <3>1. hooks = {} /\ \A u \in Tickets : Settled(u)' /\ NoDev(u)'
      BY <2>3, <2>4, <2>7, ClickKnows
    <3>q. QED
      BY <2>4, <2>5, <3>1 DEF Knows, HooksFresh
  <2>q. QED
    BY <2>3, <2>6, <2>7 DEF Begin
<1>6. CASE \E h \in hooks : Receive(k, h)
  <2>1. PICK h \in hooks : Receive(k, h)
    BY <1>6
  <2>2. PICK t \in Tickets : t = h.ticket
    BY <1>1, <2>1 DEF OutsideOK, Hook
  <2>3. PICK rec : rec = [NoTask EXCEPT !.kind = "hook", !.ticket = t, !.field = lane[t],
                            !.owner = h.user, !.seen = Column(t), !.pc = "owner"]
    OBVIOUS
  <2>4. /\ Begin(k, rec) /\ hooks' \in {hooks, hooks \ {h}}
        /\ UNCHANGED <<lane, dev, se, assignee>>
    BY <2>1, <2>2, <2>3 DEF Receive, row
  <2>5. /\ rec.pc = "owner" /\ rec.kind = "hook" /\ rec.ticket = t /\ rec.field = lane[t]
        /\ rec.owner = h.user
    BY <1>1, <2>3 DEF TaskRecord
  <2>6. Moving(rec)'
    BY <2>5 DEF Moving
  <2>7. ASSUME HooksFresh, \A u \in Tickets : Settled(u)
        PROVE  Knows(rec)' /\ HooksFresh' /\ \A u \in Tickets \ {t} : Settled(u)'
    <3>1. h.user = assignee[t] /\ HooksFresh'
      BY <2>1, <2>2, <2>4, <2>7 DEF HooksFresh
    <3>2. NoDev(t)'
      BY <2>2, <2>4, <2>7 DEF Settled, NoDev
    <3>3. ASSUME NEW u \in Tickets \ {t}
          PROVE  Settled(u)'
      <4>1. ASSUME [ticket |-> u, user |-> assignee[u]] \in hooks
            PROVE  [ticket |-> u, user |-> assignee[u]] \in hooks'
        <5>1. PICK g : g = [ticket |-> u, user |-> assignee[u]]
          OBVIOUS
        <5>2. g.ticket # h.ticket
          BY <2>2, <3>3, <5>1
        <5>q. QED
          BY <2>4, <4>1, <5>1, <5>2
      <4>2. Settled(u)
        BY <2>7
      <4>q. QED
        BY <2>4, <4>1, <4>2 DEF Settled, NoDev, Named, Effective
    <3>q. QED
      BY <2>4, <2>5, <3>1, <3>2, <3>3 DEF Knows
  <2>q. QED
    BY <2>4, <2>5, <2>6, <2>7 DEF Begin, Busy
<1>q. QED
  BY <1>2, <1>3, <1>4, <1>5, <1>6 DEF Start

LEMMA AgreeStart ==
  ASSUME AgreeInv, NEW k \in Tasks, Start(k)
  PROVE  AgreeInv'
<1>1. Inv /\ Inv' /\ faults' = faults
  BY StartInv, StartTables DEF AgreeInv, Inv
<1>2. BurstKnows'
  <2>1. burst' = burst
    BY DEF Start, MoveToDev, ReturnToSe, SetSeOwner, SubmitOoo, Receive, outside
  <2>q. QED
    BY <2>1 DEF AgreeInv, BurstKnows
<1>3. ASSUME ~raced'
      PROVE  /\ \A j \in Tasks : Moving(task[j])'
             /\ faults' = 0 =>
                  /\ HooksFresh'
                  /\ \A j \in Tasks : task'[j].pc # "idle" => Knows(task[j])'
                  /\ \A t \in Tickets : Settled(t)' \/ \E j \in Tasks : Busy(task'[j], t)
  <2>1. Idle /\ ~raced
    <3>1. \E rec : Begin(k, rec)
      BY <1>1, StartRecord
    <3>q. QED
      BY <1>3, <3>1 DEF Begin
  <2>2. PICK rec :
          /\ task' = [task EXCEPT ![k] = rec] /\ Moving(rec)'
          /\ HooksFresh /\ (\A t \in Tickets : Settled(t)) =>
               /\ Knows(rec)' /\ HooksFresh'
               /\ \A t \in Tickets : Settled(t)' \/ Busy(rec, t)
    BY <1>1, <1>3, StartKnows
  <2>3. task'[k] = rec /\ \A j \in Tasks \ {k} : task'[j].pc = "idle"
    BY <1>1, <2>1, <2>2, AtWork DEF Idle
  <2>4. \A j \in Tasks : Moving(task[j])'
    BY <2>2, <2>3 DEF Moving
  <2>5. faults = 0 => HooksFresh /\ \A t \in Tickets : Settled(t)
    BY <2>1 DEF AgreeInv, Idle, Busy
  <2>q. QED
    BY <1>1, <2>2, <2>3, <2>4, <2>5
<1>q. QED
  BY <1>1, <1>2, <1>3 DEF AgreeInv

\* People reassign the issue, and the webhook that says so is on its way.
LEMMA AgreeReassign ==
  ASSUME AgreeInv, NEW t \in Tickets, NEW u \in Assignees, Reassign(t, u)
  PROVE  AgreeInv'
<1>1. /\ Inv /\ Inv' /\ assignee \in [Tickets -> Assignees]
      /\ UNCHANGED <<lane, dev, se, live, absence, burst, task, faults>>
      /\ hooks' = hooks \cup {[ticket |-> t, user |-> u]} /\ assignee' = [assignee EXCEPT ![t] = u]
  BY WorldInv, TypeParts DEF AgreeInv, Inv, World, Reassign, row, OutsideOK
<1>2. BurstKnows'
  BY <1>1 DEF AgreeInv, BurstKnows
<1>3. ASSUME ~raced' PROVE /\ ~raced /\ Idle /\ hooks = {}
                           /\ \A k \in Tasks : task'[k].pc = "idle"
  BY <1>1, <1>3 DEF Reassign, Idle
<1>4. ~raced' => \A k \in Tasks : Moving(task[k])'
  BY <1>3 DEF Moving
<1>5. ASSUME ~raced', faults' = 0
      PROVE  HooksFresh' /\ \A v \in Tickets : Settled(v)'
  <2>1. \A v \in Tickets : Settled(v) /\ NoDev(v) /\ Named(v)
    BY <1>1, <1>3, <1>5 DEF AgreeInv, Idle, Busy, Settled
  <2>2. HooksFresh'
    BY <1>1, <1>3, <1>5 DEF HooksFresh
  <2>3. \A v \in Tickets \ {t} : Settled(v)'
    BY <1>1, <2>1 DEF Settled, NoDev, Named, Effective
  <2>4. Settled(t)'
    BY <1>1, <2>1 DEF Settled, NoDev
  <2>q. QED
    BY <2>2, <2>3, <2>4
<1>q. QED
  BY <1>1, <1>2, <1>3, <1>4, <1>5 DEF AgreeInv

\* A webhook that changes nothing told nothing new; a lost one is a fault.
LEMMA AgreeIgnore ==
  ASSUME AgreeInv, NEW h \in hooks, IgnoreHook(h)
  PROVE  AgreeInv'
<1>1. /\ Inv /\ Inv' /\ RowOK /\ OutsideOK /\ faults \in Nat
      /\ UNCHANGED <<lane, dev, se, assignee, live, absence, burst, task, raced>>
      /\ hooks' = hooks \ {h}
      /\ \/ (h.user = Outsider \/ h.user = Column(h.ticket)) /\ faults' = faults
         \/ Outage
  BY WorldInv, TypeParts DEF AgreeInv, Inv, World, IgnoreHook, row, BoundsOK
<1>2. BurstKnows' /\ \A k \in Tasks : Moving(task[k]) => Moving(task[k])'
  BY <1>1 DEF AgreeInv, BurstKnows, Moving
<1>3. ASSUME ~raced', faults' = 0
      PROVE  /\ HooksFresh'
             /\ \A k \in Tasks : task'[k].pc # "idle" => Knows(task[k])'
             /\ \A u \in Tickets : Settled(u)' \/ \E k \in Tasks : Busy(task'[k], u)
  <2>1. /\ h.user = Outsider \/ h.user = Column(h.ticket)
        /\ faults = 0 /\ ~raced /\ HooksFresh
        /\ \A k \in Tasks : task[k].pc # "idle" => Knows(task[k])
        /\ \A u \in Tickets : Settled(u) \/ \E k \in Tasks : Busy(task[k], u)
    BY <1>1, <1>3 DEF AgreeInv, Outage
  <2>2. HooksFresh'
    BY <1>1, <2>1 DEF HooksFresh
  <2>3. ASSUME NEW k \in Tasks, task'[k].pc # "idle"
        PROVE  Knows(task[k])'
    <3>1. Knows(task[k])
      BY <1>1, <2>1, <2>3
    <3>q. QED
      BY <1>1, <3>1 DEF Knows, NoDev, Effective
  <2>4. ASSUME NEW u \in Tickets, Settled(u)
        PROVE  Settled(u)'
    <3>1. PICK g : g = [ticket |-> u, user |-> assignee[u]]
      OBVIOUS
    <3>2. CASE g # h
      BY <1>1, <2>4, <3>1, <3>2 DEF Settled, NoDev, Named, Effective
    <3>3. CASE g = h
      <4>1. h.ticket = u /\ h.user = assignee[u] /\ lane[u] \in Lanes
        BY <1>1, <3>1, <3>3 DEF RowOK
      <4>2. Named(u)
        BY <2>1, <2>4, <4>1, ConstantsAssumption
        DEF Named, Settled, NoDev, Column, Effective, Lanes, People
      <4>q. QED
        BY <1>1, <2>4, <4>2 DEF Settled, NoDev, Named, Effective
    <3>q. QED
      BY <3>2, <3>3
  <2>q. QED
    BY <1>1, <2>1, <2>2, <2>3, <2>4
<1>q. QED
  BY <1>1, <1>2, <1>3 DEF AgreeInv

LEMMA AgreeWorld ==
  ASSUME AgreeInv, World \/ Restart \/ UNCHANGED vars
  PROVE  AgreeInv'
<1>1. Inv /\ Inv' /\ faults \in Nat /\ RowOK /\ OutsideOK
  BY WorldInv, TypeParts DEF AgreeInv, Inv, BoundsOK
<1>2. CASE \/ \E t \in Tickets, u \in Assignees : Reassign(t, u)
           \/ \E h \in hooks : IgnoreHook(h)
  BY <1>2, AgreeReassign, AgreeIgnore
<1>3. ASSUME NEW s \in SEs, MarkBack(s) PROVE AgreeInv'
  <2>1. /\ UNCHANGED <<lane, dev, se, assignee, hooks, burst, task, faults>>
        /\ ~raced' => ~raced /\ \A k \in Tasks : task'[k].pc = "idle"
    BY <1>3 DEF MarkBack, row, Idle
  <2>2. BurstKnows' /\ (~raced' => \A k \in Tasks : Moving(task[k])')
    BY <2>1 DEF AgreeInv, BurstKnows, Moving
  <2>3. (HooksFresh => HooksFresh') /\ \A t \in Tickets : Settled(t) => Settled(t)'
    BY <2>1, SettledKept DEF HooksFresh
  <2>q. QED
    BY <1>1, <2>1, <2>2, <2>3 DEF AgreeInv
<1>4. ASSUME NEW t \in Tickets, Retire(t) PROVE AgreeInv'
  <2>1. /\ UNCHANGED <<lane, dev, se, assignee, hooks, burst, task, faults>>
        /\ ~raced' => ~raced /\ \A k \in Tasks : task'[k].pc = "idle"
    BY <1>4 DEF Retire, row, Idle
  <2>2. BurstKnows' /\ (~raced' => \A k \in Tasks : Moving(task[k])')
    BY <2>1 DEF AgreeInv, BurstKnows, Moving
  <2>3. (HooksFresh => HooksFresh') /\ \A u \in Tickets : Settled(u) => Settled(u)'
    BY <2>1, SettledKept DEF HooksFresh
  <2>q. QED
    BY <1>1, <2>1, <2>2, <2>3 DEF AgreeInv
<1>5. ASSUME \/ \E t \in Tickets : Fire(t)
             \/ UNCHANGED vars
      PROVE  AgreeInv'
  <2>1. /\ UNCHANGED <<lane, dev, se, assignee, hooks, task, faults, raced, live, absence>>
        /\ \A t \in Tickets : burst'[t] \in {burst[t], Quiet}
    BY <1>1, <1>5 DEF Fire, vars, row, OutsideOK
  <2>2. BurstKnows' /\ \A k \in Tasks : Moving(task[k]) => Moving(task[k])'
    BY <2>1 DEF AgreeInv, BurstKnows, Moving
  <2>3. (HooksFresh => HooksFresh') /\ \A u \in Tickets : Settled(u) => Settled(u)'
    BY <2>1, SettledKept DEF HooksFresh
  <2>4. \A k \in Tasks : Knows(task[k]) => Knows(task[k])'
    BY <2>1 DEF Knows, NoDev, Effective
  <2>q. QED
    BY <1>1, <2>1, <2>2, <2>3, <2>4 DEF AgreeInv
<1>6. CASE Restart
  <2>1. /\ faults' # 0 /\ \A t \in Tickets : burst'[t] = Quiet
        /\ \A k \in Tasks : task'[k].pc = "idle"
    BY <1>1, <1>6, NoTaskTyped DEF Restart, Outage
  <2>2. BurstKnows' /\ \A k \in Tasks : Moving(task[k])'
    BY <2>1 DEF BurstKnows, Moving
  <2>q. QED
    BY <1>1, <2>1, <2>2 DEF AgreeInv
<1>q. QED
  BY <1>2, <1>3, <1>4, <1>5, <1>6 DEF World

LEMMA AgreeNext == AgreeInv /\ [Next]_vars => AgreeInv'
BY AgreeStart, AgreeStep, AgreeWorld DEF Next

\* With handlers and webhooks one at a time and nothing lost, the bot and Linear end up
\* with the same owner if the user map has that owner, and no ticket of the SE lane has a dev
\* owner.  An owner whom assign_issue cannot place leaves in Linear whom it showed before.
THEOREM OwnersAlwaysAgree == Spec => []OwnersAgree
<1>1. AgreeInv => OwnersAgree
  BY DEF AgreeInv, OwnersAgree, Idle, Busy, Settled, NoDev, Named, SeLaneHasNoDev, OneName
<1>q. QED
  BY <1>1, AgreeInit, AgreeNext, PTL DEF Spec

\* When /ooo has run undisturbed, no live ticket of the absentee is left to them unless
\* nobody is in.
THEOREM AbsenteeAlwaysMovedOff == Spec => MovedOff
<1>1. ASSUME AgreeInv, [Next]_vars, NEW k \in Tasks, ~raced', faults' = 0, task[k].pc = "next",
             task'[k].pc = "idle"
      PROVE  \/ \A t \in live : se[t] # task[k].absentee
             \/ \A s \in SEs : absence[s] # Present
  <2>1. /\ Inv /\ faults \in Nat /\ task \in [Tasks -> TaskRecord] /\ SlotOK(task[k])
    BY <1>1, AtWork DEF AgreeInv, Inv, TypeOK
  <2>2. ~\E j \in Tasks : Start(j)
    <3>1. ASSUME NEW j \in Tasks, Start(j) PROVE FALSE
      <4>1. PICK rec : Begin(j, rec)
        BY <2>1, <3>1, StartRecord
      <4>q. QED
        BY <1>1, <4>1 DEF Begin, Idle
    <3>q. QED
      BY <3>1
  <2>3. ~(World \/ Restart \/ UNCHANGED vars)
    BY <1>1, <2>1 DEF World, Restart, vars, Reassign, IgnoreHook, MarkBack, Retire, Fire, Outage
  <2>4. PICK j \in Tasks : Step(j) \/ Fail(j)
    BY <1>1, <2>2, <2>3 DEF Next
  <2>5. j = k
    <3>1. \A i \in Tasks \ {j} : task'[i] = task[i]
      BY <2>1, <2>4, StepRecord
    <3>q. QED
      BY <1>1, <3>1
  <2>6. MoveNext(k)
    BY <1>1, <2>1, <2>4, <2>5 DEF Step, Fail, Outage, WriteLane, PickDev, WriteOwner, ReadAssignee,
       PostAssignee, Tell, Schedule, Upsert, ListOpen, CheckOwner
  <2>7. raced' = raced
    BY <2>6 DEF MoveNext
  <2>8. task[k].queue = {}
    <3>1. SUFFICES ASSUME task[k].queue # {} PROVE FALSE
      OBVIOUS
    <3>2. PICK t \in task[k].queue, target \in Reroute(task[k].absentee, task[k].away) :
            task' = [task EXCEPT ![k].queue = @ \ {t}, ![k].ticket = t, ![k].owner = target,
                                 ![k].pc = IF target = task[k].absentee THEN "next" ELSE "check"]
      BY <2>6, <3>1 DEF MoveNext
    <3>3. PICK pc \in {"next", "check"} : pc = IF target = task[k].absentee THEN "next" ELSE "check"
      OBVIOUS
    <3>4. PICK rec : rec = [task[k] EXCEPT !.queue = @ \ {t}, !.ticket = t, !.owner = target, !.pc = pc]
      OBVIOUS
    <3>5. task'[k] = rec
      BY <2>1, <3>2, <3>3, <3>4
    <3>6. rec.pc = pc
      BY <2>1, <3>4 DEF TaskRecord
    <3>q. QED
      BY <1>1, <3>3, <3>5, <3>6
  <2>9. Moving(task[k]) /\ task[k].kind = "ooo"
    BY <1>1, <2>1, <2>7 DEF AgreeInv, SlotOK
  <2>q. QED
    BY <1>1, <2>8, <2>9 DEF Moving
<1>2. AgreeInv /\ [Next]_vars =>
        [\A k \in Tasks :
           ~raced' /\ faults' = 0 /\ task[k].pc = "next" /\ task'[k].pc = "idle" =>
             \/ \A t \in live : se[t] # task[k].absentee
             \/ \A s \in SEs : absence[s] # Present]_vars
  BY <1>1
<1>q. QED
  BY <1>2, AgreeInit, AgreeNext, PTL DEF Spec, MovedOff

\* Whoever holds a ticket when a burst of changes has quieted hears of it, unless it is
\* who held it before: however handlers and webhooks overlap.
THEOREM SettledAlwaysTold == Spec => SettledIsTold
<1>1. ASSUME AgreeInv, [Next]_vars, NEW t \in Tickets, faults' = faults, burst[t] # Quiet,
             burst'[t] = Quiet, Effective(t) \notin {burst[t].before, None}
      PROVE  notices'[t] > notices[t]
  <2>1. Inv /\ OutsideOK /\ faults \in Nat
    BY <1>1, TypeParts DEF AgreeInv, Inv, BoundsOK
  <2>2. ~\E k \in Tasks : Start(k)
    BY <1>1 DEF Start, MoveToDev, ReturnToSe, SetSeOwner, SubmitOoo, Receive, outside
  <2>3. ~\E k \in Tasks : Step(k) \/ Fail(k)
    BY <1>1, <2>1, StepBurst DEF AgreeInv
  <2>4. ~(Restart \/ UNCHANGED vars)
    BY <1>1, <2>1 DEF Restart, Outage, vars
  <2>5. PICK u \in Tickets : Fire(u)
    BY <1>1, <2>2, <2>3, <2>4 DEF Next, World, Reassign, IgnoreHook, MarkBack, Retire
  <2>6. u = t
    BY <1>1, <2>1, <2>5 DEF Fire, OutsideOK
  <2>7. Effective(t) # burst[t].origin
    BY <1>1 DEF AgreeInv, BurstKnows
  <2>q. QED
    BY <2>1, <2>5, <2>6, <2>7 DEF Fire, OutsideOK
<1>2. AgreeInv /\ [Next]_vars =>
        [\A t \in Tickets :
           /\ faults' = faults
           /\ burst[t] # Quiet /\ burst'[t] = Quiet
           /\ Effective(t) \notin {burst[t].before, None}
           => notices'[t] > notices[t]]_vars
  BY <1>1
<1>q. QED
  BY <1>2, AgreeInit, AgreeNext, PTL DEF Spec, SettledIsTold
=============================================================================

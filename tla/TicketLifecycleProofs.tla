----------------------- MODULE TicketLifecycleProofs -----------------------
(***************************************************************************)
(* Theorems about TicketLifecycle for any tickets, any number of handlers  *)
(* in flight and any bounds.                                               *)
(***************************************************************************)
EXTENDS TicketLifecycle, TLAPS

LEMMA BeginTyped ==
  ASSUME TaskTypeOK, RowTypeOK, today \in Days,
         NEW k \in Tasks, NEW t \in Tickets, NEW kind \in Kinds,
         NEW pc \in PCs \ {"flush", "render"}, Begin(k, t, kind, pc)
  PROVE  TaskTypeOK'
<1>1. status[t] \in Statuses
  BY DEF RowTypeOK
<1> DEFINE r == [NoTask EXCEPT !.pc = pc, !.kind = kind, !.ticket = t,
                               !.seen = status[t], !.now = today]
<1>2. r \in TaskRecord /\ r.kind = kind /\ r.ticket = t /\ r.seen = status[t]
        /\ r.now = today /\ r.pc = pc
  BY <1>1 DEF NoTask, TaskRecord, PCs
<1>3. task' = [task EXCEPT ![k] = r]
  BY DEF Begin
<1>q. QED
  BY <1>1, <1>2, <1>3 DEF TaskTypeOK

LEMMA StepTyped ==
  ASSUME TaskTypeOK, RowTypeOK, today \in Days, NEW k \in Tasks, Step(k)
  PROVE  TaskTypeOK'
<1>1. task[k] \in TaskRecord
  BY DEF TaskTypeOK
<1>2. NoTask \in TaskRecord /\ NoTask.pc = "idle"
  BY DEF TaskRecord, NoTask, PCs
<1>3. ASSUME Return(k) PROVE TaskTypeOK'
  BY <1>2, <1>3 DEF Return, TaskTypeOK
<1>4. ASSUME NEW pc \in PCs \ {"flush", "render"}, task[k].pc # "idle", Goto(k, pc)
      PROVE  TaskTypeOK'
  BY <1>1, <1>4 DEF Goto, TaskTypeOK, TaskRecord
<1>5. CASE ReGet(k)
  <2>1. task[k].ticket \in Tickets /\ status[task[k].ticket] \in Statuses
    BY <1>5 DEF ReGet, TaskTypeOK, RowTypeOK
  <2>q. QED
    BY <1>1, <1>3, <1>5, <2>1 DEF ReGet, TaskTypeOK, TaskRecord, PCs
<1>6. CASE Retire(k)
  BY <1>4, <1>6 DEF Retire, PCs
<1>7. CASE LoadRow(k)
  <2>1. task[k].ticket \in Tickets /\ status[task[k].ticket] \in Statuses
    BY <1>7 DEF LoadRow, TaskTypeOK, RowTypeOK
  <2>q. QED
    BY <1>1, <1>7, <2>1 DEF LoadRow, TaskTypeOK, TaskRecord, PCs
<1>8. CASE FlushRow(k)
  BY <1>4, <1>8 DEF FlushRow, PCs
<1>9. CASE SetResolution(k)
  BY <1>4, <1>9 DEF SetResolution, PCs
<1>10. CASE AppendEvent(k)
  BY <1>4, <1>10 DEF AppendEvent, PCs
<1>11. CASE FetchCard(k)
  <2>1. task[k].ticket \in Tickets /\ status[task[k].ticket] \in Statuses
    BY <1>11 DEF FetchCard, TaskTypeOK, RowTypeOK
  <2>q. QED
    BY <1>1, <1>11, <2>1 DEF FetchCard, TaskTypeOK, TaskRecord, PCs
<1>12. CASE RenderCard(k)
  BY <1>3, <1>4, <1>12 DEF RenderCard, PCs
<1>13. CASE PostReply(k)
  BY <1>3, <1>13 DEF PostReply
<1>14. CASE Fail(k)
  BY <1>3, <1>14 DEF Fail
<1>q. QED
  BY <1>5, <1>6, <1>7, <1>8, <1>9, <1>10, <1>11, <1>12, <1>13, <1>14 DEF Step

LEMMA StepRowTyped ==
  ASSUME TaskTypeOK, RowTypeOK, NEW k \in Tasks, Step(k)
  PROVE  RowTypeOK'
<1> DEFINE t == task[k].ticket
<1>1. ASSUME task[k].pc # "idle"
      PROVE  /\ t \in Tickets
             /\ task[k].kind \in Kinds
             /\ task[k].seen \in Statuses
             /\ task[k].now \in Days
             /\ task[k].shown \in Statuses \cup {None}
             /\ task[k].pc = "render" => task[k].shown \in Statuses
  BY <1>1 DEF TaskTypeOK, TaskRecord
<1>2. \A kind : Target(kind) \in Statuses
  BY DEF Target, Statuses
<1> HIDE DEF t
<1>3. CASE ReGet(k)
  BY <1>3 DEF ReGet, RowTypeOK, rowVars
<1>4. CASE Retire(k)
  <2>1. t \in Tickets /\ task[k].now \in Days
    BY <1>1, <1>4 DEF Retire
  <2>2. status' \in [Tickets -> Statuses]
    BY <1>2, <1>4 DEF Retire, RowTypeOK, t
  <2>3. /\ resolvedAt' \in [Tickets -> Days \cup {None}]
        /\ closedAt' \in [Tickets -> Days \cup {None}]
    BY <1>4, <2>1 DEF Retire, RowTypeOK, t
  <2>4. told' \in [Tickets -> Nat]
    BY <1>4, <2>1 DEF Retire, RowTypeOK, t
  <2>q. QED
    BY <1>4, <2>2, <2>3, <2>4 DEF Retire, RowTypeOK
<1>5. CASE LoadRow(k)
  BY <1>5 DEF LoadRow, RowTypeOK, rowVars
<1>6. CASE FlushRow(k)
  BY <1>1, <1>6 DEF FlushRow, RowTypeOK, Statuses, t
<1>7. CASE SetResolution(k)
  BY <1>1, <1>7 DEF SetResolution, RowTypeOK, rowVars, t
<1>8. CASE AppendEvent(k)
  <2>1. [from |-> task[k].seen, to |-> Target(task[k].kind)] \in Event
    BY <1>1, <1>2, <1>8 DEF AppendEvent, Event
  <2>2. log' \in [Tickets -> Seq(Event)]
    BY <1>1, <1>8, <2>1 DEF AppendEvent, RowTypeOK, t
  <2>q. QED
    BY <1>8, <2>2 DEF AppendEvent, RowTypeOK, rowVars
<1>9. CASE FetchCard(k)
  BY <1>9 DEF FetchCard, RowTypeOK, rowVars
<1>10. CASE RenderCard(k)
  <2>1. card' \in [Tickets -> Statuses]
    BY <1>1, <1>10 DEF RenderCard, RowTypeOK, t
  <2>2. faulted' \in [Tickets -> BOOLEAN]
    BY <1>1, <1>10 DEF RenderCard, RowTypeOK, t
  <2>3. UNCHANGED <<rowVars, resolution, log, told>>
    BY <1>10 DEF RenderCard
  <2>q. QED
    BY <2>1, <2>2, <2>3 DEF RowTypeOK, rowVars
<1>11. CASE PostReply(k)
  <2>1. told' \in [Tickets -> Nat]
    <3>1. told \in [Tickets -> Nat] /\ t \in Tickets /\ told[t] + 1 \in Nat
      BY <1>1, <1>11 DEF PostReply, RowTypeOK
    <3>2. told' = [told EXCEPT ![t] = told[t] + 1] \/ told' = told
      BY <1>11 DEF PostReply, t
    <3>q. QED
      BY <3>1, <3>2
  <2>2. faulted' \in [Tickets -> BOOLEAN]
    BY <1>1, <1>11 DEF PostReply, RowTypeOK, t
  <2>3. UNCHANGED <<rowVars, resolution, log, card>>
    BY <1>11 DEF PostReply
  <2>q. QED
    BY <2>1, <2>2, <2>3 DEF RowTypeOK, rowVars
<1>12. CASE Fail(k)
  BY <1>1, <1>12 DEF Fail, RowTypeOK, rowVars, t
<1>q. QED
  BY <1>3, <1>4, <1>5, <1>6, <1>7, <1>8, <1>9, <1>10, <1>11, <1>12 DEF Step

\* What every start of a handler is: a Begin of some kind and first step.
LEMMA StartBegins ==
  ASSUME NEW k \in Tasks, NEW t \in Tickets, Start(k, t)
  PROVE  \E kind \in Kinds, pc \in {"write", "load", "get"} : Begin(k, t, kind, pc)
BY DEF Start, ResolveModal, DropButton, ReopenButton, SeReply, LinearDone,
       LinearCanceled, LinearStarted, Kinds, Resolvers, Droppers, Workers

LEMMA TypeStep == TypeOK /\ [Next]_vars => TypeOK'
<1> SUFFICES ASSUME TypeOK, [Next]_vars PROVE TypeOK'
  OBVIOUS
<1>1. ASSUME NEW k \in Tasks, NEW t \in Tickets, Start(k, t)
      PROVE  TypeOK'
  <2>1. PICK kind \in Kinds, pc \in {"write", "load", "get"} : Begin(k, t, kind, pc)
    BY <1>1, StartBegins
  <2>2. TaskTypeOK'
    BY <2>1, BeginTyped DEF TypeOK, PCs
  <2>q. QED
    BY <2>1, <2>2 DEF Begin, TypeOK, RowTypeOK, rowVars
<1>2. ASSUME NEW k \in Tasks, Step(k)
      PROVE  TypeOK'
  <2>1. TaskTypeOK' /\ RowTypeOK'
    BY <1>2, StepTyped, StepRowTyped DEF TypeOK
  <2>2. UNCHANGED <<today, runs>>
    BY <1>2 DEF Step, ReGet, Retire, LoadRow, FlushRow, SetResolution, AppendEvent,
                FetchCard, RenderCard, PostReply, Fail
  <2>q. QED
    BY <2>1, <2>2 DEF TypeOK, Days
<1>3. CASE NextDay
  BY <1>3, ConstantsAssumption DEF NextDay, TypeOK, RowTypeOK, TaskTypeOK, rowVars, Days
<1>4. CASE UNCHANGED vars
  BY <1>4 DEF vars, TypeOK, RowTypeOK, TaskTypeOK, Days
<1>q. QED
  BY <1>1, <1>2, <1>3, <1>4 DEF Next

LEMMA TypeInit == Init => TypeOK
BY ConstantsAssumption DEF Init, TypeOK, RowTypeOK, TaskTypeOK, Statuses, Days, TaskRecord,
   NoTask, PCs

\* Every row, event and handler keeps the shape the code reads it with,
\* whatever handlers overlap.
THEOREM TypeCorrect == Spec => []TypeOK
BY TypeInit, TypeStep, PTL DEF Spec

-----------------------------------------------------------------------------
(* What holds however handlers overlap.  The invariant follows one handler *)
(* after its write: until it has logged its event and answered the thread  *)
(* the ticket may lack both, but then the handler is still in flight.      *)

\* The steps a handler still has before it once it has written the status.
Written == {"resolution", "event", "card", "render", "reply"}

PhaseOK(r) ==
  /\ r.pc = "get" => r.kind \in Resolvers \cup Droppers
  /\ r.pc = "write" => r.kind \in Resolvers \cup Droppers
  /\ r.pc \in {"load", "flush"} => r.kind \in Workers
  /\ r.pc \in {"resolution", "reply"} => r.kind \in Resolvers

\* What a handler between its two accesses knows of the row, and that nothing
\* goes back to "new".
RowKnown(k) ==
  LET r == task[k] IN
  /\ r.pc = "flush" /\ ~r.unanswered => firstResponseAt[r.ticket] # None
  /\ r.pc = "flush" /\ r.row = "in_progress" => status[r.ticket] # "new"
  /\ r.pc \in Written => status[r.ticket] # "new"

Answering(k, t) ==
  task[k].ticket = t /\ task[k].kind \in Resolvers /\ task[k].pc \in Written

Recording(k, t) ==
  /\ task[k].ticket = t
  /\ task[k].pc \in {"resolution", "event"}
  /\ Target(task[k].kind) = status[t]

Recorded(t) == \E i \in 1 .. Len(log[t]) : log[t][i].to = status[t]

Answered(t) ==
  status[t] = "resolved" /\ ~faulted[t] => told[t] > 0 \/ \E k \in Tasks : Answering(k, t)

Explained(t) ==
  /\ log[t] # <<>> => status[t] # "new"
  /\ status[t] # "new" /\ ~faulted[t] => Recorded(t) \/ \E k \in Tasks : Recording(k, t)

OverlapInv ==
  /\ TypeOK
  /\ \A k \in Tasks : PhaseOK(task[k]) /\ RowKnown(k)
  /\ StampsExplainStatus
  /\ \A t \in Tickets : Answered(t) /\ Explained(t)

LEMMA OverlapInit == Init => OverlapInv
<1> SUFFICES ASSUME Init PROVE OverlapInv
  OBVIOUS
<1>1. \A k \in Tasks : task[k].pc = "idle"
  BY DEF Init, NoTask
<1>2. \A k \in Tasks : PhaseOK(task[k]) /\ RowKnown(k)
  BY <1>1 DEF PhaseOK, RowKnown, Written
<1>3. StampsExplainStatus
  BY DEF Init, StampsExplainStatus
<1>4. \A t \in Tickets : Answered(t) /\ Explained(t)
  BY DEF Init, Answered, Explained
<1>q. QED
  BY <1>2, <1>3, <1>4, TypeInit DEF OverlapInv

\* Starting a handler changes no row; the handler starts before its write.
LEMMA OverlapStart ==
  ASSUME OverlapInv, NEW k \in Tasks, NEW t \in Tickets, Start(k, t), TypeOK'
  PROVE  OverlapInv'
<1>1. PICK kind \in Kinds, pc \in {"write", "load", "get"} :
        /\ Begin(k, t, kind, pc)
        /\ pc \in {"write", "get"} => kind \in Resolvers \cup Droppers
        /\ pc = "load" => kind \in Workers
  BY DEF Start, ResolveModal, DropButton, ReopenButton, SeReply, LinearDone,
         LinearCanceled, LinearStarted, Kinds, Resolvers, Droppers, Workers
<1>2. /\ task[k].pc = "idle"
      /\ task'[k].pc = pc /\ task'[k].kind = kind
      /\ \A j \in Tasks \ {k} : task'[j] = task[j]
      /\ UNCHANGED <<status, firstResponseAt, resolvedAt, closedAt, log, told, faulted>>
  BY <1>1 DEF Begin, rowVars, NoTask, OverlapInv, TypeOK, TaskTypeOK
<1>3. \A j \in Tasks : PhaseOK(task[j])' /\ RowKnown(j)'
  BY <1>1, <1>2 DEF OverlapInv, PhaseOK, RowKnown, Written
<1>4. StampsExplainStatus'
  BY <1>2 DEF OverlapInv, StampsExplainStatus
<1>5. ASSUME NEW u \in Tickets PROVE Answered(u)' /\ Explained(u)'
  <2>1. \A j \in Tasks : (Answering(j, u) => Answering(j, u)') /\ (Recording(j, u) => Recording(j, u)')
    BY <1>2 DEF Answering, Recording, Written
  <2>q. QED
    BY <1>2, <2>1 DEF OverlapInv, Answered, Explained, Recorded
<1>q. QED
  BY <1>3, <1>4, <1>5 DEF OverlapInv

\* A step of a handler changes only that handler's task record.
LEMMA StepFrame ==
  ASSUME TypeOK, NEW k \in Tasks, Step(k)
  PROVE  \A j \in Tasks \ {k} : task'[j] = task[j]
BY DEF Step, ReGet, Retire, LoadRow, FlushRow, SetResolution, AppendEvent, FetchCard,
       RenderCard, PostReply, Fail, Goto, Return, TypeOK, TaskTypeOK

\* A step that leaves the row, the log and the replies alone.
LEMMA OverlapQuietStep ==
  ASSUME OverlapInv, NEW k \in Tasks, ReGet(k) \/ LoadRow(k) \/ SetResolution(k) \/ FetchCard(k),
         TypeOK'
  PROVE  OverlapInv'
<1>1. task \in [Tasks -> TaskRecord] /\ task[k] \in TaskRecord
  BY DEF OverlapInv, TypeOK, TaskTypeOK
<1>2. UNCHANGED <<status, firstResponseAt, resolvedAt, closedAt, log, told, faulted>>
  BY DEF ReGet, LoadRow, SetResolution, FetchCard, rowVars
<1>3. \A j \in Tasks \ {k} : task'[j] = task[j]
  BY StepFrame DEF Step, OverlapInv
<1>4. PhaseOK(task[k])' /\ RowKnown(k)'
  BY <1>1, <1>2 DEF ReGet, LoadRow, SetResolution, FetchCard, Return, Goto, NoTask,
     OverlapInv, PhaseOK, RowKnown, StampsExplainStatus, Written, TaskRecord, TypeOK, TaskTypeOK
<1>5. \A j \in Tasks : PhaseOK(task[j])' /\ RowKnown(j)'
  BY <1>2, <1>3, <1>4 DEF OverlapInv, PhaseOK, RowKnown
<1>6. StampsExplainStatus'
  BY <1>2 DEF OverlapInv, StampsExplainStatus
<1>7. ASSUME NEW u \in Tickets PROVE Answered(u)' /\ Explained(u)'
  <2>1. (Answering(k, u) => Answering(k, u)') /\ (Recording(k, u) => Recording(k, u)')
    BY <1>1, <1>2 DEF ReGet, LoadRow, SetResolution, FetchCard, Goto, Answering, Recording,
       Written, TaskRecord
  <2>2. \A j \in Tasks : (Answering(j, u) => Answering(j, u)') /\ (Recording(j, u) => Recording(j, u)')
    BY <1>2, <1>3, <2>1 DEF Answering, Recording
  <2>q. QED
    BY <1>2, <2>2 DEF OverlapInv, Answered, Explained, Recorded
<1>q. QED
  BY <1>5, <1>6, <1>7 DEF OverlapInv

LEMMA OverlapRetire ==
  ASSUME OverlapInv, NEW k \in Tasks, Retire(k), TypeOK'
  PROVE  OverlapInv'
<1> DEFINE t == task[k].ticket
<1>1. /\ task \in [Tasks -> TaskRecord] /\ task[k] \in TaskRecord
      /\ t \in Tickets /\ task[k].now \in Nat /\ task[k].kind \in Resolvers \cup Droppers
      /\ status \in [Tickets -> Statuses] /\ told \in [Tickets -> Nat]
  BY DEF Retire, OverlapInv, TypeOK, TaskTypeOK, RowTypeOK, PhaseOK, Days
<1>2. /\ status' = [status EXCEPT ![t] = Target(task[k].kind)]
      /\ UNCHANGED <<firstResponseAt, log, faulted>>
      /\ task'[k].ticket = t /\ task'[k].kind = task[k].kind
      /\ task'[k].pc = IF task[k].kind \in Resolvers THEN "resolution" ELSE "event"
  BY <1>1 DEF Retire, Goto, TaskRecord
<1>3. \A j \in Tasks \ {k} : task'[j] = task[j]
  BY StepFrame DEF Step, OverlapInv
<1>4. Target(task[k].kind) \in {"resolved", "closed"}
  BY <1>1 DEF Target
<1>5. \A j \in Tasks : PhaseOK(task[j])' /\ RowKnown(j)'
  <2>1. PhaseOK(task[k])' /\ RowKnown(k)'
    BY <1>1, <1>2, <1>4 DEF PhaseOK, RowKnown, Written
  <2>2. ASSUME NEW j \in Tasks \ {k} PROVE PhaseOK(task[j])' /\ RowKnown(j)'
    BY <1>1, <1>2, <1>3, <1>4 DEF OverlapInv, PhaseOK, RowKnown, TypeOK, TaskTypeOK, Written
  <2>q. QED
    BY <2>1, <2>2
<1>6. StampsExplainStatus'
  <2>1. \A u \in Tickets \ {t} : resolvedAt'[u] = resolvedAt[u] /\ closedAt'[u] = closedAt[u]
    BY <1>1 DEF Retire, OverlapInv, TypeOK, RowTypeOK
  <2>2. /\ status'[t] = "resolved" => resolvedAt'[t] = task[k].now
        /\ status'[t] = "closed" => closedAt'[t] = task[k].now
    BY <1>1, <1>2 DEF Retire, OverlapInv, TypeOK, RowTypeOK, Target
  <2>q. QED
    BY <1>1, <1>2, <1>4, <2>1, <2>2, ConstantsAssumption DEF OverlapInv, StampsExplainStatus
<1>7. ASSUME NEW u \in Tickets PROVE Answered(u)' /\ Explained(u)'
  <2>1. CASE u = t
    <3>1. Recording(k, u)'
      BY <1>1, <1>2, <2>1 DEF Recording
    <3>2. status'[t] = "resolved" => Answering(k, u)'
      BY <1>1, <1>2, <2>1 DEF Answering, Target, Written, Resolvers, Droppers
    <3>q. QED
      BY <1>1, <1>2, <1>4, <2>1, <3>1, <3>2 DEF Answered, Explained
  <2>2. CASE u # t
    <3>1. status'[u] = status[u] /\ told'[u] = told[u]
      BY <1>1, <1>2, <2>2 DEF Retire
    <3>2. \A j \in Tasks : (Answering(j, u) => Answering(j, u)') /\ (Recording(j, u) => Recording(j, u)')
      BY <1>2, <1>3, <2>2, <3>1 DEF Answering, Recording
    <3>q. QED
      BY <1>2, <3>1, <3>2 DEF OverlapInv, Answered, Explained, Recorded
  <2>q. QED
    BY <2>1, <2>2
<1>q. QED
  BY <1>5, <1>6, <1>7 DEF OverlapInv

LEMMA OverlapFlush ==
  ASSUME OverlapInv, NEW k \in Tasks, FlushRow(k), TypeOK'
  PROVE  OverlapInv'
<1> DEFINE t == task[k].ticket
<1>1. /\ task \in [Tasks -> TaskRecord] /\ task[k] \in TaskRecord /\ task[k].pc = "flush"
      /\ t \in Tickets /\ task[k].now \in Nat /\ task[k].kind \in Workers
      /\ status \in [Tickets -> Statuses]
      /\ task[k].row = "in_progress" => status[t] # "new"
      /\ ~task[k].unanswered => firstResponseAt[t] # None
  BY DEF FlushRow, OverlapInv, TypeOK, TaskTypeOK, RowTypeOK, PhaseOK, RowKnown, Days
<1>2. Target(task[k].kind) = "in_progress"
  BY <1>1 DEF Target, Workers, Resolvers, Droppers
<1>3. /\ UNCHANGED <<resolvedAt, closedAt, log, told, faulted>>
      /\ task'[k].ticket = t /\ task'[k].kind = task[k].kind /\ task'[k].pc = "event"
  BY <1>1 DEF FlushRow, Goto, TaskRecord
<1>4. /\ status'[t] = "in_progress" \/ status'[t] = status[t]
      /\ task[k].row # "in_progress" => status'[t] = "in_progress"
      /\ \A u \in Tickets \ {t} : status'[u] = status[u]
      /\ status'[t] # "new"
      /\ task[k].row = "in_progress" => status' = status
  BY <1>1 DEF FlushRow
<1>5. firstResponseAt'[t] # None
  BY <1>1, ConstantsAssumption DEF FlushRow, OverlapInv, TypeOK, RowTypeOK
<1>6. \A u \in Tickets \ {t} : firstResponseAt'[u] = firstResponseAt[u]
  BY <1>1 DEF FlushRow, OverlapInv, TypeOK, RowTypeOK
<1>7. \A j \in Tasks \ {k} : task'[j] = task[j]
  BY StepFrame DEF Step, OverlapInv
<1>8. \A j \in Tasks : PhaseOK(task[j])' /\ RowKnown(j)'
  <2>1. PhaseOK(task[k])' /\ RowKnown(k)'
    BY <1>1, <1>3, <1>4 DEF PhaseOK, RowKnown, Written
  <2>2. ASSUME NEW j \in Tasks \ {k} PROVE PhaseOK(task[j])' /\ RowKnown(j)'
    BY <1>4, <1>5, <1>6, <1>7 DEF OverlapInv, PhaseOK, RowKnown, TypeOK, TaskTypeOK, Written
  <2>q. QED
    BY <2>1, <2>2
<1>9. StampsExplainStatus'
  BY <1>3, <1>4, <1>5, <1>6 DEF OverlapInv, StampsExplainStatus
<1>10. ASSUME NEW u \in Tickets PROVE Answered(u)' /\ Explained(u)'
  <2>1. CASE status'[u] = status[u]
    <3>1. \A j \in Tasks : Answering(j, u) => Answering(j, u)'
      BY <1>1, <1>7 DEF Answering, Written
    <3>2. \A j \in Tasks : Recording(j, u) => Recording(j, u)'
      BY <1>1, <1>7, <2>1 DEF Recording
    <3>q. QED
      BY <1>3, <2>1, <3>1, <3>2 DEF OverlapInv, Answered, Explained, Recorded
  <2>2. CASE u = t /\ status'[t] = "in_progress"
    <3>1. Recording(k, u)'
      BY <1>1, <1>2, <1>3, <2>2 DEF Recording
    <3>q. QED
      BY <2>2, <3>1 DEF Answered, Explained
  <2>q. QED
    BY <1>4, <2>1, <2>2
<1>q. QED
  BY <1>8, <1>9, <1>10 DEF OverlapInv

LEMMA OverlapAppend ==
  ASSUME OverlapInv, NEW k \in Tasks, AppendEvent(k), TypeOK'
  PROVE  OverlapInv'
<1> DEFINE t == task[k].ticket
           e == [from |-> task[k].seen, to |-> Target(task[k].kind)]
<1>1. /\ task \in [Tasks -> TaskRecord] /\ task[k] \in TaskRecord /\ task[k].pc = "event"
      /\ t \in Tickets /\ log \in [Tickets -> Seq(Event)] /\ e \in Event
  BY DEF AppendEvent, OverlapInv, TypeOK, TaskTypeOK, RowTypeOK, Event, Target, Statuses
<1>2. /\ UNCHANGED <<status, firstResponseAt, resolvedAt, closedAt, told, faulted>>
      /\ task'[k].ticket = t /\ task'[k].kind = task[k].kind /\ task'[k].pc = "card"
      /\ log'[t] = Append(log[t], e)
      /\ \A u \in Tickets \ {t} : log'[u] = log[u]
  BY <1>1 DEF AppendEvent, Goto, TaskRecord, rowVars
<1>3. \A j \in Tasks \ {k} : task'[j] = task[j]
  BY StepFrame DEF Step, OverlapInv
<1>4. \A j \in Tasks : PhaseOK(task[j])' /\ RowKnown(j)'
  BY <1>1, <1>2, <1>3 DEF OverlapInv, PhaseOK, RowKnown, Written
<1>5. StampsExplainStatus'
  BY <1>2 DEF OverlapInv, StampsExplainStatus
<1>6. ASSUME NEW u \in Tickets PROVE Answered(u)'
  <2>1. \A j \in Tasks : Answering(j, u) => Answering(j, u)'
    BY <1>1, <1>2, <1>3 DEF Answering, Written
  <2>q. QED
    BY <1>2, <2>1 DEF OverlapInv, Answered
<1>7. status[t] # "new"
  BY <1>1 DEF OverlapInv, RowKnown, Written
<1>8. ASSUME NEW u \in Tickets PROVE Explained(u)'
  <2>1. \A j \in Tasks \ {k} : Recording(j, u) => Recording(j, u)'
    BY <1>2, <1>3 DEF Recording
  <2>2. CASE u = t
    <3>1. /\ Len(log'[t]) = Len(log[t]) + 1 /\ Len(log[t]) \in Nat
          /\ log'[t][Len(log[t]) + 1] = e
          /\ \A i \in 1 .. Len(log[t]) : log'[t][i] = log[t][i]
      BY <1>1, <1>2
    <3>2. Recorded(t) => Recorded(t)'
      BY <1>2, <3>1 DEF Recorded
    <3>3. Recording(k, t) => Recorded(t)'
      <4>1. Recording(k, t) => e.to = status[t]
        BY DEF Recording
      <4>2. Len(log[t]) + 1 \in 1 .. Len(log'[t])
        BY <3>1
      <4>q. QED
        BY <1>2, <3>1, <4>1, <4>2 DEF Recorded
    <3>q. QED
      BY <1>1, <1>2, <1>7, <2>1, <2>2, <3>2, <3>3 DEF OverlapInv, Explained
  <2>3. CASE u # t
    <3>1. Recording(k, u) => FALSE
      BY <2>3 DEF Recording
    <3>q. QED
      BY <1>2, <2>1, <2>3, <3>1 DEF OverlapInv, Explained, Recorded
  <2>q. QED
    BY <2>2, <2>3
<1>q. QED
  BY <1>4, <1>5, <1>6, <1>8 DEF OverlapInv

\* The last steps: the card, the reply and a failure leave row and log alone,
\* and a handler that stops before its reply has marked the ticket faulted.
LEMMA OverlapLastSteps ==
  ASSUME OverlapInv, NEW k \in Tasks, RenderCard(k) \/ PostReply(k) \/ Fail(k), TypeOK'
  PROVE  OverlapInv'
<1>0. PICK t \in Tickets : t = task[k].ticket
  BY DEF RenderCard, PostReply, Fail, OverlapInv, TypeOK, TaskTypeOK
<1>1. /\ task \in [Tasks -> TaskRecord] /\ task[k] \in TaskRecord
      /\ told \in [Tickets -> Nat] /\ faulted \in [Tickets -> BOOLEAN]
  BY DEF RenderCard, PostReply, Fail, OverlapInv, TypeOK, TaskTypeOK, RowTypeOK
<1>2. UNCHANGED <<status, firstResponseAt, resolvedAt, closedAt, log>>
  BY DEF RenderCard, PostReply, Fail, rowVars
<1>3. \A j \in Tasks \ {k} : task'[j] = task[j]
  BY StepFrame DEF Step, OverlapInv
<1>4. \/ task'[k].pc = "idle"
      \/ task'[k].pc = "reply" /\ task[k].kind \in Resolvers /\ task'[k].kind = task[k].kind
           /\ task'[k].ticket = t
  BY <1>0, <1>1 DEF RenderCard, PostReply, Fail, Return, Goto, NoTask, TaskRecord
<1>5. \A u \in Tickets \ {t} : told'[u] = told[u] /\ faulted'[u] = faulted[u]
  <2>1. CASE RenderCard(k)
    BY <1>0, <1>1, <2>1 DEF RenderCard
  <2>2. CASE PostReply(k)
    BY <1>0, <1>1, <2>2 DEF PostReply
  <2>3. CASE Fail(k)
    BY <1>0, <1>1, <2>3 DEF Fail
  <2>q. QED
    BY <2>1, <2>2, <2>3
<1>6. /\ faulted[t] => faulted'[t]
      /\ told'[t] = told[t] \/ told'[t] = told[t] + 1
  <2>1. CASE RenderCard(k)
    BY <1>0, <1>1, <2>1 DEF RenderCard
  <2>2. CASE PostReply(k)
    BY <1>0, <1>1, <2>2 DEF PostReply
  <2>3. CASE Fail(k)
    BY <1>0, <1>1, <2>3 DEF Fail
  <2>q. QED
    BY <2>1, <2>2, <2>3
<1>7. Answering(k, t) => \/ Answering(k, t)'
                         \/ faulted'[t]
                         \/ told'[t] = told[t] + 1
  <2>1. CASE RenderCard(k)
    BY <1>0, <1>1, <2>1 DEF RenderCard, Goto, TaskRecord, Answering, Written
  <2>2. CASE PostReply(k)
    BY <1>0, <1>1, <2>2 DEF PostReply
  <2>3. CASE Fail(k)
    BY <1>0, <1>1, <2>3 DEF Fail
  <2>q. QED
    BY <2>1, <2>2, <2>3
<1>8. Recording(k, t) => faulted'[t]
  BY <1>0, <1>1 DEF Recording, RenderCard, PostReply, Fail
<1>9. \A j \in Tasks : PhaseOK(task[j])' /\ RowKnown(j)'
  <2>1. PhaseOK(task[k])' /\ RowKnown(k)'
    <3>1. task'[k].pc = "reply" => task[k].pc \in Written
      BY <1>0, <1>1 DEF RenderCard, PostReply, Fail, Return, Goto, NoTask, Written
    <3>q. QED
      BY <1>0, <1>1, <1>2, <1>4, <3>1 DEF OverlapInv, PhaseOK, RowKnown, Written
  <2>q. QED
    BY <1>2, <1>3, <2>1 DEF OverlapInv, PhaseOK, RowKnown
<1>10. StampsExplainStatus'
  BY <1>2 DEF OverlapInv, StampsExplainStatus
<1>11. ASSUME NEW u \in Tickets PROVE Answered(u)' /\ Explained(u)'
  <2>1. \A j \in Tasks \ {k} : (Answering(j, u) => Answering(j, u)') /\ (Recording(j, u) => Recording(j, u)')
    BY <1>2, <1>3 DEF Answering, Recording
  <2>2. CASE u = t
    <3>1. told[t] > 0 => told'[t] > 0
      BY <1>0, <1>1, <1>6
    <3>2. told'[t] = told[t] + 1 => told'[t] > 0
      BY <1>1
    <3>3. Answered(t)'
      <4> SUFFICES ASSUME status[t] = "resolved", ~faulted'[t], ~(told'[t] > 0)
                   PROVE  \E j \in Tasks : Answering(j, t)'
        BY <1>2 DEF Answered
      <4>1. ~faulted[t] /\ ~(told[t] > 0)
        BY <1>6, <3>1
      <4>2. PICK j \in Tasks : Answering(j, t)
        BY <1>0, <1>1, <4>1 DEF OverlapInv, Answered
      <4>3. CASE j = k
        BY <1>7, <3>2, <4>2, <4>3
      <4>4. CASE j # k
        BY <2>1, <2>2, <4>2, <4>4
      <4>q. QED
        BY <4>3, <4>4
    <3>4. Explained(t)'
      <4> SUFFICES ASSUME status[t] # "new", ~faulted'[t], ~Recorded(t)
                   PROVE  \E j \in Tasks : Recording(j, t)'
        BY <1>0, <1>1, <1>2 DEF OverlapInv, Explained, Recorded
      <4>1. PICK j \in Tasks : Recording(j, t)
        BY <1>0, <1>1, <1>6 DEF OverlapInv, Explained
      <4>2. j # k
        BY <1>8, <4>1
      <4>q. QED
        BY <2>1, <2>2, <4>1, <4>2
    <3>q. QED
      BY <2>2, <3>3, <3>4
  <2>3. CASE u # t
    <3>1. ~Answering(k, u) /\ ~Recording(k, u)
      BY <1>0, <2>3 DEF Answering, Recording
    <3>2. (faulted'[u] <=> faulted[u]) /\ told'[u] = told[u]
      BY <1>5, <2>3
    <3>3. \A j \in Tasks : (Answering(j, u) => Answering(j, u)') /\ (Recording(j, u) => Recording(j, u)')
      BY <2>1, <3>1
    <3>q. QED
      BY <1>2, <3>2, <3>3 DEF OverlapInv, Answered, Explained, Recorded
  <2>q. QED
    BY <2>2, <2>3
<1>q. QED
  BY <1>9, <1>10, <1>11 DEF OverlapInv

LEMMA OverlapStep == OverlapInv /\ [Next]_vars => OverlapInv'
<1> SUFFICES ASSUME OverlapInv, [Next]_vars PROVE OverlapInv'
  OBVIOUS
<1>1. TypeOK'
  BY TypeStep DEF OverlapInv
<1>2. ASSUME NEW k \in Tasks, NEW t \in Tickets, Start(k, t) PROVE OverlapInv'
  BY <1>1, <1>2, OverlapStart
<1>3. ASSUME NEW k \in Tasks, Step(k) PROVE OverlapInv'
  BY <1>1, <1>3, OverlapQuietStep, OverlapRetire, OverlapFlush, OverlapAppend,
     OverlapLastSteps DEF Step
<1>4. CASE NextDay \/ UNCHANGED vars
  <2>1. UNCHANGED <<status, firstResponseAt, resolvedAt, closedAt, log, told, faulted, task>>
    BY <1>4 DEF NextDay, vars, rowVars
  <2>2. /\ \A k \in Tasks : PhaseOK(task[k])' /\ RowKnown(k)'
        /\ StampsExplainStatus'
    BY <2>1 DEF OverlapInv, PhaseOK, RowKnown, StampsExplainStatus
  <2>3. \A t \in Tickets : Answered(t)' /\ Explained(t)'
    BY <2>1 DEF OverlapInv, Answered, Explained, Recorded, Answering, Recording
  <2>q. QED
    BY <1>1, <2>2, <2>3 DEF OverlapInv
<1>q. QED
  BY <1>2, <1>3, <1>4 DEF Next

LEMMA OverlapInvariant == Spec => []OverlapInv
BY OverlapInit, OverlapStep, PTL DEF Spec

\* No overlap of an ORM load-and-flush with another handler's UPDATE leaves a
\* ticket in a status whose timestamp is missing.
THEOREM StampsAlwaysExplain == Spec => []StampsExplainStatus
<1>1. OverlapInv => StampsExplainStatus
  BY DEF OverlapInv
<1>q. QED
  BY <1>1, OverlapInvariant, PTL

\* When its handlers are done without a failure, the log says how the ticket
\* came to its status.
THEOREM AuditAlwaysExplains == Spec => []AuditExplainsStatus
<1>1. OverlapInv => AuditExplainsStatus
  <2> SUFFICES ASSUME OverlapInv, NEW t \in Tickets, Quiet(t), ~faulted[t]
               PROVE  IF log[t] = <<>> THEN status[t] = "new" ELSE Recorded(t)
    BY DEF AuditExplainsStatus, Recorded
  <2>1. \A k \in Tasks : ~Recording(k, t)
    BY DEF Quiet, Busy, Recording
  <2>2. log[t] = <<>> => ~Recorded(t)
    BY DEF Recorded
  <2>q. QED
    BY <2>1, <2>2 DEF OverlapInv, Explained
<1>q. QED
  BY <1>1, OverlapInvariant, PTL

\* A resolved ticket whose handlers are done without a failure has had its
\* reply, whatever else ran meanwhile.
THEOREM ResolvedAlwaysTold == Spec => []ResolvedIsTold
<1>1. OverlapInv => ResolvedIsTold
  <2> SUFFICES ASSUME OverlapInv, NEW t \in Tickets, status[t] = "resolved", Quiet(t), ~faulted[t]
               PROVE  told[t] > 0
    BY DEF ResolvedIsTold
  <2>1. \A k \in Tasks : ~Answering(k, t)
    BY DEF Quiet, Busy, Answering, Written
  <2>q. QED
    BY <2>1 DEF OverlapInv, Answered
<1>q. QED
  BY <1>1, OverlapInvariant, PTL

-----------------------------------------------------------------------------
(* When the handlers of a ticket do not overlap: the event log is a chain, *)
(* the card is right, the window holds and the ticket implements           *)
(* TicketContract.                                                         *)

InFlight(k) == task[k].pc # "idle"

OneHandler ==
  \A k1, k2 \in Tasks :
    InFlight(k1) /\ InFlight(k2) /\ task[k1].ticket = task[k2].ticket => k1 = k2

\* What a handler knows of its ticket when it is the only one in flight.
HandlerKnows(k) ==
  LET r == task[k]  t == task[k].ticket IN
  /\ r.pc # "idle" => r.now <= today
  /\ r.pc \in {"write", "load"} => status[t] = r.seen /\ r.seen # Target(r.kind)
  /\ r.pc = "flush" => /\ status[t] = r.seen /\ r.row = r.seen /\ r.seen # "in_progress"
                       /\ r.unanswered <=> firstResponseAt[t] = None
  /\ r.pc \in {"load", "flush"} /\ r.kind = "reopen_button" =>
       WithinWindow(closedAt[t], r.now)
  /\ r.pc \in {"load", "flush"} /\ r.kind = "se_reply" => r.seen = "new"
  /\ r.pc \in Written => /\ status[t] = Target(r.kind)
                         /\ r.kind \in Resolvers => told[t] = 0
  /\ r.pc = "render" => r.shown = status[t]

Logging(k, t) == task[k].ticket = t /\ task[k].pc \in {"resolution", "event"}
Painting(k, t) == task[k].ticket = t /\ task[k].pc \in {"resolution", "event", "card", "render"}

LastTo(t) == IF log[t] = <<>> THEN "new" ELSE log[t][Len(log[t])].to

Chained(t) ==
  \A i \in 1 .. Len(log[t]) : log[t][i].from = IF i = 1 THEN "new" ELSE log[t][i - 1].to

\* The log and the card trail the status only while a handler is about to
\* write them.
TicketTrails(t) ==
  ~faulted[t] =>
    /\ Chained(t)
    /\ \A k \in Tasks : Logging(k, t) => LastTo(t) = task[k].seen
    /\ (\A k \in Tasks : ~Logging(k, t)) => LastTo(t) = status[t]
    /\ (\A k \in Tasks : ~Painting(k, t)) => card[t] = status[t]

SerialInv ==
  /\ TypeOK
  /\ OneHandler
  /\ \A k \in Tasks : PhaseOK(task[k]) /\ HandlerKnows(k)
  /\ \A t \in Tickets : TicketTrails(t)

SameTicket(u) ==
  /\ status'[u] = status[u]
  /\ firstResponseAt'[u] = firstResponseAt[u]
  /\ closedAt'[u] = closedAt[u]
  /\ log'[u] = log[u]
  /\ card'[u] = card[u]
  /\ told'[u] = told[u]
  /\ faulted'[u] = faulted[u]

-----------------------------------------------------------------------------
LEMMA SerialInit == Init => SerialInv
<1> SUFFICES ASSUME Init PROVE SerialInv
  OBVIOUS
<1>1. \A k \in Tasks : task[k].pc = "idle"
  BY DEF Init, NoTask
<1>2. OneHandler /\ \A k \in Tasks : PhaseOK(task[k]) /\ HandlerKnows(k)
  BY <1>1 DEF OneHandler, InFlight, PhaseOK, HandlerKnows, Written
<1>3. \A t \in Tickets : TicketTrails(t)
  <2>1. \A t \in Tickets, k \in Tasks : ~Logging(k, t)
    BY <1>1 DEF Logging
  <2>2. \A t \in Tickets : log[t] = <<>> /\ status[t] = "new" /\ card[t] = "new"
    BY DEF Init
  <2>q. QED
    BY <2>1, <2>2 DEF TicketTrails, Chained, LastTo
<1>q. QED
  BY <1>2, <1>3, TypeInit DEF SerialInv

\* A step of a handler touches its own ticket and its own record only.
LEMMA SerialFrame ==
  ASSUME TypeOK, NEW k \in Tasks, Step(k)
  PROVE  /\ task[k].pc # "idle"
         /\ task[k].ticket \in Tickets
         /\ today' = today
         /\ \A u \in Tickets \ {task[k].ticket} : SameTicket(u)
         /\ task'[k].pc = "idle" \/ /\ task'[k].ticket = task[k].ticket
                                    /\ task'[k].kind = task[k].kind
<1>1. task[k].pc # "idle" /\ task[k].ticket \in Tickets
  BY DEF Step, ReGet, Retire, LoadRow, FlushRow, SetResolution, AppendEvent, FetchCard,
         RenderCard, PostReply, Fail, TypeOK, TaskTypeOK
<1>2. today' = today
  BY DEF Step, ReGet, Retire, LoadRow, FlushRow, SetResolution, AppendEvent, FetchCard,
         RenderCard, PostReply, Fail
<1>3. task \in [Tasks -> TaskRecord] /\ task[k] \in TaskRecord
  BY DEF TypeOK, TaskTypeOK
<1>4. task'[k].pc = "idle" \/ (task'[k].ticket = task[k].ticket /\ task'[k].kind = task[k].kind)
  BY <1>3 DEF Step, ReGet, Retire, LoadRow, FlushRow, SetResolution, AppendEvent, FetchCard,
         RenderCard, PostReply, Fail, Goto, Return, NoTask, TaskRecord
<1>5. ASSUME NEW u \in Tickets \ {task[k].ticket} PROVE SameTicket(u)
  <2>1. CASE ReGet(k) \/ LoadRow(k) \/ SetResolution(k) \/ FetchCard(k)
    BY <2>1 DEF ReGet, LoadRow, SetResolution, FetchCard, rowVars, SameTicket
  <2>2. CASE Retire(k)
    BY <1>1, <2>2 DEF Retire, SameTicket, TypeOK, RowTypeOK
  <2>3. CASE FlushRow(k)
    BY <1>1, <2>3 DEF FlushRow, SameTicket, TypeOK, RowTypeOK
  <2>4. CASE AppendEvent(k)
    BY <1>1, <2>4 DEF AppendEvent, SameTicket, TypeOK, RowTypeOK, rowVars
  <2>5. CASE RenderCard(k)
    BY <1>1, <2>5 DEF RenderCard, SameTicket, TypeOK, RowTypeOK, rowVars
  <2>6. CASE PostReply(k)
    BY <1>1, <2>6 DEF PostReply, SameTicket, TypeOK, RowTypeOK, rowVars
  <2>7. CASE Fail(k)
    BY <1>1, <2>7 DEF Fail, SameTicket, TypeOK, RowTypeOK, rowVars
  <2>q. QED
    BY <2>1, <2>2, <2>3, <2>4, <2>5, <2>6, <2>7 DEF Step
<1>q. QED
  BY <1>1, <1>2, <1>4, <1>5

\* What is left to show of a step, once the frame is used: the handler that
\* moved and its ticket.
LEMMA SerialLocal ==
  ASSUME SerialInv, NEW k \in Tasks, Step(k), TypeOK',
         PhaseOK(task[k])', HandlerKnows(k)',
         NEW t \in Tickets, t = task[k].ticket, TicketTrails(t)'
  PROVE  SerialInv'
<1>1. TypeOK
  BY DEF SerialInv
<1>2. /\ task[k].pc # "idle" /\ today' = today
      /\ \A u \in Tickets \ {t} : SameTicket(u)
      /\ task'[k].pc = "idle" \/ task'[k].ticket = t
  BY <1>1, SerialFrame
<1>3. \A j \in Tasks \ {k} : task'[j] = task[j]
  BY <1>1, StepFrame
<1>4. OneHandler'
  BY <1>2, <1>3 DEF SerialInv, OneHandler, InFlight
<1>5. ASSUME NEW j \in Tasks PROVE PhaseOK(task[j])' /\ HandlerKnows(j)'
  <2>1. CASE j # k /\ task[j].pc # "idle"
    <3>1. task[j].ticket # t /\ task[j].ticket \in Tickets
      BY <1>1, <1>2, <2>1 DEF SerialInv, OneHandler, InFlight, TypeOK, TaskTypeOK
    <3>q. QED
      BY <1>2, <1>3, <2>1, <3>1 DEF SerialInv, PhaseOK, HandlerKnows, SameTicket
  <2>2. CASE j # k /\ task[j].pc = "idle"
    BY <1>3, <2>2 DEF PhaseOK, HandlerKnows, Written
  <2>q. QED
    BY <2>1, <2>2
<1>6. ASSUME NEW u \in Tickets \ {t} PROVE TicketTrails(u)'
  <2>1. SameTicket(u) /\ TicketTrails(u)
    BY <1>2 DEF SerialInv
  <2>2. \A j \in Tasks : /\ Logging(j, u)' <=> Logging(j, u)
                         /\ Painting(j, u)' <=> Painting(j, u)
                         /\ Logging(j, u) => task'[j].seen = task[j].seen
    BY <1>2, <1>3 DEF Logging, Painting
  <2>q. QED
    BY <2>1, <2>2 DEF TicketTrails, Chained, LastTo, SameTicket
<1>q. QED
  BY <1>4, <1>5, <1>6 DEF SerialInv

-----------------------------------------------------------------------------
(* A handler starts: it is the only one of its ticket and knows its row.   *)

LEMMA SerialStart ==
  ASSUME SerialInv, NEW k \in Tasks, NEW t \in Tickets, Start(k, t), NoOverlap, TypeOK'
  PROVE  SerialInv'
<1>1. PICK kind \in Kinds, pc \in {"write", "load", "get"} :
        /\ Begin(k, t, kind, pc)
        /\ pc \in {"write", "get"} => kind \in Resolvers \cup Droppers
        /\ pc = "load" => kind \in Workers
        /\ pc \in {"write", "load"} => status[t] # Target(kind)
        /\ kind = "reopen_button" => WithinWindow(closedAt[t], today)
        /\ kind = "se_reply" => status[t] = "new"
  BY DEF Start, ResolveModal, DropButton, ReopenButton, SeReply, LinearDone, LinearCanceled,
         LinearStarted, Kinds, Resolvers, Droppers, Workers, Retired, Target
<1>2. /\ task[k].pc = "idle"
      /\ task'[k] = [NoTask EXCEPT !.pc = pc, !.kind = kind, !.ticket = t,
                                   !.seen = status[t], !.now = today]
      /\ \A j \in Tasks \ {k} : task'[j] = task[j]
      /\ UNCHANGED <<status, firstResponseAt, closedAt, log, card, told, faulted, today>>
      /\ today \in Nat
  BY <1>1 DEF Begin, rowVars, SerialInv, TypeOK, TaskTypeOK, Days
<1>3. /\ task'[k].pc = pc /\ task'[k].kind = kind /\ task'[k].ticket = t
      /\ task'[k].seen = status[t] /\ task'[k].now = today
  BY <1>2 DEF NoTask
<1>4. OneHandler'
  BY DEF NoOverlap, OneHandler, InFlight
<1>5. PhaseOK(task[k])' /\ HandlerKnows(k)'
  BY <1>1, <1>2, <1>3 DEF PhaseOK, HandlerKnows, Written
<1>6. \A j \in Tasks : PhaseOK(task[j])' /\ HandlerKnows(j)'
  <2>1. ASSUME NEW j \in Tasks \ {k} PROVE PhaseOK(task[j])' /\ HandlerKnows(j)'
    <3>1. PhaseOK(task[j]) /\ HandlerKnows(j) /\ task'[j] = task[j]
      BY <1>2 DEF SerialInv
    <3>q. QED
      BY <1>2, <3>1 DEF PhaseOK, HandlerKnows
  <2>q. QED
    BY <1>5, <2>1
<1>7. ASSUME NEW u \in Tickets PROVE TicketTrails(u)'
  <2>1. \A j \in Tasks : /\ Logging(j, u)' <=> Logging(j, u)
                         /\ Painting(j, u)' <=> Painting(j, u)
                         /\ Logging(j, u) => task'[j].seen = task[j].seen
    BY <1>1, <1>2, <1>3 DEF Logging, Painting
  <2>q. QED
    BY <1>2, <2>1 DEF SerialInv, TicketTrails, Chained, LastTo
<1>q. QED
  BY <1>4, <1>6, <1>7 DEF SerialInv

-----------------------------------------------------------------------------
(* The steps of a handler.                                                 *)

\* Its reads: the row is as the handler finds it.
LEMMA SerialReads ==
  ASSUME SerialInv, NEW k \in Tasks, ReGet(k) \/ LoadRow(k) \/ FetchCard(k), TypeOK'
  PROVE  SerialInv'
<1>0. PICK t \in Tickets : t = task[k].ticket
  BY SerialFrame DEF Step, SerialInv
<1>1. /\ task \in [Tasks -> TaskRecord] /\ task[k] \in TaskRecord
      /\ today \in Nat /\ status \in [Tickets -> Statuses]
  BY DEF SerialInv, TypeOK, TaskTypeOK, RowTypeOK, Days
<1>2. UNCHANGED <<status, firstResponseAt, closedAt, log, card, told, faulted, today>>
  BY DEF ReGet, LoadRow, FetchCard, rowVars
<1>3. PhaseOK(task[k]) /\ HandlerKnows(k)
  BY DEF SerialInv
<1>4. PhaseOK(task[k])' /\ HandlerKnows(k)'
  <2>1. CASE ReGet(k)
    BY <1>0, <1>1, <1>2, <1>3, <2>1 DEF ReGet, Return, NoTask, PhaseOK, HandlerKnows, Written,
       TaskRecord
  <2>2. CASE LoadRow(k)
    BY <1>0, <1>1, <1>2, <1>3, <2>2 DEF LoadRow, PhaseOK, HandlerKnows, Written, TaskRecord,
       Target, Workers, Resolvers, Droppers
  <2>3. CASE FetchCard(k)
    BY <1>0, <1>1, <1>2, <1>3, <2>3 DEF FetchCard, PhaseOK, HandlerKnows, Written, TaskRecord
  <2>q. QED
    BY <2>1, <2>2, <2>3
<1>5. TicketTrails(t)'
  <2>1. /\ Logging(k, t)' <=> Logging(k, t)
        /\ Painting(k, t)' <=> Painting(k, t)
        /\ ~Logging(k, t)
    BY <1>0, <1>1 DEF ReGet, LoadRow, FetchCard, Return, NoTask, Logging, Painting, TaskRecord
  <2>2. \A j \in Tasks \ {k} : task'[j] = task[j]
    BY StepFrame DEF Step, SerialInv
  <2>3. \A j \in Tasks : /\ Logging(j, t)' <=> Logging(j, t)
                         /\ Painting(j, t)' <=> Painting(j, t)
                         /\ Logging(j, t) => task'[j].seen = task[j].seen
    BY <2>1, <2>2 DEF Logging, Painting
  <2>q. QED
    BY <1>2, <2>3 DEF SerialInv, TicketTrails, Chained, LastTo
<1>q. QED
  BY <1>0, <1>4, <1>5, SerialLocal DEF Step

\* The write.  No other handler of the ticket is in flight, so the log and the
\* card are level with the status, and the write moves the status alone.
LEMMA SerialWrites ==
  ASSUME SerialInv, NEW k \in Tasks, Retire(k) \/ FlushRow(k), TypeOK'
  PROVE  SerialInv'
<1>0. PICK t \in Tickets : t = task[k].ticket
  BY SerialFrame DEF Step, SerialInv
<1>1. /\ task \in [Tasks -> TaskRecord] /\ task[k] \in TaskRecord
      /\ status \in [Tickets -> Statuses] /\ told \in [Tickets -> Nat]
      /\ status[t] = task[k].seen /\ status[t] # Target(task[k].kind)
  BY <1>0 DEF SerialInv, TypeOK, TaskTypeOK, RowTypeOK, Retire, FlushRow, PhaseOK, HandlerKnows,
     Target, Workers, Resolvers, Droppers
<1>2. PhaseOK(task[k]) /\ HandlerKnows(k)
  BY DEF SerialInv
<1>3. /\ task'[k] = [task[k] EXCEPT !.pc = IF task[k].kind \in Resolvers THEN "resolution"
                                                                          ELSE "event"]
      /\ status'[t] = Target(task[k].kind)
      /\ UNCHANGED <<log, card, faulted, today>>
  <2>1. CASE Retire(k)
    BY <1>0, <1>1, <2>1 DEF Retire, Goto
  <2>2. CASE FlushRow(k)
    BY <1>0, <1>1, <1>2, <2>2 DEF FlushRow, Goto, PhaseOK, HandlerKnows, Target, Workers,
       Resolvers, Droppers
  <2>q. QED
    BY <2>1, <2>2
<1>4. task[k].kind \in Resolvers => told'[t] = 0
  BY <1>0, <1>1, <1>2 DEF Retire, FlushRow, PhaseOK, Target, Workers, Resolvers, Droppers
<1>5. PhaseOK(task[k])' /\ HandlerKnows(k)'
  BY <1>0, <1>1, <1>2, <1>3, <1>4 DEF PhaseOK, HandlerKnows, Written, TaskRecord, Retire, FlushRow
<1>6. \A j \in Tasks \ {k} : task[j].ticket = t => task[j].pc = "idle"
  BY <1>0 DEF SerialInv, OneHandler, InFlight, Retire, FlushRow
<1>7. TicketTrails(t)'
  <2>1. \A j \in Tasks : ~Logging(j, t) /\ ~Painting(j, t)
    BY <1>0, <1>6 DEF Logging, Painting, Retire, FlushRow
  <2>2. ~faulted[t] => Chained(t) /\ LastTo(t) = task[k].seen
    BY <1>1, <2>1 DEF SerialInv, TicketTrails
  <2>3. Logging(k, t)' /\ Painting(k, t)' /\ task'[k].seen = task[k].seen
    BY <1>0, <1>1, <1>3 DEF Logging, Painting, TaskRecord
  <2>4. \A j \in Tasks \ {k} : ~Logging(j, t)'
    <3>1. \A j \in Tasks \ {k} : task'[j] = task[j]
      BY StepFrame DEF Step, SerialInv
    <3>q. QED
      BY <2>1, <3>1 DEF Logging
  <2>q. QED
    BY <1>3, <2>2, <2>3, <2>4 DEF TicketTrails, Chained, LastTo
<1>q. QED
  BY <1>0, <1>5, <1>7, SerialLocal DEF Step

\* append_status_change: the event leaves the status the log had reached.
LEMMA SerialAppend ==
  ASSUME SerialInv, NEW k \in Tasks, AppendEvent(k), TypeOK'
  PROVE  SerialInv'
<1>0. PICK t \in Tickets : t = task[k].ticket
  BY SerialFrame DEF Step, SerialInv
<1> DEFINE e == [from |-> task[k].seen, to |-> Target(task[k].kind)]
<1>1. /\ task \in [Tasks -> TaskRecord] /\ task[k] \in TaskRecord /\ task[k].pc = "event"
      /\ log[t] \in Seq(Event) /\ e \in Event
  BY <1>0 DEF AppendEvent, SerialInv, TypeOK, TaskTypeOK, RowTypeOK, Event, Target, Statuses
<1>2. /\ UNCHANGED <<status, firstResponseAt, closedAt, card, told, faulted, today>>
      /\ task'[k] = [task[k] EXCEPT !.pc = "card"]
      /\ log'[t] = Append(log[t], e)
  BY <1>0, <1>1 DEF AppendEvent, Goto, rowVars, SerialInv, TypeOK, RowTypeOK
<1>3. PhaseOK(task[k]) /\ HandlerKnows(k)
  BY DEF SerialInv
<1>4. PhaseOK(task[k])' /\ HandlerKnows(k)'
  BY <1>0, <1>1, <1>2, <1>3 DEF PhaseOK, HandlerKnows, Written, TaskRecord
<1>5. TicketTrails(t)'
  <2> SUFFICES ASSUME ~faulted[t] PROVE TicketTrails(t)'
    BY <1>2 DEF TicketTrails
  <2>1. /\ Len(log[t]) \in Nat /\ Len(log'[t]) = Len(log[t]) + 1
        /\ log'[t][Len(log[t]) + 1] = e /\ log'[t] # <<>>
        /\ \A i \in 1 .. Len(log[t]) : log'[t][i] = log[t][i]
        /\ log[t] = <<>> <=> Len(log[t]) = 0
    BY <1>1, <1>2
  <2>2. Chained(t) /\ LastTo(t) = e.from /\ e.to = status[t]
    BY <1>0, <1>1, <1>3 DEF SerialInv, TicketTrails, Logging, HandlerKnows, Written
  <2>3. Chained(t)'
    <3> SUFFICES ASSUME NEW i \in 1 .. Len(log[t]) + 1
                 PROVE  log'[t][i].from = IF i = 1 THEN "new" ELSE log'[t][i - 1].to
      BY <2>1 DEF Chained
    <3>1. CASE i \in 1 .. Len(log[t])
      BY <2>1, <2>2, <3>1 DEF Chained
    <3>2. CASE i = Len(log[t]) + 1
      BY <2>1, <2>2, <3>2 DEF LastTo
    <3>q. QED
      BY <2>1, <3>1, <3>2
  <2>4. LastTo(t)' = status[t]
    BY <2>1, <2>2 DEF LastTo
  <2>5. \A j \in Tasks : ~Logging(j, t)'
    <3>1. \A j \in Tasks \ {k} : task'[j] = task[j]
      BY StepFrame DEF Step, SerialInv
    <3>2. \A j \in Tasks \ {k} : task[j].ticket = t => task[j].pc = "idle"
      BY <1>0, <1>1 DEF SerialInv, OneHandler, InFlight
    <3>3. ~Logging(k, t)'
      BY <1>1, <1>2 DEF Logging, TaskRecord
    <3>q. QED
      BY <3>1, <3>2, <3>3 DEF Logging
  <2>6. Painting(k, t)'
    BY <1>0, <1>1, <1>2 DEF Painting, TaskRecord
  <2>q. QED
    BY <1>2, <2>3, <2>4, <2>5, <2>6 DEF TicketTrails
<1>q. QED
  BY <1>0, <1>4, <1>5, SerialLocal DEF Step

LEMMA SerialResolution ==
  ASSUME SerialInv, NEW k \in Tasks, SetResolution(k), TypeOK'
  PROVE  SerialInv'
<1>0. PICK t \in Tickets : t = task[k].ticket
  BY SerialFrame DEF Step, SerialInv
<1>1. /\ task \in [Tasks -> TaskRecord] /\ task[k] \in TaskRecord /\ task[k].pc = "resolution"
      /\ UNCHANGED <<status, firstResponseAt, closedAt, log, card, told, faulted, today>>
  BY DEF SetResolution, rowVars, SerialInv, TypeOK, TaskTypeOK
<1>2. task'[k] = [task[k] EXCEPT !.pc = "event"]
  BY <1>1 DEF SetResolution, Goto
<1>3. PhaseOK(task[k])' /\ HandlerKnows(k)'
  <2>1. PhaseOK(task[k]) /\ HandlerKnows(k)
    BY DEF SerialInv
  <2>q. QED
    BY <1>1, <1>2, <2>1 DEF PhaseOK, HandlerKnows, Written, TaskRecord
<1>4. TicketTrails(t)'
  <2>1. \A j \in Tasks \ {k} : task'[j] = task[j]
    BY StepFrame DEF Step, SerialInv
  <2>2. /\ Logging(k, t) /\ Logging(k, t)' /\ Painting(k, t) /\ Painting(k, t)'
        /\ task'[k].seen = task[k].seen
    BY <1>0, <1>1, <1>2 DEF Logging, Painting, TaskRecord
  <2>3. \A j \in Tasks : /\ Logging(j, t)' <=> Logging(j, t)
                         /\ Painting(j, t)' <=> Painting(j, t)
                         /\ Logging(j, t) => task'[j].seen = task[j].seen
    BY <2>1, <2>2 DEF Logging, Painting
  <2>q. QED
    BY <1>1, <2>3 DEF SerialInv, TicketTrails, Chained, LastTo
<1>q. QED
  BY <1>0, <1>3, <1>4, SerialLocal DEF Step

\* The card, the reply and a failure.
LEMMA SerialLastSteps ==
  ASSUME SerialInv, NEW k \in Tasks, RenderCard(k) \/ PostReply(k) \/ Fail(k), TypeOK'
  PROVE  SerialInv'
<1>0. PICK t \in Tickets : t = task[k].ticket
  BY SerialFrame DEF Step, SerialInv
<1>1. /\ task \in [Tasks -> TaskRecord] /\ task[k] \in TaskRecord
      /\ faulted \in [Tickets -> BOOLEAN] /\ card \in [Tickets -> Statuses]
      /\ UNCHANGED <<status, firstResponseAt, closedAt, log, today>>
  BY DEF RenderCard, PostReply, Fail, rowVars, SerialInv, TypeOK, TaskTypeOK, RowTypeOK
<1>2. PhaseOK(task[k]) /\ HandlerKnows(k)
  BY DEF SerialInv
<1>3. \/ task'[k] = NoTask
      \/ /\ RenderCard(k) /\ task[k].kind \in Resolvers
         /\ task'[k] = [task[k] EXCEPT !.pc = "reply"]
         /\ told' = told
  BY <1>1 DEF RenderCard, PostReply, Fail, Return, Goto
<1>4. PhaseOK(task[k])' /\ HandlerKnows(k)'
  <2>1. CASE task'[k] = NoTask
    BY <2>1 DEF NoTask, PhaseOK, HandlerKnows, Written
  <2>2. CASE /\ RenderCard(k) /\ task[k].kind \in Resolvers
             /\ task'[k] = [task[k] EXCEPT !.pc = "reply"]
             /\ told' = told
    BY <1>1, <1>2, <2>2 DEF RenderCard, PhaseOK, HandlerKnows, Written, TaskRecord
  <2>q. QED
    BY <1>3, <2>1, <2>2
<1>5. TicketTrails(t)'
  <2> SUFFICES ASSUME ~faulted'[t] PROVE TicketTrails(t)'
    BY DEF TicketTrails
  <2>1. ~Fail(k)
    BY <1>0, <1>1 DEF Fail
  <2>2. ~faulted[t]
    BY <1>0, <1>1 DEF RenderCard, PostReply, Fail
  <2>3. task[k].pc \in {"render", "reply"} /\ ~Logging(k, t) /\ ~Logging(k, t)' /\ ~Painting(k, t)'
    BY <1>0, <1>1, <1>3, <2>1 DEF RenderCard, PostReply, Logging, Painting, NoTask, TaskRecord
  <2>4. card'[t] = status[t]
    <3>1. CASE RenderCard(k)
      BY <1>0, <1>1, <1>2, <2>2, <3>1 DEF RenderCard, HandlerKnows
    <3>2. CASE PostReply(k)
      <4>1. \A j \in Tasks : ~Painting(j, t)
        BY <1>0, <3>2 DEF Painting, PostReply, SerialInv, OneHandler, InFlight
      <4>q. QED
        BY <2>2, <3>2, <4>1 DEF PostReply, SerialInv, TicketTrails
    <3>q. QED
      BY <2>1, <3>1, <3>2
  <2>5. \A j \in Tasks : ~Logging(j, t) /\ ~Logging(j, t)'
    <3>1. \A j \in Tasks \ {k} : task'[j] = task[j]
      BY StepFrame DEF Step, SerialInv
    <3>2. \A j \in Tasks \ {k} : ~Logging(j, t)
      BY <1>0, <2>3 DEF Logging, SerialInv, OneHandler, InFlight
    <3>q. QED
      BY <2>3, <3>1, <3>2 DEF Logging
  <2>6. Chained(t) /\ LastTo(t) = status[t]
    BY <2>2, <2>5 DEF SerialInv, TicketTrails
  <2>q. QED
    BY <1>1, <2>4, <2>5, <2>6 DEF TicketTrails, Chained, LastTo
<1>q. QED
  BY <1>0, <1>4, <1>5, SerialLocal DEF Step

LEMMA SerialStep == SerialInv /\ [Next /\ NoOverlap]_vars => SerialInv'
<1> SUFFICES ASSUME SerialInv, [Next /\ NoOverlap]_vars PROVE SerialInv'
  OBVIOUS
<1>1. TypeOK'
  BY TypeStep DEF SerialInv
<1>2. ASSUME NEW k \in Tasks, NEW t \in Tickets, Start(k, t), NoOverlap PROVE SerialInv'
  BY <1>1, <1>2, SerialStart
<1>3. ASSUME NEW k \in Tasks, Step(k) PROVE SerialInv'
  BY <1>1, <1>3, SerialReads, SerialWrites, SerialResolution, SerialAppend, SerialLastSteps
     DEF Step
<1>4. CASE NextDay \/ UNCHANGED vars
  <2>1. /\ UNCHANGED <<status, firstResponseAt, closedAt, log, card, told, faulted, task>>
        /\ today \in Nat /\ today' \in Nat /\ today <= today'
    BY <1>4 DEF NextDay, vars, rowVars, SerialInv, TypeOK, Days
  <2>2. OneHandler'
    BY <2>1 DEF SerialInv, OneHandler, InFlight
  <2>3. ASSUME NEW k \in Tasks PROVE PhaseOK(task[k])' /\ HandlerKnows(k)'
    <3>1. PhaseOK(task[k]) /\ HandlerKnows(k) /\ (task[k].pc # "idle" => task[k].now \in Nat)
      BY DEF SerialInv, TypeOK, TaskTypeOK, Days
    <3>q. QED
      BY <2>1, <3>1 DEF PhaseOK, HandlerKnows
  <2>4. ASSUME NEW t \in Tickets PROVE TicketTrails(t)'
    BY <2>1 DEF SerialInv, TicketTrails, Chained, LastTo, Logging, Painting
  <2>q. QED
    BY <1>1, <2>2, <2>3, <2>4 DEF SerialInv
<1>q. QED
  BY <1>2, <1>3, <1>4 DEF Next

LEMMA SerialInvariant == SerialSpec => []SerialInv
BY SerialInit, SerialStep, PTL DEF SerialSpec

-----------------------------------------------------------------------------
\* The event log of a ticket has no gap and ends at its status.
THEOREM LogAlwaysChain == SerialSpec => []LogIsChain
<1>1. SerialInv => LogIsChain
  <2> SUFFICES ASSUME SerialInv, NEW t \in Tickets, Quiet(t), ~faulted[t]
               PROVE  Chained(t) /\ status[t] = LastTo(t)
    BY DEF LogIsChain, Chained, LastTo
  <2>1. \A k \in Tasks : ~Logging(k, t)
    BY DEF Quiet, Busy, Logging
  <2>q. QED
    BY <2>1 DEF SerialInv, TicketTrails
<1>q. QED
  BY <1>1, SerialInvariant, PTL

\* The card of a ticket at rest shows its status.
THEOREM CardAlwaysFollows == SerialSpec => []CardFollowsStatus
<1>1. SerialInv => CardFollowsStatus
  <2> SUFFICES ASSUME SerialInv, NEW t \in Tickets, Quiet(t), ~faulted[t]
               PROVE  card[t] = status[t]
    BY DEF CardFollowsStatus
  <2>1. \A k \in Tasks : ~Painting(k, t)
    BY DEF Quiet, Busy, Painting
  <2>q. QED
    BY <2>1 DEF SerialInv, TicketTrails
<1>q. QED
  BY <1>1, SerialInvariant, PTL

\* A dropped ticket comes back only inside its window or through Linear.
THEOREM RevivalInWindow == SerialSpec => ReopenWithinWindow
<1>1. ASSUME SerialInv, [Next /\ NoOverlap]_vars, NEW t \in Tickets
      PROVE  ClosedRevival(t)
  <2> SUFFICES ASSUME status[t] = "closed", status'[t] = "in_progress"
               PROVE  \E k \in Tasks :
                        /\ task[k].ticket = t
                        /\ \/ task[k].kind = "linear_started"
                           \/ /\ task[k].kind = "reopen_button"
                              /\ WithinWindow(closedAt[t], task[k].now)
    BY DEF ClosedRevival
  <2>1. PICK k \in Tasks : Step(k)
    BY <1>1 DEF Next, vars, Start, ResolveModal, DropButton, ReopenButton, SeReply, LinearDone,
       LinearCanceled, LinearStarted, Begin, NextDay, rowVars
  <2>2. task[k].ticket = t
    BY <1>1, <2>1, SerialFrame DEF SerialInv, SameTicket
  <2>3. FlushRow(k)
    <3>1. ~Retire(k)
      BY <1>1, <2>2 DEF Retire, SerialInv, PhaseOK, Target, TypeOK, RowTypeOK
    <3>q. QED
      BY <2>1, <3>1 DEF Step, ReGet, LoadRow, SetResolution, AppendEvent, FetchCard, RenderCard,
         PostReply, Fail, rowVars
  <2>4. PhaseOK(task[k]) /\ HandlerKnows(k) /\ task[k].pc = "flush"
    BY <1>1, <2>3 DEF SerialInv, FlushRow
  <2>q. QED
    BY <2>2, <2>4 DEF PhaseOK, HandlerKnows, Workers
<1>2. SerialInv /\ [Next /\ NoOverlap]_vars => [\A t \in Tickets : ClosedRevival(t)]_vars
  BY <1>1
<1>q. QED
  BY <1>2, SerialInvariant, PTL DEF SerialSpec, ReopenWithinWindow

-----------------------------------------------------------------------------
(* The refinement.                                                         *)

LEMMA RetireRefines ==
  ASSUME SerialInv, NEW k \in Tasks, Retire(k)
  PROVE  Contract!Next
<1>0. PICK t \in Tickets : t = task[k].ticket
  BY SerialFrame DEF Step, SerialInv
<1>1. /\ status[t] # Target(task[k].kind) /\ task[k].kind \in Resolvers \cup Droppers
      /\ task[k].now \in 0 .. today
      /\ status' = [status EXCEPT ![t] = Target(task[k].kind)]
      /\ UNCHANGED <<firstResponseAt, today>>
  BY <1>0 DEF Retire, SerialInv, PhaseOK, HandlerKnows, TypeOK, TaskTypeOK, Days
<1>3. CASE task[k].kind \in Resolvers
  <2>1. Target(task[k].kind) = "resolved"
    BY <1>3 DEF Target
  <2>2. told' = [told EXCEPT ![t] = 0] /\ closedAt' = closedAt
    BY <1>0, <1>1, <1>3, <2>1 DEF Retire
  <2>3. Contract!Resolve(t)
    BY <1>1, <2>1, <2>2 DEF Contract!Resolve
  <2>q. QED
    BY <2>3 DEF Contract!Next
<1>4. CASE task[k].kind \in Droppers
  <2>1. Target(task[k].kind) = "closed" /\ task[k].kind \notin Resolvers
    BY <1>4 DEF Target, Droppers, Resolvers
  <2>2. told' = told /\ closedAt' = [closedAt EXCEPT ![t] = task[k].now]
    BY <1>0, <2>1 DEF Retire
  <2>3. Contract!Drop(t)
    BY <1>1, <2>1, <2>2 DEF Contract!Drop
  <2>q. QED
    BY <2>3 DEF Contract!Next
<1>q. QED
  BY <1>1, <1>3, <1>4

LEMMA FlushRefines ==
  ASSUME SerialInv, NEW k \in Tasks, FlushRow(k)
  PROVE  Contract!Next
<1>0. PICK t \in Tickets : t = task[k].ticket
  BY SerialFrame DEF Step, SerialInv
<1>1. /\ status[t] # "in_progress" /\ task[k].row # "in_progress"
      /\ task[k].unanswered <=> firstResponseAt[t] = None
      /\ task[k].now \in 0 .. today
  BY <1>0 DEF FlushRow, SerialInv, HandlerKnows, TypeOK, TaskTypeOK, Days
<1>2. /\ status' = [status EXCEPT ![t] = "in_progress"]
      /\ UNCHANGED <<closedAt, told, today>>
      /\ IF firstResponseAt[t] = None
           THEN firstResponseAt' = [firstResponseAt EXCEPT ![t] = task[k].now]
           ELSE firstResponseAt' = firstResponseAt
  BY <1>0, <1>1 DEF FlushRow
<1>3. Contract!Work(t)
  BY <1>1, <1>2 DEF Contract!Work
<1>q. QED
  BY <1>3 DEF Contract!Next

LEMMA ReplyRefines ==
  ASSUME SerialInv, NEW k \in Tasks, PostReply(k)
  PROVE  Contract!Next \/ UNCHANGED Contract!vars
<1>0. PICK t \in Tickets : t = task[k].ticket
  BY SerialFrame DEF Step, SerialInv
<1>1. status[t] = "resolved" /\ told[t] = 0 /\ told \in [Tickets -> Nat]
  BY <1>0 DEF PostReply, SerialInv, PhaseOK, HandlerKnows, Written, Target, TypeOK, RowTypeOK
<1>2. UNCHANGED <<status, firstResponseAt, closedAt, today>>
  BY DEF PostReply, rowVars
<1>3. CASE told' = told
  BY <1>2, <1>3 DEF Contract!vars
<1>4. CASE told' = [told EXCEPT ![t] = told[t] + 1]
  <2>1. Contract!Tell(t)
    BY <1>1, <1>2, <1>4 DEF Contract!Tell
  <2>q. QED
    BY <2>1 DEF Contract!Next
<1>q. QED
  BY <1>0, <1>3, <1>4 DEF PostReply

\* With one handler at a time the ticket keeps its contract.
THEOREM TicketKeepsContract == SerialSpec => ContractSpec
<1>1. Init => Contract!Init
  BY DEF Init, Contract!Init
<1>2. SerialInv /\ [Next /\ NoOverlap]_vars => [Contract!Next]_Contract!vars
  <2> SUFFICES ASSUME SerialInv, [Next /\ NoOverlap]_vars
               PROVE  Contract!Next \/ UNCHANGED Contract!vars
    OBVIOUS
  <2>1. ASSUME NEW k \in Tasks, NEW t \in Tickets, Start(k, t)
        PROVE  UNCHANGED Contract!vars
    BY <2>1 DEF Start, ResolveModal, DropButton, ReopenButton, SeReply, LinearDone,
       LinearCanceled, LinearStarted, Begin, rowVars, Contract!vars
  <2>2. ASSUME NEW k \in Tasks, Step(k)
        PROVE  Contract!Next \/ UNCHANGED Contract!vars
    <3>1. CASE ReGet(k) \/ LoadRow(k) \/ SetResolution(k) \/ AppendEvent(k) \/ FetchCard(k)
                 \/ RenderCard(k) \/ Fail(k)
      BY <3>1 DEF ReGet, LoadRow, SetResolution, AppendEvent, FetchCard, RenderCard, Fail,
         rowVars, Contract!vars
    <3>q. QED
      BY <2>2, <3>1, RetireRefines, FlushRefines, ReplyRefines DEF Step
  <2>3. CASE NextDay
    BY <2>3 DEF NextDay, rowVars, Contract!Next, Contract!NextDay
  <2>4. CASE UNCHANGED vars
    BY <2>4 DEF vars, Contract!vars
  <2>q. QED
    BY <2>1, <2>2, <2>3, <2>4 DEF Next
<1>q. QED
  BY <1>1, <1>2, SerialInvariant, PTL DEF SerialSpec, ContractSpec, Contract!Spec
=============================================================================

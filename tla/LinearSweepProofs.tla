-------------------------- MODULE LinearSweepProofs --------------------------
(***************************************************************************)
(* Theorems about LinearSweep for any tickets, handlers and bounds.        *)
(***************************************************************************)
EXTENDS LinearSweep, LinearMirrorProofs

USE DEF Slots

-----------------------------------------------------------------------------
(* Whatever overlaps or gets lost, a ticket's issue was made for it, and a *)
(* handler writes to the issue of its own ticket.                          *)

OwnRecord(r) ==
  r.pc \in {"persist", "reread", "push", "read"} => issues[r.issue].ticket = r.ticket
OwnSnapshot(r) ==
  r.pc # "idle" =>
    \A t \in Tickets : r.snap[t].mirror # 0 => issues[r.snap[t].mirror].ticket = t
OwnIssues == \A t \in Tickets : mirror[t] # 0 => issues[mirror[t]].ticket = t

OwnInv ==
  /\ TypeOK /\ OwnIssues
  /\ \A k \in Slots : OwnRecord(task[k])
  /\ OwnSnapshot(task[Sweeper])

-----------------------------------------------------------------------------
(* What a calm sweep knows: a ticket it has not come to is as it read it,  *)
(* one it has left has nothing to catch up with, and the one it is at will *)
(* have nothing.                                                           *)

Untouched(t) ==
  /\ task[Sweeper].snap[t] = [status |-> status[t], lane |-> lane[t], mirror |-> mirror[t]]
  /\ Live(t)

Started == {"triage", "in_progress"}

AtTicket ==
  LET r == task[Sweeper]  t == task[Sweeper].ticket  seen == task[Sweeper].snap[t] IN
  /\ r.pc \in {"read", "get", "write", "create", "persist", "ensure", "push"}
  /\ r.pc = "read" => Untouched(t) /\ r.kind = "reconcile" /\ r.issue = mirror[t]
  /\ r.pc = "get" => r.kind \in {"done", "canceled"}
  /\ r.pc = "write" =>
       /\ r.kind \in Inbound
       /\ r.kind = "in_progress" => mirror[t] # 0 /\ issues[mirror[t]].state = "in_progress"
  /\ r.pc \in {"create", "persist"} => r.kind = "sweep" /\ seen.mirror = 0
  /\ r.pc = "create" => r.state \in Started
  /\ r.pc = "persist" => issues[r.issue].state \in Started
  /\ r.pc \in {"ensure", "push"} =>
       r.kind = "open_dev" /\ seen.mirror = 0 /\ mirror[t] # 0 /\ Caught(t)
  /\ r.pc = "push" => r.issue = mirror[t] /\ r.state = "in_progress"

SweepKnows ==
  LET r == task[Sweeper] IN
  /\ \A t \in r.queue : Untouched(t)
  /\ \A t \in Tickets \ r.queue : r.pc = "sweep" \/ t # r.ticket => Caught(t)
  /\ r.pc # "sweep" => r.ticket \notin r.queue /\ AtTicket

SweepInv ==
  /\ OwnInv
  /\ calm /\ task[Sweeper].pc # "idle" => SweepKnows

-----------------------------------------------------------------------------
(* The issues.                                                             *)

\* No step takes an issue away or gives it to another ticket.
LEMMA IssuesKept ==
  ASSUME TypeOK, [Next]_vars, NEW i \in DOMAIN issues
  PROVE  i \in DOMAIN issues' /\ issues'[i].ticket = issues[i].ticket
<1>1. issues \in Seq(Issue) /\ issues[i] \in Issue
  BY DEF TypeOK
<1>2. ASSUME NEW j, NEW s, issues' = [issues EXCEPT ![j].state = s]
      PROVE  i \in DOMAIN issues' /\ issues'[i].ticket = issues[i].ticket
  BY <1>1, <1>2 DEF Issue
<1>3. ASSUME NEW k \in Slots, Create(k)
      PROVE  i \in DOMAIN issues' /\ issues'[i].ticket = issues[i].ticket
  BY <1>1, <1>3 DEF Create
<1>4. ASSUME NEW k \in Slots, Push(k) PROVE i \in DOMAIN issues' /\ issues'[i].ticket = issues[i].ticket
  BY <1>1, <1>2, <1>4 DEF Push
<1>5. CASE People
  <2>1. PICK j \in DOMAIN issues, s \in States : MoveIssue(j, s)
    BY <1>5 DEF People
  <2>2. issues' = [issues EXCEPT ![j].state = s, ![j].moved = @ \/ s # issues[j].state]
    BY <2>1 DEF MoveIssue
  <2>q. QED
    BY <1>1, <2>2 DEF Issue
<1>6. CASE \/ \E k \in Tasks, t \in Tickets : Click(k, t)
           \/ \E h \in hooks : (\E k \in Tasks : Receive(k, h)) \/ Ignore(h) \/ Lose(h)
           \/ SweepStart \/ UNCHANGED vars
  BY <1>6 DEF Click, Submit, Resolve, Drop, Reopen, SeReply, MoveToDev, ReturnToSe, Receive, Begin,
     Ignore, Lose, SweepStart, vars
<1>7. ASSUME NEW k \in Slots,
             \/ Get(k) \/ Write(k) \/ Ensure(k) \/ Persist(k) \/ Reread(k)
             \/ SweepNext(k) \/ SweepRead(k) \/ Fail(k)
      PROVE  UNCHANGED issues
  BY <1>7 DEF Get, Write, Ensure, Persist, Reread, SweepNext, SweepRead, Fail
<1>q. QED
  BY <1>3, <1>4, <1>5, <1>6, <1>7 DEF Next, Step

\* What a handler goes on with after a call.
LEMMA FinishedShape ==
  ASSUME NEW k, task[k] \in TaskRecord
  PROVE  /\ Finished(k).pc \in {"idle", "sweep", "ensure"}
         /\ k = Sweeper => /\ Finished(k).pc # "idle" /\ Finished(k).queue = task[k].queue
                           /\ Finished(k).snap = task[k].snap
         /\ Finished(k).pc = "ensure" =>
              Finished(k).ticket = task[k].ticket
BY DEF Finished, NoTask, TaskRecord

\* The same for a call that has its issue.
LEMMA HasIssueShape ==
  ASSUME NEW k, task[k] \in TaskRecord, NEW i \in Nat
  PROVE  LET r == HasIssue(k, i) IN
         /\ r.pc \in {"idle", "sweep", "ensure", "reread", "push"}
         /\ r.pc \in {"reread", "push"} => r.issue = i /\ r.ticket = task[k].ticket
         /\ k = Sweeper => r.pc # "idle" /\ r.snap = task[k].snap
<1>1. CASE task[k].kind \in SyncKinds
  BY <1>1 DEF HasIssue, TaskRecord
<1>2. CASE task[k].kind \notin SyncKinds /\ task[k].kind \in DOMAIN Fixed
  BY <1>2 DEF HasIssue, TaskRecord
<1>3. CASE task[k].kind \notin SyncKinds /\ task[k].kind \notin DOMAIN Fixed
  <2>1. HasIssue(k, i) = Finished(k)
    BY <1>3 DEF HasIssue
  <2>q. QED
    BY <2>1, FinishedShape
<1>q. QED
  BY <1>1, <1>2, <1>3

\* A slot that moves on gets a record with an issue of its ticket.
LEMMA OwnUpdate ==
  ASSUME OwnInv, [Next]_vars, OwnIssues',
         \A j \in Slots : task'[j] = task[j] \/ OwnRecord(task[j])',
         task'[Sweeper] = task[Sweeper] \/ OwnSnapshot(task[Sweeper])'
  PROVE  OwnInv'
<1>1. TypeOK /\ issues \in Seq(Issue) /\ DOMAIN issues = 1 .. Len(issues)
  BY DEF OwnInv, TypeOK
<1>2. ASSUME NEW j \in Slots, task'[j] = task[j] PROVE OwnRecord(task[j])'
  <2>1. /\ OwnRecord(task[j])
        /\ task[j].pc \in {"persist", "reread", "push", "read"} => task[j].issue \in 1 .. Len(issues)
    BY DEF OwnInv, TypeOK, TaskTypeOK, SlotOK
  <2>q. QED
    BY <1>1, <1>2, <2>1, IssuesKept DEF OwnRecord
<1>3. ASSUME task'[Sweeper] = task[Sweeper] PROVE OwnSnapshot(task[Sweeper])'
  <2>1. OwnSnapshot(task[Sweeper]) /\ task'[Sweeper] = task[Sweeper]
    BY <1>3 DEF OwnInv
  <2>2. task[Sweeper].pc # "idle" =>
          \A t \in Tickets : task[Sweeper].snap[t].mirror \in 0 .. Len(issues)
    BY DEF OwnInv, TypeOK, TaskTypeOK, SlotOK, Snapshot
  <2>3. \A t \in Tickets : task[Sweeper].pc # "idle" /\ task[Sweeper].snap[t].mirror # 0 =>
                             task[Sweeper].snap[t].mirror \in DOMAIN issues
    BY <1>1, <2>2
  <2>q. QED
    BY <1>1, <2>1, <2>3, IssuesKept DEF OwnSnapshot
<1>q. QED
  BY <1>1, <1>2, <1>3, TypeStep DEF OwnInv

\* What a ticket names stays its own.
LEMMA OwnIssuesKept ==
  ASSUME OwnInv, [Next]_vars, UNCHANGED mirror
  PROVE  OwnIssues'
<1>1. TypeOK /\ issues \in Seq(Issue) /\ DOMAIN issues = 1 .. Len(issues)
      /\ mirror \in [Tickets -> 0 .. Len(issues)]
  BY DEF OwnInv, TypeOK
<1>2. \A t \in Tickets : mirror[t] # 0 => mirror[t] \in DOMAIN issues
  BY <1>1
<1>q. QED
  BY <1>1, <1>2, IssuesKept DEF OwnInv, OwnIssues

\* A slot that is alone to move.
LEMMA OwnMove ==
  ASSUME OwnInv, [Next]_vars, OwnIssues', NEW k \in Slots, NEW r,
         task' = [task EXCEPT ![k] = r], OwnRecord(r)', k = Sweeper => OwnSnapshot(r)'
  PROVE  OwnInv'
<1>1. task \in [Slots -> TaskRecord]
  BY DEF OwnInv, TypeOK, TaskTypeOK
<1>2. task'[k] = r /\ \A j \in Slots \ {k} : task'[j] = task[j]
  BY <1>1
<1>3. OwnRecord(task[k])' /\ (k = Sweeper => OwnSnapshot(task[Sweeper])')
  BY <1>2 DEF OwnRecord, OwnSnapshot
<1>q. QED
  BY <1>2, <1>3, OwnUpdate

\* The sweep keeps its snapshot while it goes on.
LEMMA SnapshotKept ==
  ASSUME OwnInv, [Next]_vars, NEW r, r.snap = task[Sweeper].snap \/ r.pc = "idle",
         task[Sweeper].pc # "idle"
  PROVE  OwnSnapshot(r)'
<1>1. TypeOK /\ issues \in Seq(Issue) /\ DOMAIN issues = 1 .. Len(issues)
  BY DEF OwnInv, TypeOK
<1>2. \A t \in Tickets : task[Sweeper].snap[t].mirror \in 0 .. Len(issues)
  BY DEF OwnInv, TypeOK, TaskTypeOK, SlotOK, Snapshot
<1>3. \A t \in Tickets :
        task[Sweeper].snap[t].mirror # 0 => task[Sweeper].snap[t].mirror \in DOMAIN issues
  BY <1>1, <1>2
<1>q. QED
  BY <1>1, <1>3, IssuesKept DEF OwnInv, OwnSnapshot

\* Any step of a handler keeps what is said of its issue.
LEMMA OwnStep ==
  ASSUME OwnInv, NEW k \in Slots, Step(k) \/ Fail(k)
  PROVE  OwnInv'
<1> Next
  BY DEF Next
<1>1. /\ TypeOK /\ task \in [Slots -> TaskRecord] /\ task[k] \in TaskRecord
      /\ SlotOK(k, task[k], Len(issues))
      /\ issues \in Seq(Issue) /\ DOMAIN issues = 1 .. Len(issues) /\ Len(issues) \in Nat
      /\ mirror \in [Tickets -> 0 .. Len(issues)] /\ OwnRecord(task[k])
      /\ \A t \in Tickets : mirror[t] # 0 => issues[mirror[t]].ticket = t
  BY DEF OwnInv, TypeOK, TaskTypeOK, OwnIssues
<1>2. /\ Finished(k).pc \in {"idle", "sweep", "ensure"}
      /\ k = Sweeper => Finished(k).snap = task[k].snap
  BY <1>1, FinishedShape
<1>3. ASSUME task[k].pc # "idle", Finish(k), UNCHANGED mirror PROVE OwnInv'
  <2>1. PICK r : r = Finished(k)
    OBVIOUS
  <2>2. task' = [task EXCEPT ![k] = r]
    BY <1>3, <2>1 DEF Finish
  <2>3. OwnIssues'
    BY <1>3, OwnIssuesKept
  <2>4. OwnRecord(r)' /\ (k = Sweeper => OwnSnapshot(r)')
    BY <1>2, <1>3, <2>1, SnapshotKept DEF OwnRecord
  <2>q. QED
    BY <2>2, <2>3, <2>4, OwnMove
<1>4. ASSUME task[k].pc # "idle", NEW r, task' = [task EXCEPT ![k] = r], UNCHANGED mirror,
             OwnRecord(r)', k = Sweeper => r.snap = task[k].snap \/ r.pc = "idle"
      PROVE  OwnInv'
  <2>1. OwnIssues'
    BY <1>4, OwnIssuesKept
  <2>2. k = Sweeper => OwnSnapshot(r)'
    BY <1>4, SnapshotKept
  <2>q. QED
    BY <1>4, <2>1, <2>2, OwnMove
<1>5. ASSUME task[k].pc # "idle", NEW pc \in {"write", "ensure"}, Goto(k, pc), UNCHANGED mirror
      PROVE  OwnInv'
  <2>1. PICK r : r = [task[k] EXCEPT !.pc = pc]
    OBVIOUS
  <2>2. r.pc = pc /\ r.snap = task[k].snap
    BY <1>1, <2>1 DEF TaskRecord
  <2>3. task' = [task EXCEPT ![k] = r]
    BY <1>1, <1>5, <2>1 DEF Goto
  <2>4. OwnRecord(r)'
    BY <2>2 DEF OwnRecord
  <2>q. QED
    BY <1>4, <1>5, <2>2, <2>3, <2>4
<1>6. CASE Get(k) \/ Write(k)
  <2>1. task[k].pc # "idle" /\ UNCHANGED mirror
    BY <1>6 DEF Get, Write, ticketVars
  <2>q. QED
    BY <1>3, <1>5, <1>6, <2>1 DEF Get, Write
<1>7. CASE Ensure(k)
  <2>1. task[k].pc = "ensure" /\ UNCHANGED <<mirror, issues>> /\ task[k].ticket \in Tickets
    BY <1>1, <1>7 DEF Ensure, ticketVars, SlotOK
  <2>2. CASE mirror[task[k].ticket] # 0
    <3>1. PICK i \in DOMAIN issues : i = mirror[task[k].ticket] /\ i \in Nat
      BY <1>1, <2>1, <2>2
    <3>2. PICK r : r = HasIssue(k, i)
      OBVIOUS
    <3>3. task' = [task EXCEPT ![k] = r]
      BY <1>7, <2>2, <3>1, <3>2 DEF Ensure
    <3>4. /\ r.pc \in {"idle", "sweep", "ensure", "reread", "push"}
          /\ r.pc \in {"reread", "push"} => r.issue = i /\ r.ticket = task[k].ticket
          /\ k = Sweeper => r.snap = task[k].snap
      BY <1>1, <3>1, <3>2, HasIssueShape
    <3>5. OwnRecord(r)'
      BY <1>1, <2>1, <3>1, <3>4 DEF OwnRecord
    <3>q. QED
      BY <1>4, <2>1, <3>3, <3>4, <3>5
  <2>3. CASE mirror[task[k].ticket] = 0
    <3>1. PICK r : r = [task[k] EXCEPT !.pc = "create",
                          !.state = Expected(status[task[k].ticket], lane[task[k].ticket])]
      OBVIOUS
    <3>2. task' = [task EXCEPT ![k] = r]
      BY <1>7, <2>3, <3>1 DEF Ensure
    <3>3. r.pc = "create" /\ r.snap = task[k].snap
      BY <1>1, <3>1 DEF TaskRecord
    <3>4. OwnRecord(r)'
      BY <3>3 DEF OwnRecord
    <3>q. QED
      BY <1>4, <2>1, <3>2, <3>3, <3>4
  <2>q. QED
    BY <2>2, <2>3
<1>8. CASE Create(k)
  <2>1. task[k].pc = "create" /\ UNCHANGED mirror
    BY <1>8 DEF Create, ticketVars
  <2>2. CASE Finish(k)
    BY <1>3, <2>1, <2>2
  <2>3. CASE ~Finish(k)
    <3>1. PICK r : r = [task[k] EXCEPT !.pc = "persist", !.issue = Len(issues) + 1]
      OBVIOUS
    <3>2. /\ r.pc = "persist" /\ r.snap = task[k].snap
          /\ r.issue = Len(issues) + 1 /\ r.ticket = task[k].ticket
      BY <1>1, <3>1 DEF TaskRecord
    <3>3. /\ task' = [task EXCEPT ![k].pc = "persist", ![k].issue = Len(issues) + 1]
          /\ issues' = Append(issues, [ticket |-> task[k].ticket, state |-> task[k].state,
                                       moved |-> FALSE])
      BY <1>8, <2>3 DEF Create
    <3>4. task' = [task EXCEPT ![k] = r]
      BY <1>1, <3>1, <3>3
    <3>5. issues'[Len(issues) + 1].ticket = task[k].ticket
      BY <1>1, <3>3
    <3>6. OwnRecord(r)'
      BY <3>2, <3>5 DEF OwnRecord
    <3>q. QED
      BY <1>4, <2>1, <3>2, <3>4, <3>6
  <2>q. QED
    BY <2>2, <2>3
<1>9. CASE Persist(k)
  <2>1. PICK i \in DOMAIN issues, t \in Tickets :
          i = task[k].issue /\ t = task[k].ticket /\ i \in Nat /\ issues[i].ticket = t
    BY <1>1, <1>9 DEF Persist, SlotOK, OwnRecord
  <2>2. PICK r : r = HasIssue(k, i)
    OBVIOUS
  <2>3. /\ task[k].pc = "persist" /\ mirror' = [mirror EXCEPT ![t] = i] /\ UNCHANGED issues
        /\ task' = [task EXCEPT ![k] = r]
    BY <1>9, <2>1, <2>2 DEF Persist
  <2>4. /\ r.pc \in {"idle", "sweep", "ensure", "reread", "push"}
        /\ r.pc \in {"reread", "push"} => r.issue = i /\ r.ticket = t
        /\ k = Sweeper => r.snap = task[k].snap
    BY <1>1, <2>1, <2>2, HasIssueShape
  <2>5. OwnIssues'
    BY <1>1, <2>1, <2>3 DEF OwnIssues
  <2>6. OwnRecord(r)' /\ (k = Sweeper => OwnSnapshot(r)')
    BY <2>1, <2>3, <2>4, SnapshotKept DEF OwnRecord
  <2>q. QED
    BY <2>3, <2>5, <2>6, OwnMove
<1>10. CASE Reread(k)
  <2>1. task[k].pc = "reread" /\ UNCHANGED <<mirror, issues>>
    BY <1>10 DEF Reread, ticketVars
  <2>2. PICK r : r = [task[k] EXCEPT !.pc = "push",
                       !.state = Expected(status[task[k].ticket], lane[task[k].ticket])]
    OBVIOUS
  <2>3. task' = [task EXCEPT ![k] = r]
    BY <1>1, <1>10, <2>2 DEF Reread
  <2>4. r.snap = task[k].snap /\ r.issue = task[k].issue /\ r.ticket = task[k].ticket
    BY <1>1, <2>2 DEF TaskRecord
  <2>5. OwnRecord(r)'
    BY <1>1, <2>1, <2>4 DEF OwnRecord
  <2>q. QED
    BY <1>4, <2>1, <2>3, <2>4, <2>5
<1>11. CASE Push(k)
  BY <1>3, <1>11 DEF Push, ticketVars
<1>12. CASE SweepNext(k)
  <2>1. task[k].pc = "sweep" /\ UNCHANGED <<mirror, issues>> /\ k = Sweeper
    BY <1>1, <1>12 DEF SweepNext, ticketVars, SlotOK
  <2>2. CASE task' = [task EXCEPT ![k] = NoTask]
    <3>1. NoTask.pc = "idle" /\ OwnRecord(NoTask)'
      BY DEF NoTask, OwnRecord
    <3>q. QED
      BY <1>4, <2>1, <2>2, <3>1
  <2>3. CASE task' # [task EXCEPT ![k] = NoTask]
    <3>1. PICK t \in task[k].queue :
            task' = [task EXCEPT
              ![k].queue = @ \ {t},
              ![k].ticket = t,
              ![k].kind = IF task[k].snap[t].mirror = 0 THEN "sweep" ELSE "reconcile",
              ![k].pc = IF task[k].snap[t].mirror = 0 THEN "create" ELSE "read",
              ![k].issue = task[k].snap[t].mirror,
              ![k].state = Expected(task[k].snap[t].status, task[k].snap[t].lane)]
      BY <1>12, <2>3 DEF SweepNext
    <3>2. PICK kind, pc, i, state :
            /\ kind = IF task[k].snap[t].mirror = 0 THEN "sweep" ELSE "reconcile"
            /\ pc = IF task[k].snap[t].mirror = 0 THEN "create" ELSE "read"
            /\ i = task[k].snap[t].mirror
            /\ state = Expected(task[k].snap[t].status, task[k].snap[t].lane)
      OBVIOUS
    <3>3. PICK r : r = [task[k] EXCEPT !.queue = @ \ {t}, !.ticket = t, !.kind = kind, !.pc = pc,
                         !.issue = i, !.state = state]
      OBVIOUS
    <3>4. task' = [task EXCEPT ![k] = r]
      BY <1>1, <3>1, <3>2, <3>3
    <3>5. r.snap = task[k].snap /\ r.issue = i /\ r.ticket = t /\ r.pc = pc
      BY <1>1, <3>3 DEF TaskRecord
    <3>6. i # 0 => issues[i].ticket = t
      <4>1. t \in Tickets /\ OwnSnapshot(task[Sweeper])
        BY <1>1, <3>1 DEF TaskRecord, OwnInv
      <4>q. QED
        BY <2>1, <3>2, <4>1 DEF OwnSnapshot
    <3>7. OwnRecord(r)'
      BY <2>1, <3>2, <3>5, <3>6 DEF OwnRecord
    <3>q. QED
      BY <1>4, <2>1, <3>4, <3>5, <3>7
  <2>q. QED
    BY <2>2, <2>3
<1>13. CASE SweepRead(k)
  <2>1. task[k].pc = "read" /\ UNCHANGED mirror
    BY <1>13 DEF SweepRead, ticketVars
  <2>2. CASE Finish(k)
    BY <1>3, <2>1, <2>2
  <2>3. CASE ~Finish(k)
    <3>1. PICK state : state = issues[task[k].issue].state
      OBVIOUS
    <3>2. PICK r : r = [task[k] EXCEPT !.pc = FirstStep(state), !.kind = state]
      OBVIOUS
    <3>3. task' = [task EXCEPT ![k] = r]
      BY <1>13, <2>3, <3>1, <3>2 DEF SweepRead, Finish
    <3>4. r.snap = task[k].snap /\ r.pc \in {"get", "write"}
      BY <1>1, <3>2 DEF TaskRecord, FirstStep
    <3>5. OwnRecord(r)'
      BY <3>4 DEF OwnRecord
    <3>q. QED
      BY <1>4, <2>1, <3>3, <3>4, <3>5
  <2>q. QED
    BY <2>2, <2>3
<1>14. CASE Fail(k)
  <2>1. task[k].pc # "idle" /\ UNCHANGED mirror /\ task' = [task EXCEPT ![k] = NoTask]
    BY <1>14 DEF Fail, ticketVars
  <2>2. NoTask.pc = "idle" /\ OwnRecord(NoTask)'
    BY DEF NoTask, OwnRecord
  <2>q. QED
    BY <1>4, <2>1, <2>2
<1>q. QED
  BY <1>6, <1>7, <1>8, <1>9, <1>10, <1>11, <1>12, <1>13, <1>14 DEF Step

\* A step that begins no handler, moves none and touches no ticket.
LEMMA OwnElsewhere ==
  ASSUME OwnInv, [Next]_vars, UNCHANGED <<mirror, task>>
  PROVE  OwnInv'
<1>1. OwnIssues' /\ \A k \in Slots : task'[k] = task[k]
  BY OwnIssuesKept
<1>q. QED
  BY <1>1, OwnUpdate

\* A handler begins without an issue.
LEMMA OwnBegin ==
  ASSUME OwnInv, [Next]_vars, NEW k \in Tasks, NEW kind, NEW t, NEW pc, Begin(k, kind, t, pc),
         pc \in {"get", "write", "ensure", "create"}
  PROVE  OwnInv'
<1>1. k # Sweeper /\ TypeOK
  BY ConstantsAssumption DEF OwnInv
<1>2. /\ UNCHANGED mirror /\ task'[k].pc = pc
      /\ \A j \in Slots \ {k} : task'[j] = task[j]
  BY <1>1, BeginFields
<1>3. OwnRecord(task[k])'
  BY <1>2 DEF OwnRecord
<1>q. QED
  BY <1>1, <1>2, <1>3, OwnIssuesKept, OwnUpdate

\* The sweep reads which issue is whose.
LEMMA OwnSweepStart ==
  ASSUME OwnInv, SweepStart
  PROVE  OwnInv'
<1>1. [Next]_vars /\ UNCHANGED <<mirror, issues>>
  BY DEF Next, SweepStart, ticketVars
<1>2. PICK seen : seen = [t \in Tickets |-> [status |-> status[t], lane |-> lane[t],
                                             mirror |-> mirror[t]]]
  OBVIOUS
<1>3. PICK queue : queue = {t \in Tickets : Live(t)}
  OBVIOUS
<1>4. PICK r : r = [NoTask EXCEPT !.pc = "sweep", !.queue = queue, !.snap = seen]
  OBVIOUS
<1>5. r.pc = "sweep" /\ r.snap = seen
  BY <1>4 DEF NoTask
<1>6. task' = [task EXCEPT ![Sweeper] = r]
  BY <1>2, <1>3, <1>4 DEF SweepStart
<1>7. OwnIssues /\ \A t \in Tickets : seen[t].mirror = mirror[t]
  BY <1>2 DEF OwnInv
<1>8. OwnRecord(r)' /\ OwnSnapshot(r)'
  BY <1>1, <1>5, <1>7 DEF OwnRecord, OwnSnapshot, OwnIssues
<1>q. QED
  BY <1>1, <1>6, <1>8, OwnIssuesKept, OwnMove

\* Every step keeps it.
LEMMA OwnNext == OwnInv /\ [Next]_vars => OwnInv'
<1> SUFFICES ASSUME OwnInv, [Next]_vars PROVE OwnInv'
  OBVIOUS
<1>1. ASSUME NEW k \in Tasks, NEW t \in Tickets, Click(k, t) PROVE OwnInv'
  <2>1. PICK kind, pc : Begin(k, kind, t, pc) /\ pc \in {"create", "write", "ensure"}
    BY <1>1 DEF Click, Submit, Resolve, Drop, Reopen, SeReply, MoveToDev, ReturnToSe, LaneStep
  <2>q. QED
    BY <2>1, OwnBegin
<1>2. ASSUME NEW k \in Tasks, NEW h \in hooks, Receive(k, h) PROVE OwnInv'
  <2>1. PICK t, kind, pc : Begin(k, kind, t, pc) /\ pc \in {"get", "write"}
    BY <1>2 DEF Receive, FirstStep
  <2>q. QED
    BY <2>1, OwnBegin
<1>3. CASE People \/ (\E h \in hooks : Ignore(h) \/ Lose(h)) \/ UNCHANGED vars
  BY <1>3, OwnElsewhere DEF People, MoveIssue, Ignore, Lose, vars, ticketVars
<1>4. CASE SweepStart
  BY <1>4, OwnSweepStart
<1>5. CASE \E k \in Slots : Step(k) \/ Fail(k)
  BY <1>5, OwnStep
<1>q. QED
  BY <1>1, <1>2, <1>3, <1>4, <1>5 DEF Next

\* So does the start.
LEMMA OwnInit == Init => OwnInv
BY TypeInit DEF Init, OwnInv, OwnIssues, OwnRecord, OwnSnapshot, NoTask

\* However the handlers overlap and whatever is lost, a ticket never names the issue of
\* another one: get_by_linear_issue_id finds at most one ticket.
THEOREM NeverAnothersIssue == Spec => []OwnIssues
<1>1. OwnInv => OwnIssues
  BY DEF OwnInv
<1>q. QED
  BY <1>1, OwnInit, OwnNext, PTL DEF Spec

-----------------------------------------------------------------------------
(* What a calm sweep knows stays true.                                     *)

\* A step beside the sweep that writes no ticket and no issue.
LEMMA KnowsKept ==
  ASSUME SweepKnows, task'[Sweeper] = task[Sweeper], UNCHANGED <<status, lane, mirror, issues>>
  PROVE  SweepKnows'
<1>1. \A t : (Live(t)' <=> Live(t)) /\ (Behind(t)' <=> Behind(t))
  BY DEF Live, Behind
<1>2. \A t : (Untouched(t)' <=> Untouched(t)) /\ (Caught(t)' <=> Caught(t))
  BY <1>1 DEF Untouched, Caught
<1>3. AtTicket' <=> AtTicket
  BY <1>2 DEF AtTicket
<1>q. QED
  BY <1>2, <1>3 DEF SweepKnows

\* The sweep begins and has come to no ticket; those it leaves out are not live.
LEMMA KnowsStart ==
  ASSUME OwnInv, SweepStart
  PROVE  SweepKnows'
<1>1. UNCHANGED <<status, lane, mirror>> /\ task \in [Slots -> TaskRecord]
  BY DEF SweepStart, ticketVars, OwnInv, TypeOK, TaskTypeOK
<1>2. PICK seen : seen = [t \in Tickets |-> [status |-> status[t], lane |-> lane[t],
                                             mirror |-> mirror[t]]]
  OBVIOUS
<1>3. PICK queue : queue = {t \in Tickets : Live(t)}
  OBVIOUS
<1>4. PICK r : r = [NoTask EXCEPT !.pc = "sweep", !.queue = queue, !.snap = seen]
  OBVIOUS
<1>5. r.pc = "sweep" /\ r.snap = seen /\ r.queue = queue
  BY <1>4 DEF NoTask
<1>6. task'[Sweeper] = r
  BY <1>1, <1>2, <1>3, <1>4 DEF SweepStart
<1>7. \A t : Live(t)' <=> Live(t)
  BY <1>1 DEF Live
<1>8. \A t \in queue : Untouched(t)'
  BY <1>1, <1>2, <1>3, <1>5, <1>6, <1>7 DEF Untouched
<1>9. \A t \in Tickets \ queue : Caught(t)'
  BY <1>3, <1>7 DEF Caught
<1>q. QED
  BY <1>5, <1>6, <1>8, <1>9 DEF SweepKnows

\* A step of the sweep at a ticket that touches no other one and no issue of another.
LEMMA KnowsMove ==
  ASSUME OwnInv, SweepKnows, task[Sweeper].pc \notin {"idle", "sweep"},
         NEW t, t = task[Sweeper].ticket,
         NEW r, task'[Sweeper] = r, r.snap = task[Sweeper].snap, r.queue = task[Sweeper].queue,
         \A u \in Tickets \ {t} :
           /\ status'[u] = status[u] /\ lane'[u] = lane[u] /\ mirror'[u] = mirror[u]
           /\ mirror[u] # 0 => issues'[mirror[u]] = issues[mirror[u]],
         \/ r.pc = "sweep" /\ Caught(t)'
         \/ r.pc # "sweep" /\ r.ticket = t /\ AtTicket'
  PROVE  SweepKnows'
<1>1. t \notin r.queue /\ r.queue \subseteq Tickets
  BY DEF SweepKnows, OwnInv, TypeOK, TaskTypeOK, SlotOK, TaskRecord
<1>2. \A u \in Tickets \ {t} : (Live(u)' <=> Live(u)) /\ (Behind(u)' <=> Behind(u))
  BY DEF Live, Behind
<1>3. \A u \in Tickets \ {t} : (Untouched(u) => Untouched(u)') /\ (Caught(u) => Caught(u)')
  BY <1>2 DEF Untouched, Caught
<1>4. \A u \in r.queue : Untouched(u)'
  BY <1>1, <1>3 DEF SweepKnows
<1>5. \A u \in Tickets \ r.queue : u # t => Caught(u)'
  BY <1>3 DEF SweepKnows
<1>q. QED
  BY <1>1, <1>4, <1>5 DEF SweepKnows

\* What the sweep goes on with when it is done with a call.
LEMMA SweepFinished ==
  ASSUME task[Sweeper] \in TaskRecord
  PROVE  /\ Finished(Sweeper).snap = task[Sweeper].snap /\ Finished(Sweeper).queue = task[Sweeper].queue
         /\ task[Sweeper].kind \in Inbound \cup {"reconcile", "open_dev"} =>
              Finished(Sweeper).pc = "sweep"
         /\ task[Sweeper].kind = "sweep" =>
              \/ Finished(Sweeper).pc = "sweep"
              \/ /\ Finished(Sweeper).pc = "ensure" /\ Finished(Sweeper).kind = "open_dev"
                 /\ Finished(Sweeper).ticket = task[Sweeper].ticket
BY DEF Finished, NoTask, TaskRecord, NextCall, Inbound

\* The sweep at a ticket: the facts its steps are proved from.
SweepAt(t, s) ==
  /\ s = task[Sweeper] /\ s \in TaskRecord /\ s.pc \notin {"idle", "sweep"}
  /\ t = s.ticket /\ t \in Tickets
  /\ s.snap \in [Tickets -> Snapshot]
  /\ status \in [Tickets -> Statuses \cup {"none"}] /\ lane \in [Tickets -> Lanes]
  /\ mirror \in [Tickets -> 0 .. Len(issues)]
  /\ issues \in Seq(Issue) /\ DOMAIN issues = 1 .. Len(issues) /\ Len(issues) \in Nat
  /\ s.pc \in {"persist", "push", "read"} => s.issue \in 1 .. Len(issues) /\ s.issue # 0
  /\ \A u \in Tickets : mirror[u] # 0 => mirror[u] \in 1 .. Len(issues)
  /\ \A u \in Tickets \ {t} : mirror[u] # 0 => mirror[u] # mirror[t]

\* Whenever the sweep is at a ticket, they hold.
LEMMA SweepIsAt ==
  ASSUME OwnInv, task[Sweeper].pc \notin {"idle", "sweep"}
  PROVE  SweepAt(task[Sweeper].ticket, task[Sweeper])
<1>1. SlotOK(Sweeper, task[Sweeper], Len(issues)) /\ task[Sweeper] \in TaskRecord
  BY DEF OwnInv, TypeOK, TaskTypeOK
<1>2. /\ issues \in Seq(Issue) /\ DOMAIN issues = 1 .. Len(issues) /\ Len(issues) \in Nat
      /\ mirror \in [Tickets -> 0 .. Len(issues)]
      /\ status \in [Tickets -> Statuses \cup {"none"}] /\ lane \in [Tickets -> Lanes]
  BY DEF OwnInv, TypeOK
<1>3. \A u \in Tickets : mirror[u] # 0 => mirror[u] \in 1 .. Len(issues)
  BY <1>2
<1>4. \A u, t \in Tickets : u # t /\ mirror[u] # 0 => mirror[u] # mirror[t]
  BY <1>2 DEF OwnInv, OwnIssues
<1>q. QED
  BY <1>1, <1>2, <1>3, <1>4 DEF SweepAt, SlotOK

\* The replayed Done or Canceled reads the ticket.
LEMMA KnowsGet ==
  ASSUME OwnInv, SweepKnows, Get(Sweeper), NEW t, NEW s, SweepAt(t, s)
  PROVE  SweepKnows'
<1>1. s.pc = "get" /\ s.kind \in {"done", "canceled"} /\ UNCHANGED <<status, lane, mirror, issues>>
  BY DEF SweepAt, Get, SweepKnows, AtTicket, ticketVars
<1>2. task \in [Slots -> TaskRecord]
  BY DEF OwnInv, TypeOK, TaskTypeOK
<1>3. CASE status[t] = Target[s.kind]
  <2>1. PICK r : r = Finished(Sweeper)
    OBVIOUS
  <2>2. task'[Sweeper] = r
    BY <1>2, <1>3, <2>1 DEF Get, Finish, SweepAt
  <2>3. r.snap = s.snap /\ r.queue = s.queue /\ r.pc = "sweep"
    BY <1>1, <2>1, SweepFinished DEF SweepAt, Inbound
  <2>4. Caught(t)'
    BY <1>1, <1>3 DEF Caught, Live, Target
  <2>q. QED
    BY <1>1, <2>2, <2>3, <2>4, KnowsMove DEF SweepAt
<1>4. CASE status[t] # Target[s.kind]
  <2>1. PICK r : r = [s EXCEPT !.pc = "write"]
    OBVIOUS
  <2>2. task'[Sweeper] = r
    BY <1>2, <1>4, <2>1 DEF Get, Goto, SweepAt
  <2>3. r.pc = "write" /\ r.snap = s.snap /\ r.queue = s.queue /\ r.ticket = t /\ r.kind = s.kind
    BY <2>1 DEF SweepAt, TaskRecord
  <2>4. AtTicket'
    BY <1>1, <2>2, <2>3 DEF AtTicket, Inbound
  <2>q. QED
    BY <1>1, <2>2, <2>3, <2>4, KnowsMove DEF SweepAt
<1>q. QED
  BY <1>3, <1>4

\* It writes what the issue says.
LEMMA KnowsWrite ==
  ASSUME OwnInv, SweepKnows, Write(Sweeper), NEW t, NEW s, SweepAt(t, s)
  PROVE  SweepKnows'
<1>1. /\ s.pc = "write" /\ s.kind \in Inbound /\ UNCHANGED <<mirror, issues>>
      /\ s.kind = "in_progress" => mirror[t] # 0 /\ issues[mirror[t]].state = "in_progress"
  BY DEF SweepAt, Write, SweepKnows, AtTicket
<1>2. task \in [Slots -> TaskRecord]
  BY DEF OwnInv, TypeOK, TaskTypeOK
<1>3. s.kind \notin LaneKinds
  BY <1>1 DEF Inbound, LaneKinds
<1>4. status' = [status EXCEPT ![t] = Target[s.kind]] /\ UNCHANGED lane /\ Finish(Sweeper)
  BY <1>1, <1>3 DEF Write, SweepAt
<1>5. PICK r : r = Finished(Sweeper)
  OBVIOUS
<1>6. task'[Sweeper] = r
  BY <1>2, <1>4, <1>5 DEF Finish
<1>7. r.snap = s.snap /\ r.queue = s.queue /\ r.pc = "sweep"
  BY <1>1, <1>5, SweepFinished DEF SweepAt
<1>8. status'[t] = Target[s.kind] /\ \A u \in Tickets \ {t} : status'[u] = status[u]
  BY <1>4 DEF SweepAt
<1>9. Caught(t)'
  <2>1. CASE s.kind \in {"done", "canceled"}
    BY <1>8, <2>1 DEF Caught, Live, Target
  <2>2. CASE s.kind = "in_progress"
    <3>1. status'[t] = "in_progress"
      BY <1>8, <2>2 DEF Target
    <3>q. QED
      BY <1>1, <2>2, <3>1 DEF Caught, Behind
  <2>q. QED
    BY <1>1, <2>1, <2>2 DEF Inbound
<1>q. QED
  BY <1>1, <1>4, <1>6, <1>7, <1>8, <1>9, KnowsMove DEF SweepAt

\* The issue of a dev ticket is about to be opened.
LEMMA KnowsEnsure ==
  ASSUME OwnInv, SweepKnows, Ensure(Sweeper), NEW t, NEW s, SweepAt(t, s)
  PROVE  SweepKnows'
<1>1. /\ s.pc = "ensure" /\ s.kind = "open_dev" /\ s.snap[t].mirror = 0
      /\ mirror[t] # 0 /\ Caught(t) /\ UNCHANGED <<status, lane, mirror, issues>>
  BY DEF SweepAt, Ensure, SweepKnows, AtTicket, ticketVars
<1>2. task \in [Slots -> TaskRecord]
  BY DEF OwnInv, TypeOK, TaskTypeOK
<1>3. PICK i : i = mirror[t]
  OBVIOUS
<1>4. PICK r : r = [s EXCEPT !.pc = "push", !.issue = i, !.state = "in_progress"]
  OBVIOUS
<1>5. HasIssue(Sweeper, i) = r
  BY <1>1, <1>4 DEF HasIssue, SweepAt, SyncKinds, Fixed
<1>6. task'[Sweeper] = r
  BY <1>1, <1>2, <1>3, <1>5 DEF Ensure, SweepAt
<1>7. /\ r.pc = "push" /\ r.snap = s.snap /\ r.queue = s.queue /\ r.ticket = t
      /\ r.kind = s.kind /\ r.issue = i /\ r.state = "in_progress"
  BY <1>4 DEF SweepAt, TaskRecord
<1>8. Live(t)' <=> Live(t)
  BY <1>1 DEF Live
<1>9. Caught(t)'
  BY <1>1, <1>6, <1>7, <1>8 DEF Caught, SweepAt
<1>10. AtTicket'
  BY <1>1, <1>3, <1>6, <1>7, <1>9 DEF AtTicket
<1>q. QED
  BY <1>1, <1>6, <1>7, <1>10, KnowsMove DEF SweepAt

\* A ticket without an issue gets one.
LEMMA KnowsCreate ==
  ASSUME OwnInv, SweepKnows, Create(Sweeper), UNCHANGED faults, NEW t, NEW s, SweepAt(t, s)
  PROVE  SweepKnows'
<1>1. /\ s.pc = "create" /\ s.kind = "sweep" /\ s.snap[t].mirror = 0 /\ s.state \in Started
      /\ UNCHANGED <<status, lane, mirror>>
  BY DEF SweepAt, Create, SweepKnows, AtTicket, ticketVars
<1>2. task \in [Slots -> TaskRecord] /\ faults \in Nat
  BY DEF OwnInv, TypeOK, TaskTypeOK
<1>3. ~Outage
  BY <1>2 DEF Outage
<1>4. /\ issues' = Append(issues, [ticket |-> s.ticket, state |-> s.state, moved |-> FALSE])
      /\ task' = [task EXCEPT ![Sweeper].pc = "persist", ![Sweeper].issue = Len(issues) + 1]
  BY <1>3 DEF Create, SweepAt
<1>5. PICK r : r = [s EXCEPT !.pc = "persist", !.issue = Len(issues) + 1]
  OBVIOUS
<1>6. task'[Sweeper] = r
  BY <1>2, <1>4, <1>5 DEF SweepAt
<1>7. /\ r.pc = "persist" /\ r.snap = s.snap /\ r.queue = s.queue /\ r.ticket = t
      /\ r.kind = s.kind /\ r.issue = Len(issues) + 1
  BY <1>5 DEF SweepAt, TaskRecord
<1>8. /\ issues'[Len(issues) + 1].state = s.state
      /\ \A i \in 1 .. Len(issues) : issues'[i] = issues[i]
  BY <1>4 DEF SweepAt
<1>9. AtTicket'
  BY <1>1, <1>6, <1>7, <1>8 DEF AtTicket
<1>q. QED
  BY <1>1, <1>6, <1>7, <1>8, <1>9, KnowsMove DEF SweepAt

\* The ticket learns of it.
LEMMA KnowsPersist ==
  ASSUME OwnInv, SweepKnows, Persist(Sweeper), NEW t, NEW s, SweepAt(t, s)
  PROVE  SweepKnows'
<1>1. /\ s.pc = "persist" /\ s.kind = "sweep" /\ s.snap[t].mirror = 0
      /\ issues[s.issue].state \in Started
      /\ UNCHANGED <<status, lane, issues>>
  BY DEF SweepAt, Persist, SweepKnows, AtTicket
<1>2. task \in [Slots -> TaskRecord]
  BY DEF OwnInv, TypeOK, TaskTypeOK
<1>3. PICK i : i = s.issue
  OBVIOUS
<1>4. PICK r : r = Finished(Sweeper)
  OBVIOUS
<1>5. HasIssue(Sweeper, i) = r
  BY <1>1, <1>4 DEF HasIssue, SweepAt, SyncKinds, Fixed
<1>6. /\ task'[Sweeper] = r
      /\ mirror' = [mirror EXCEPT ![t] = i]
  BY <1>2, <1>3, <1>5 DEF Persist, SweepAt
<1>7. /\ r.snap = s.snap /\ r.queue = s.queue
      /\ r.pc = "sweep" \/ (r.pc = "ensure" /\ r.kind = "open_dev" /\ r.ticket = t)
  BY <1>1, <1>4, SweepFinished DEF SweepAt
<1>8. mirror'[t] = i /\ i # 0 /\ \A u \in Tickets \ {t} : mirror'[u] = mirror[u]
  BY <1>1, <1>3, <1>6 DEF SweepAt
<1>9. Caught(t)'
  BY <1>1, <1>3, <1>6, <1>7, <1>8 DEF Caught, Started
<1>10. r.pc # "sweep" => AtTicket'
  BY <1>1, <1>6, <1>7, <1>8, <1>9 DEF AtTicket
<1>q. QED
  BY <1>1, <1>6, <1>7, <1>8, <1>9, <1>10, KnowsMove DEF SweepAt

\* The issue of a dev ticket is opened; no other ticket has that issue.
LEMMA KnowsPush ==
  ASSUME OwnInv, SweepKnows, Push(Sweeper), UNCHANGED faults, NEW t, NEW s, SweepAt(t, s)
  PROVE  SweepKnows'
<1>1. /\ s.pc = "push" /\ s.kind = "open_dev" /\ s.snap[t].mirror = 0
      /\ s.issue = mirror[t] /\ s.state = "in_progress" /\ mirror[t] # 0
      /\ UNCHANGED <<status, lane, mirror>>
  BY DEF SweepAt, Push, SweepKnows, AtTicket, ticketVars
<1>2. task \in [Slots -> TaskRecord] /\ faults \in Nat
  BY DEF OwnInv, TypeOK, TaskTypeOK
<1>3. ~Outage
  BY <1>2 DEF Outage
<1>4. PICK r : r = Finished(Sweeper)
  OBVIOUS
<1>5. PICK i \in 1 .. Len(issues) : i = mirror[t]
  BY <1>1 DEF SweepAt
<1>6. task'[Sweeper] = r /\ issues' = [issues EXCEPT ![i].state = "in_progress"]
  BY <1>1, <1>2, <1>3, <1>4, <1>5 DEF Push, Finish, SweepAt
<1>7. r.snap = s.snap /\ r.queue = s.queue /\ r.pc = "sweep"
  BY <1>1, <1>4, SweepFinished DEF SweepAt
<1>8. issues[i] \in Issue
  BY <1>5 DEF SweepAt
<1>9. issues'[i].state = "in_progress" /\ \A j \in (1 .. Len(issues)) \ {i} : issues'[j] = issues[j]
  BY <1>5, <1>6, <1>8 DEF SweepAt, Issue
<1>10. Caught(t)'
  BY <1>1, <1>5, <1>6, <1>7, <1>9 DEF Caught
<1>11. \A u \in Tickets \ {t} : mirror[u] # 0 => issues'[mirror[u]] = issues[mirror[u]]
  BY <1>5, <1>9 DEF SweepAt
<1>q. QED
  BY <1>1, <1>6, <1>7, <1>10, <1>11, KnowsMove DEF SweepAt

\* The sweep reads the issue: it acts on it, or the ticket is not behind.
LEMMA KnowsRead ==
  ASSUME OwnInv, SweepKnows, SweepRead(Sweeper), UNCHANGED faults, NEW t, NEW s, SweepAt(t, s)
  PROVE  SweepKnows'
<1>1. /\ s.pc = "read" /\ s.kind = "reconcile" /\ Untouched(t) /\ s.issue = mirror[t] /\ mirror[t] # 0
      /\ UNCHANGED <<status, lane, mirror, issues>>
  BY DEF SweepAt, SweepRead, SweepKnows, AtTicket, ticketVars
<1>2. task \in [Slots -> TaskRecord] /\ faults \in Nat
  BY DEF OwnInv, TypeOK, TaskTypeOK
<1>3. ~Outage
  BY <1>2 DEF Outage
<1>4. PICK state : state = issues[mirror[t]].state
  OBVIOUS
<1>5. s.snap[t].status = status[t] /\ Live(t)
  BY <1>1 DEF Untouched, SweepAt
<1>6. CASE Acts(state, status[t])
  <2>1. PICK r : r = [s EXCEPT !.pc = FirstStep(state), !.kind = state]
    OBVIOUS
  <2>2. task'[Sweeper] = r
    BY <1>1, <1>2, <1>3, <1>4, <1>5, <1>6, <2>1 DEF SweepRead, SweepAt
  <2>3. /\ r.pc = FirstStep(state) /\ r.kind = state
        /\ r.snap = s.snap /\ r.queue = s.queue /\ r.ticket = t
    BY <2>1 DEF SweepAt, TaskRecord
  <2>4. state \in Inbound
    BY <1>6 DEF Acts, Inbound
  <2>5. AtTicket'
    BY <1>1, <1>4, <2>2, <2>3, <2>4 DEF AtTicket, FirstStep, Inbound
  <2>q. QED
    BY <1>1, <2>2, <2>3, <2>5, KnowsMove DEF SweepAt, FirstStep
<1>7. CASE ~Acts(state, status[t])
  <2>1. PICK r : r = Finished(Sweeper)
    OBVIOUS
  <2>2. task'[Sweeper] = r
    BY <1>1, <1>2, <1>3, <1>4, <1>5, <1>7, <2>1 DEF SweepRead, SweepAt
  <2>3. r.snap = s.snap /\ r.queue = s.queue /\ r.pc = "sweep"
    BY <1>1, <2>1, SweepFinished DEF SweepAt
  <2>4. Caught(t)'
    BY <1>1, <1>4, <1>5, <1>7 DEF Caught, Live, Behind, Acts, Retired
  <2>q. QED
    BY <1>1, <2>2, <2>3, <2>4, KnowsMove DEF SweepAt
<1>q. QED
  BY <1>6, <1>7

\* The sweep goes on to its next ticket.
LEMMA KnowsNext ==
  ASSUME OwnInv, SweepKnows, SweepNext(Sweeper), task'[Sweeper].pc # "idle"
  PROVE  SweepKnows'
<1>1. task \in [Slots -> TaskRecord] /\ SlotOK(Sweeper, task[Sweeper], Len(issues))
  BY DEF OwnInv, TypeOK, TaskTypeOK
<1>2. PICK s : s = task[Sweeper]
  OBVIOUS
<1>3. /\ s \in TaskRecord /\ s.pc = "sweep" /\ UNCHANGED <<status, lane, mirror, issues>>
      /\ s.queue \subseteq Tickets
      /\ \A u \in s.queue : Untouched(u)
      /\ \A u \in Tickets \ s.queue : Caught(u)
  BY <1>1, <1>2 DEF SweepNext, ticketVars, SweepKnows, TaskRecord
<1>4. task' # [task EXCEPT ![Sweeper] = NoTask]
  BY <1>1 DEF NoTask
<1>5. PICK t \in s.queue :
        task' = [task EXCEPT
          ![Sweeper].queue = @ \ {t},
          ![Sweeper].ticket = t,
          ![Sweeper].kind = IF s.snap[t].mirror = 0 THEN "sweep" ELSE "reconcile",
          ![Sweeper].pc = IF s.snap[t].mirror = 0 THEN "create" ELSE "read",
          ![Sweeper].issue = s.snap[t].mirror,
          ![Sweeper].state = Expected(s.snap[t].status, s.snap[t].lane)]
  BY <1>2, <1>4 DEF SweepNext
<1>6. PICK kind, pc, i, state :
        /\ kind = IF s.snap[t].mirror = 0 THEN "sweep" ELSE "reconcile"
        /\ pc = IF s.snap[t].mirror = 0 THEN "create" ELSE "read"
        /\ i = s.snap[t].mirror
        /\ state = Expected(s.snap[t].status, s.snap[t].lane)
  OBVIOUS
<1>7. PICK r : r = [s EXCEPT !.queue = @ \ {t}, !.ticket = t, !.kind = kind, !.pc = pc,
                      !.issue = i, !.state = state]
  OBVIOUS
<1>8. task'[Sweeper] = r
  BY <1>1, <1>2, <1>5, <1>6, <1>7
<1>9. /\ r.queue = s.queue \ {t} /\ r.ticket = t /\ r.kind = kind /\ r.pc = pc
      /\ r.issue = i /\ r.state = state /\ r.snap = s.snap
  BY <1>3, <1>7 DEF TaskRecord
<1>10. \A u : (Live(u)' <=> Live(u)) /\ (Behind(u)' <=> Behind(u))
  BY <1>3 DEF Live, Behind
<1>11. \A u : (Untouched(u) => Untouched(u)') /\ (Caught(u) => Caught(u)')
  BY <1>2, <1>3, <1>8, <1>9, <1>10 DEF Untouched, Caught
<1>12. Untouched(t) /\ s.snap[t].status = status[t] /\ s.snap[t].mirror = mirror[t]
  BY <1>2, <1>3 DEF Untouched
<1>13. pc = "create" => kind = "sweep" /\ s.snap[t].mirror = 0 /\ state \in Started
  BY <1>6, <1>12 DEF Expected, Started, Untouched, Live, Retired
<1>14. pc = "read" => kind = "reconcile" /\ i = mirror[t]
  BY <1>6, <1>12
<1>15. AtTicket'
  BY <1>3, <1>6, <1>8, <1>9, <1>11, <1>12, <1>13, <1>14 DEF AtTicket
<1>q. QED
  BY <1>3, <1>6, <1>8, <1>9, <1>11, <1>15 DEF SweepKnows

\* Any step of the sweep that loses nothing.
LEMMA KnowsStep ==
  ASSUME OwnInv, SweepKnows, Step(Sweeper), UNCHANGED faults,
         task[Sweeper].pc # "idle", task'[Sweeper].pc # "idle"
  PROVE  SweepKnows'
<1>1. CASE task[Sweeper].pc = "sweep"
  <2>1. SweepNext(Sweeper)
    BY <1>1 DEF Step, Get, Write, Ensure, Create, Persist, Reread, Push, SweepRead
  <2>q. QED
    BY <2>1, KnowsNext
<1>2. CASE task[Sweeper].pc # "sweep"
  <2>1. PICK t, s : SweepAt(t, s)
    BY <1>2, SweepIsAt
  <2>2. ~Reread(Sweeper) /\ ~SweepNext(Sweeper)
    BY <1>2 DEF Reread, SweepNext, SweepKnows, AtTicket
  <2>q. QED
    BY <2>1, <2>2, KnowsGet, KnowsWrite, KnowsEnsure, KnowsCreate, KnowsPersist, KnowsPush, KnowsRead
       DEF Step
<1>q. QED
  BY <1>1, <1>2

\* Which steps the sweep itself takes.
LEMMA SweeperMoves ==
  ASSUME TypeOK, [Next]_vars, task'[Sweeper] # task[Sweeper]
  PROVE  Step(Sweeper) \/ Fail(Sweeper) \/ SweepStart
<1>1. task \in [Slots -> TaskRecord] /\ Sweeper \notin Tasks
  BY ConstantsAssumption DEF TypeOK, TaskTypeOK
<1>2. ASSUME NEW k \in Tasks, NEW kind, NEW t, NEW pc, Begin(k, kind, t, pc) PROVE FALSE
  BY <1>1, <1>2, BeginFields
<1>3. ASSUME NEW k \in Tasks, NEW t \in Tickets, Click(k, t) PROVE FALSE
  BY <1>2, <1>3 DEF Click, Submit, Resolve, Drop, Reopen, SeReply, MoveToDev, ReturnToSe
<1>4. ASSUME NEW k \in Tasks, NEW h \in hooks, Receive(k, h) PROVE FALSE
  BY <1>2, <1>4 DEF Receive
<1>5. ~People /\ (~\E h \in hooks : Ignore(h) \/ Lose(h)) /\ ~UNCHANGED vars
  BY DEF People, MoveIssue, Ignore, Lose, vars
<1>6. ASSUME NEW k \in Slots, k # Sweeper, NEW r, task' = [task EXCEPT ![k] = r] PROVE FALSE
  BY <1>1, <1>6
<1>7. ASSUME NEW k \in Slots, k # Sweeper, Step(k) \/ Fail(k) PROVE FALSE
  BY <1>1, <1>7 DEF Step, Get, Write, Ensure, Create, Persist, Reread, Push, SweepNext, SweepRead,
     Fail, Finish, Goto
<1>q. QED
  BY <1>3, <1>4, <1>5, <1>7 DEF Next

\* A handler's death is a loss.
LEMMA FailIsLoss == ASSUME TypeOK, NEW k, Fail(k) PROVE faults' # faults
BY DEF Fail, Outage, TypeOK

\* Every step keeps what a calm sweep knows.
LEMMA SweepNextInv == SweepInv /\ [Next /\ Remember]_sweepVars => SweepInv'
<1> SUFFICES ASSUME SweepInv, [Next /\ Remember]_sweepVars PROVE SweepInv'
  OBVIOUS
<1>1. OwnInv /\ TypeOK /\ [Next]_vars
  BY DEF SweepInv, OwnInv, sweepVars, vars
<1>2. ASSUME calm', task'[Sweeper].pc # "idle" PROVE SweepKnows'
  <2>1. CASE UNCHANGED sweepVars
    BY <1>2, <2>1, KnowsKept DEF SweepInv, sweepVars, vars
  <2>2. CASE Next /\ Remember /\ task[Sweeper].pc = "idle"
    <3>1. task'[Sweeper] # task[Sweeper]
      BY <1>2, <2>2
    <3>2. ~Step(Sweeper) /\ ~Fail(Sweeper)
      BY <2>2 DEF Step, Get, Write, Ensure, Create, Persist, Reread, Push, SweepNext, SweepRead, Fail
    <3>q. QED
      BY <1>1, <3>1, <3>2, SweeperMoves, KnowsStart
  <2>3. CASE Next /\ Remember /\ task[Sweeper].pc # "idle"
    <3>1. SweepKnows /\ Undisturbed
      BY <1>2, <2>3 DEF SweepInv, Remember
    <3>2. CASE task'[Sweeper] = task[Sweeper]
      BY <3>1, <3>2, KnowsKept DEF Undisturbed, ticketVars
    <3>3. CASE task'[Sweeper] # task[Sweeper]
      <4>1. Step(Sweeper)
        BY <1>1, <2>3, <3>1, <3>3, SweeperMoves, FailIsLoss DEF Undisturbed, SweepStart
      <4>q. QED
        BY <1>1, <1>2, <2>3, <3>1, <4>1, KnowsStep DEF Undisturbed
    <3>q. QED
      BY <3>2, <3>3
  <2>q. QED
    BY <2>1, <2>2, <2>3
<1>q. QED
  BY <1>1, <1>2, OwnNext DEF SweepInv

\* A calm sweep that ends has been to every live ticket.
LEMMA SweepEnds ==
  ASSUME SweepInv, Next, Remember, task[Sweeper].pc # "idle", task'[Sweeper].pc = "idle", calm'
  PROVE  \A t \in Tickets : Caught(t)
<1>1. OwnInv /\ TypeOK /\ SweepKnows /\ UNCHANGED faults
  BY DEF SweepInv, OwnInv, Remember, Undisturbed
<1>2. Step(Sweeper)
  BY <1>1, SweeperMoves, FailIsLoss DEF SweepStart
<1>3. task \in [Slots -> TaskRecord] /\ SlotOK(Sweeper, task[Sweeper], Len(issues))
  BY <1>1 DEF TypeOK, TaskTypeOK
<1>4. ~Finish(Sweeper)
  <2>1. PICK r : r = Finished(Sweeper) /\ r.pc # "idle"
    BY <1>3, FinishedShape
  <2>q. QED
    BY <1>3, <2>1 DEF Finish
<1>5. ASSUME NEW pc \in {"write", "ensure"}, Goto(Sweeper, pc) PROVE FALSE
  BY <1>3, <1>5 DEF Goto, TaskRecord
<1>6. ASSUME NEW i \in Nat, task' = [task EXCEPT ![Sweeper] = HasIssue(Sweeper, i)] PROVE FALSE
  <2>1. PICK r : r = HasIssue(Sweeper, i) /\ r.pc # "idle"
    BY <1>3, HasIssueShape
  <2>q. QED
    BY <1>3, <1>6, <2>1
<1>7. ~Get(Sweeper) /\ ~Write(Sweeper)
  BY <1>4, <1>5 DEF Get, Write
<1>8. ~Ensure(Sweeper)
  <2> SUFFICES ASSUME Ensure(Sweeper) PROVE FALSE
    OBVIOUS
  <2>1. mirror[task[Sweeper].ticket] \in Nat
    BY <1>1, <1>3 DEF TypeOK, SlotOK, Ensure
  <2>2. CASE mirror[task[Sweeper].ticket] # 0
    BY <1>6, <2>1, <2>2 DEF Ensure
  <2>3. CASE mirror[task[Sweeper].ticket] = 0
    <3>1. PICK state : state = Expected(status[task[Sweeper].ticket], lane[task[Sweeper].ticket])
      OBVIOUS
    <3>2. PICK r : r = [task[Sweeper] EXCEPT !.pc = "create", !.state = state]
      OBVIOUS
    <3>3. task' = [task EXCEPT ![Sweeper] = r]
      BY <2>3, <3>1, <3>2 DEF Ensure
    <3>4. r.pc = "create"
      BY <1>3, <3>2 DEF TaskRecord
    <3>q. QED
      BY <1>3, <3>3, <3>4
  <2>q. QED
    BY <2>2, <2>3
<1>9. ~Create(Sweeper)
  BY <1>3, <1>4 DEF Create, TaskRecord
<1>10. ~Persist(Sweeper)
  BY <1>3, <1>6 DEF Persist, TaskRecord
<1>11. ~Reread(Sweeper) /\ ~Push(Sweeper)
  BY <1>1, <1>4 DEF Reread, Push, SweepKnows, AtTicket
<1>12. ~SweepRead(Sweeper)
  <2> SUFFICES ASSUME SweepRead(Sweeper), ~Finish(Sweeper) PROVE FALSE
    BY <1>4
  <2>1. PICK state : state = issues[task[Sweeper].issue].state
    OBVIOUS
  <2>2. PICK r : r = [task[Sweeper] EXCEPT !.pc = FirstStep(state), !.kind = state]
    OBVIOUS
  <2>3. task' = [task EXCEPT ![Sweeper] = r]
    BY <2>1, <2>2 DEF SweepRead, Finish
  <2>4. r.pc # "idle"
    BY <1>3, <2>2 DEF TaskRecord, FirstStep
  <2>q. QED
    BY <1>3, <2>3, <2>4
<1>13. SweepNext(Sweeper)
  BY <1>2, <1>7, <1>8, <1>9, <1>10, <1>11, <1>12 DEF Step
<1>14. task[Sweeper].queue = {}
  <2> SUFFICES ASSUME task[Sweeper].queue # {} PROVE FALSE
    OBVIOUS
  <2>1. PICK t \in task[Sweeper].queue :
          task' = [task EXCEPT
            ![Sweeper].queue = @ \ {t},
            ![Sweeper].ticket = t,
            ![Sweeper].kind = IF task[Sweeper].snap[t].mirror = 0 THEN "sweep" ELSE "reconcile",
            ![Sweeper].pc = IF task[Sweeper].snap[t].mirror = 0 THEN "create" ELSE "read",
            ![Sweeper].issue = task[Sweeper].snap[t].mirror,
            ![Sweeper].state = Expected(task[Sweeper].snap[t].status, task[Sweeper].snap[t].lane)]
    BY <1>13 DEF SweepNext
  <2>2. PICK kind, pc, i, state, seen :
          /\ seen = task[Sweeper].snap[t]
          /\ kind = IF seen.mirror = 0 THEN "sweep" ELSE "reconcile"
          /\ pc = IF seen.mirror = 0 THEN "create" ELSE "read"
          /\ i = seen.mirror
          /\ state = Expected(seen.status, seen.lane)
    OBVIOUS
  <2>3. PICK r : r = [task[Sweeper] EXCEPT !.queue = @ \ {t}, !.ticket = t, !.kind = kind,
                        !.pc = pc, !.issue = i, !.state = state]
    OBVIOUS
  <2>4. task'[Sweeper] = r
    BY <1>3, <2>1, <2>2, <2>3
  <2>5. r.pc = pc
    BY <1>3, <2>3 DEF TaskRecord, SlotOK
  <2>q. QED
    BY <2>2, <2>4, <2>5
<1>q. QED
  BY <1>1, <1>13, <1>14 DEF SweepKnows, SweepNext

\* Whatever overlapped or got lost before: a sweep that loses nothing and that nobody writes
\* beside leaves no live ticket without an issue that is open, and none behind the one that
\* it read (ReconcileLinear._sweep, _reconcile).
THEOREM SweepAlwaysCatchesUp == SweepSpec => SweepCatchesUp
<1>1. SweepInit => SweepInv
  BY OwnInit DEF SweepInit, SweepInv
<1>2. SweepInv /\ [Next /\ Remember]_sweepVars =>
        [task[Sweeper].pc # "idle" /\ task'[Sweeper].pc = "idle" /\ calm' =>
           \A t \in Tickets : Caught(t)]_sweepVars
  BY SweepEnds
<1>q. QED
  BY <1>1, <1>2, SweepNextInv, PTL DEF SweepSpec, SweepCatchesUp
=============================================================================

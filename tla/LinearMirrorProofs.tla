------------------------- MODULE LinearMirrorProofs -------------------------
(***************************************************************************)
(* Theorems about LinearMirror for any tickets, handlers and bounds.       *)
(***************************************************************************)
EXTENDS LinearMirror, FiniteSetTheorems, TLAPS

USE DEF Slots

\* The part of TypeOK that is not about handlers.
TablesOK ==
  /\ status \in [Tickets -> Statuses \cup {"none"}]
  /\ lane \in [Tickets -> Lanes]
  /\ mirror \in [Tickets -> 0 .. Len(issues)]
  /\ issues \in Seq(Issue)
  /\ hooks \in SUBSET Webhook
  /\ runs \in Nat /\ moves \in Nat /\ faults \in Nat

\* TypeOK is about the tables and about the handlers.
LEMMA Split == TypeOK <=> TablesOK /\ TaskTypeOK
BY DEF TypeOK, TablesOK

\* The initial state is well typed.
LEMMA TypeInit == Init => TypeOK
BY DEF Init, TypeOK, TaskTypeOK, SlotOK, NoTask, TaskRecord, PCs, States, Lanes

\* More issues in Linear do no harm to a handler.
LEMMA MoreIssues ==
  ASSUME NEW k, NEW r, NEW n \in Nat, NEW m \in Nat, n <= m, SlotOK(k, r, n)
  PROVE  SlotOK(k, r, m)
BY DEF SlotOK, TaskRecord, Snapshot

\* A ticket's state and lane map to a column of the board.
LEMMA ExpectedTyped ==
  ASSUME NEW s, NEW l PROVE Expected(s, l) \in States
BY DEF Expected, States

\* An idle slot is well formed.
LEMMA NoTaskTyped == ASSUME NEW k, NEW n PROVE SlotOK(k, NoTask, n)
BY DEF SlotOK, NoTask, TaskRecord, PCs, States

\* What follows a call leaves a well-formed handler.
LEMMA FinishedTyped ==
  ASSUME NEW k \in Slots, NEW n \in Nat, SlotOK(k, task[k], n),
         task[k].pc \notin {"idle", "sweep"}
  PROVE  SlotOK(k, Finished(k), n)
<1>. DEFINE r == task[k]
<1>1. r \in TaskRecord /\ r.ticket \in Tickets
  BY DEF SlotOK
<1>2. CASE r.kind \in DOMAIN NextCall
  <2>1. NextCall[r.kind] \in Kinds
    BY <1>2 DEF NextCall, Kinds
  <2>2. Finished(k) = [r EXCEPT !.pc = "ensure", !.kind = NextCall[r.kind]]
    BY <1>2 DEF Finished
  <2>q. QED
    BY <1>1, <2>1, <2>2 DEF SlotOK, TaskRecord, PCs
<1>3. CASE r.kind \notin DOMAIN NextCall /\ r.kind = "sweep" /\ r.snap[r.ticket].lane = "dev"
  <2>1. Finished(k) = [r EXCEPT !.pc = "ensure", !.kind = "open_dev"]
    BY <1>3 DEF Finished
  <2>q. QED
    BY <1>1, <2>1 DEF SlotOK, TaskRecord, PCs, Kinds
<1>4. CASE /\ r.kind \notin DOMAIN NextCall
           /\ ~(r.kind = "sweep" /\ r.snap[r.ticket].lane = "dev")
           /\ k = Sweeper
  <2>1. Finished(k) = [NoTask EXCEPT !.pc = "sweep", !.queue = r.queue, !.snap = r.snap]
    BY <1>4 DEF Finished
  <2>2. Finished(k) = [pc |-> "sweep", kind |-> None, ticket |-> None, issue |-> 0,
                       state |-> "triage", queue |-> r.queue, snap |-> r.snap]
    BY <2>1 DEF NoTask
  <2>3. Finished(k) \in TaskRecord
    BY <1>1, <2>2 DEF TaskRecord, PCs, States
  <2>4. /\ Finished(k).snap \in [Tickets -> Snapshot]
        /\ \A t \in Tickets : Finished(k).snap[t].mirror <= n
    BY <1>4, <2>2 DEF SlotOK
  <2>q. QED
    BY <1>4, <2>2, <2>3, <2>4 DEF SlotOK
<1>5. CASE /\ r.kind \notin DOMAIN NextCall
           /\ ~(r.kind = "sweep" /\ r.snap[r.ticket].lane = "dev")
           /\ k # Sweeper
  <2>1. Finished(k) = NoTask
    BY <1>5 DEF Finished
  <2>q. QED
    BY <2>1, NoTaskTyped
<1>q. QED
  BY <1>2, <1>3, <1>4, <1>5

\* The call that has its issue goes on with it, or is done.
LEMMA HasIssueTyped ==
  ASSUME NEW k \in Slots, NEW n \in Nat, SlotOK(k, task[k], n),
         task[k].pc \notin {"idle", "sweep"},
         NEW i \in 1 .. n
  PROVE  SlotOK(k, HasIssue(k, i), n)
<1>. DEFINE r == task[k]
<1>1. r \in TaskRecord /\ r.ticket \in Tickets /\ i \in Nat
  BY DEF SlotOK
<1>2. CASE r.kind \in SyncKinds
  <2>1. HasIssue(k, i) = [r EXCEPT !.pc = "reread", !.issue = i]
    BY <1>2 DEF HasIssue
  <2>q. QED
    BY <1>1, <2>1 DEF SlotOK, TaskRecord, PCs
<1>3. CASE r.kind \notin SyncKinds /\ r.kind \in DOMAIN Fixed
  <2>1. HasIssue(k, i) = [r EXCEPT !.pc = "push", !.issue = i, !.state = Fixed[r.kind]]
    BY <1>3 DEF HasIssue
  <2>2. Fixed[r.kind] \in States
    BY <1>3 DEF Fixed, States
  <2>q. QED
    BY <1>1, <2>1, <2>2 DEF SlotOK, TaskRecord, PCs
<1>4. CASE r.kind \notin SyncKinds /\ r.kind \notin DOMAIN Fixed
  BY <1>4, FinishedTyped DEF HasIssue
<1>q. QED
  BY <1>2, <1>3, <1>4

\* A step that replaces one slot by a well-formed one, and adds at most issues.
LEMMA Update ==
  ASSUME TaskTypeOK, NEW k \in Slots,
         Len(issues) \in Nat, Len(issues') \in Nat, Len(issues) <= Len(issues'),
         SlotOK(k, task'[k], Len(issues')), task' = [task EXCEPT ![k] = task'[k]]
  PROVE  TaskTypeOK'
<1>1. task' \in [Slots -> TaskRecord]
  BY DEF TaskTypeOK, SlotOK
<1>2. ASSUME NEW j \in Slots PROVE SlotOK(j, task'[j], Len(issues'))
  <2>1. CASE j = k
    BY <2>1
  <2>2. CASE j # k
    <3>1. SlotOK(j, task[j], Len(issues)) /\ task'[j] = task[j]
      BY <2>2 DEF TaskTypeOK
    <3>q. QED
      BY <3>1, MoreIssues
  <2>q. QED
    BY <2>1, <2>2
<1>q. QED
  BY <1>1, <1>2 DEF TaskTypeOK

\* The same, for a step that says what it puts into the slot.
LEMMA Replace ==
  ASSUME TaskTypeOK, NEW k \in Slots, NEW r, Len(issues) \in Nat, issues' = issues,
         SlotOK(k, r, Len(issues)), task' = [task EXCEPT ![k] = r]
  PROVE  TaskTypeOK'
<1>1. task'[k] = r /\ task' = [task EXCEPT ![k] = task'[k]]
  BY DEF TaskTypeOK
<1>2. /\ Len(issues') \in Nat /\ Len(issues) <= Len(issues')
      /\ SlotOK(k, task'[k], Len(issues'))
  BY <1>1
<1>q. QED
  BY ONLY TaskTypeOK, k \in Slots, Len(issues) \in Nat, <1>1, <1>2, Update

\* A step that only moves one slot on leaves the tables alone.
LEMMA SlotStep ==
  ASSUME TypeOK, NEW k \in Slots, NEW r, SlotOK(k, r, Len(issues)),
         task' = [task EXCEPT ![k] = r],
         UNCHANGED <<ticketVars, issues, hooks, runs, moves>>, faults' \in Nat
  PROVE  TypeOK'
<1>1. TaskTypeOK /\ Len(issues) \in Nat /\ issues' = issues
  BY DEF TypeOK
<1>2. TaskTypeOK'
  BY <1>1, Replace
<1>q. QED
  BY <1>1, <1>2 DEF TypeOK, ticketVars

\* A handler starts with its ticket and without an issue.
LEMMA BeginTyped ==
  ASSUME TypeOK, NEW k, NEW kind \in Kinds, NEW t \in Tickets,
         NEW pc \in {"get", "write", "ensure", "create"},
         pc = "get" => kind \in Inbound,
         pc = "write" => kind \in DOMAIN Target \cup LaneKinds,
         Begin(k, kind, t, pc)
  PROVE  /\ TaskTypeOK' /\ runs' \in Nat
         /\ UNCHANGED <<lane, mirror, issues, moves, faults>>
<1>. DEFINE r == [NoTask EXCEPT !.pc = pc, !.kind = kind, !.ticket = t]
<1>1. k \in Tasks /\ k # Sweeper /\ task' = [task EXCEPT ![k] = r] /\ issues' = issues
      /\ runs' = runs + 1
  BY ConstantsAssumption DEF Begin
<1>2. /\ r \in TaskRecord
      /\ r.pc = pc /\ r.kind = kind /\ r.ticket = t
  BY DEF NoTask, TaskRecord, PCs, States
<1>3. SlotOK(k, r, Len(issues))
  BY <1>1, <1>2 DEF SlotOK
<1>4. TaskTypeOK /\ Len(issues) \in Nat /\ issues' = issues
  BY <1>1 DEF TypeOK
<1>5. TaskTypeOK'
  BY <1>1, <1>3, <1>4, Replace
<1>q. QED
  BY <1>1, <1>5 DEF Begin, TypeOK

\* A click.
LEMMA ClickTyped ==
  ASSUME TypeOK, NEW k \in Tasks, NEW t \in Tickets, Click(k, t)
  PROVE  TypeOK'
<1>1. CASE Submit(k, t)
  <2>1. "submit" \in Kinds
    BY DEF Kinds
  <2>q. QED
    BY <1>1, <2>1, BeginTyped DEF Submit, TypeOK, Statuses
<1>2. CASE \/ Resolve(k, t) \/ Drop(k, t) \/ Reopen(k, t) \/ SeReply(k, t)
           \/ MoveToDev(k, t) \/ ReturnToSe(k, t)
  <2>1. PICK kind \in DOMAIN Target \cup LaneKinds, pc \in {"write", "ensure"} :
          Begin(k, kind, t, pc) /\ UNCHANGED <<status, hooks>>
    BY <1>2 DEF Resolve, Drop, Reopen, SeReply, MoveToDev, ReturnToSe, LaneStep,
                Target, LaneKinds
  <2>2. kind \in Kinds
    BY DEF Kinds
  <2>q. QED
    BY <2>1, <2>2, BeginTyped DEF TypeOK
<1>q. QED
  BY <1>1, <1>2 DEF Click

\* A person's move, and what becomes of a webhook.
LEMMA LinearTyped ==
  ASSUME TypeOK,
         People \/ \E h \in hooks : (\E k \in Tasks : Receive(k, h)) \/ Ignore(h) \/ Lose(h)
  PROVE  TypeOK'
<1>1. ASSUME NEW i \in DOMAIN issues, NEW s \in States, MoveIssue(i, s) PROVE TypeOK'
  <2>1. issues' \in Seq(Issue) /\ Len(issues') = Len(issues)
    <3>1. issues[i] \in Issue
      BY DEF TypeOK
    <3>2. [issues[i] EXCEPT !.state = s, !.moved = @ \/ s # issues[i].state] \in Issue
      BY <3>1 DEF Issue
    <3>3. issues' = [issues EXCEPT ![i] = [issues[i] EXCEPT !.state = s, !.moved = @ \/ s # issues[i].state]]
      BY <1>1 DEF MoveIssue
    <3>q. QED
      BY <3>2, <3>3 DEF TypeOK
  <2>2. [issue |-> i, state |-> s] \in Webhook
    BY DEF Webhook, TypeOK
  <2>3. TaskTypeOK'
    BY <1>1, <2>1 DEF MoveIssue, TypeOK, TaskTypeOK
  <2>q. QED
    BY <1>1, <2>1, <2>2, <2>3 DEF MoveIssue, TypeOK, ticketVars
<1>2. ASSUME NEW h \in hooks, NEW k \in Tasks, Receive(k, h) PROVE TypeOK'
  <2>1. PICK t \in Tickets : /\ Acts(h.state, status[t])
                             /\ Begin(k, h.state, t, FirstStep(h.state))
                             /\ hooks' \in {hooks, hooks \ {h}} /\ UNCHANGED status
    BY <1>2 DEF Receive
  <2>2. h.state \in Inbound /\ h.state \in DOMAIN Target /\ h.state \in Kinds
    BY <2>1 DEF Acts, Inbound, Target, Kinds
  <2>3. FirstStep(h.state) \in {"get", "write"}
    BY DEF FirstStep
  <2>q. QED
    BY <2>1, <2>2, <2>3, BeginTyped DEF TypeOK
<1>3. ASSUME NEW h \in hooks, Ignore(h) \/ Lose(h) PROVE TypeOK'
  <2>1. /\ UNCHANGED <<ticketVars, issues, task, runs, moves>>
        /\ hooks' \subseteq hooks /\ faults' \in Nat
    BY <1>3 DEF Ignore, Lose, Outage, TypeOK
  <2>2. TaskTypeOK'
    BY <2>1 DEF TypeOK, TaskTypeOK
  <2>q. QED
    BY <2>1, <2>2 DEF TypeOK, ticketVars
<1>q. QED
  BY <1>1, <1>2, <1>3 DEF People

\* A handler's read of its ticket, its own write, and its look for the issue.
LEMMA OwnStepTyped ==
  ASSUME TypeOK, NEW k \in Slots,
         Get(k) \/ Write(k) \/ Ensure(k) \/ Persist(k) \/ Reread(k)
  PROVE  TypeOK'
<1>. DEFINE r == task[k]  n == Len(issues)  t == r.ticket
<1>1. n \in Nat /\ SlotOK(k, r, n) /\ r \in TaskRecord /\ TaskTypeOK
  BY DEF TypeOK, TaskTypeOK
<1>2. r.pc \notin {"idle", "sweep"} /\ t \in Tickets /\ r.kind \in Kinds
  BY <1>1 DEF Get, Write, Ensure, Persist, Reread, SlotOK
<1>3. SlotOK(k, Finished(k), n)
  BY <1>1, <1>2, FinishedTyped
<1>4. CASE Get(k)
  <2>1. PICK q : task' = [task EXCEPT ![k] = q] /\ SlotOK(k, q, n)
    <3>1. CASE Finish(k)
      BY <1>3, <3>1 DEF Finish
    <3>2. CASE Goto(k, "write")
      <4>1. SlotOK(k, [r EXCEPT !.pc = "write"], n)
        BY <1>1, <1>2, <1>4 DEF Get, SlotOK, TaskRecord, PCs, Inbound, Target
      <4>q. QED
        BY <3>2, <4>1 DEF Goto
    <3>q. QED
      BY <1>4, <3>1, <3>2 DEF Get
  <2>q. QED
    BY <1>4, <2>1, SlotStep DEF Get, TypeOK
<1>5. CASE Write(k)
  <2>1. PICK q : task' = [task EXCEPT ![k] = q] /\ SlotOK(k, q, n)
    <3>1. CASE Finish(k)
      BY <1>3, <3>1 DEF Finish
    <3>2. CASE Goto(k, "ensure")
      <4>1. SlotOK(k, [r EXCEPT !.pc = "ensure"], n)
        BY <1>1, <1>2 DEF SlotOK, TaskRecord, PCs
      <4>q. QED
        BY <3>2, <4>1 DEF Goto
    <3>q. QED
      BY <1>5, <3>1, <3>2 DEF Write
  <2>2. TaskTypeOK'
    <3>1. issues' = issues
      BY <1>5 DEF Write
    <3>q. QED
      BY <1>1, <2>1, <3>1, Replace
  <2>3. /\ status' \in [Tickets -> Statuses \cup {"none"}]
        /\ lane' \in [Tickets -> Lanes]
    <3>1. CASE r.kind \in LaneKinds
      BY <1>5, <3>1 DEF Write, TypeOK, Lanes
    <3>2. CASE r.kind \notin LaneKinds
      <4>1. r.kind \in DOMAIN Target
        BY <1>1, <1>5, <3>2 DEF Write, SlotOK
      <4>2. Target[r.kind] \in Statuses
        BY <4>1 DEF Target, Statuses
      <4>q. QED
        BY <1>5, <3>2, <4>2 DEF Write, TypeOK
    <3>q. QED
      BY <3>1, <3>2
  <2>q. QED
    BY <1>5, <2>2, <2>3 DEF Write, TypeOK
<1>6. CASE Ensure(k)
  <2>. DEFINE q == IF mirror[t] # 0 THEN HasIssue(k, mirror[t])
                   ELSE [r EXCEPT !.pc = "create", !.state = Expected(status[t], lane[t])]
  <2>1. task' = [task EXCEPT ![k] = q]
    BY <1>6 DEF Ensure
  <2>2. CASE mirror[t] # 0
    <3>1. mirror[t] \in 1 .. n
      BY <1>1, <1>2, <2>2 DEF TypeOK
    <3>2. SlotOK(k, q, n)
      BY <1>1, <1>2, <2>2, <3>1, HasIssueTyped
    <3>q. QED
      BY <1>6, <2>1, <3>2, SlotStep DEF Ensure, TypeOK
  <2>3. CASE mirror[t] = 0
    <3>1. SlotOK(k, [r EXCEPT !.pc = "create", !.state = Expected(status[t], lane[t])], n)
      BY <1>1, <1>2, ExpectedTyped DEF SlotOK, TaskRecord, PCs
    <3>q. QED
      BY <1>6, <2>1, <2>3, <3>1, SlotStep DEF Ensure, TypeOK
  <2>q. QED
    BY <2>2, <2>3
<1>7. CASE Persist(k)
  <2>1. r.issue \in 1 .. n
    BY <1>1, <1>7 DEF Persist, SlotOK
  <2>2. SlotOK(k, HasIssue(k, r.issue), n)
    BY <1>1, <1>2, <2>1, HasIssueTyped
  <2>3. TaskTypeOK'
    <3>1. issues' = issues /\ task' = [task EXCEPT ![k] = HasIssue(k, r.issue)]
      BY <1>7 DEF Persist
    <3>q. QED
      BY <1>1, <2>2, <3>1, Replace
  <2>4. mirror' \in [Tickets -> 0 .. n]
    BY <1>2, <1>7, <2>1 DEF Persist, TypeOK
  <2>q. QED
    BY <1>7, <2>3, <2>4 DEF Persist, TypeOK
<1>8. CASE Reread(k)
  <2>1. SlotOK(k, [r EXCEPT !.pc = "push", !.state = Expected(status[t], lane[t])], n)
    BY <1>1, <1>2, <1>8, ExpectedTyped DEF Reread, SlotOK, TaskRecord, PCs
  <2>q. QED
    BY <1>8, <2>1, SlotStep DEF Reread, TypeOK
<1>q. QED
  BY <1>4, <1>5, <1>6, <1>7, <1>8

\* A handler's calls to Linear.
LEMMA CallTyped ==
  ASSUME TypeOK, NEW k \in Slots, Create(k) \/ Push(k)
  PROVE  TypeOK'
<1>. DEFINE r == task[k]  n == Len(issues)
<1>1. n \in Nat /\ SlotOK(k, r, n) /\ r \in TaskRecord /\ TaskTypeOK
  BY DEF TypeOK, TaskTypeOK
<1>2. r.pc \in {"create", "push"} /\ r.ticket \in Tickets /\ r.kind \in Kinds
  BY <1>1 DEF Create, Push, SlotOK
<1>3. SlotOK(k, Finished(k), n)
  BY <1>1, <1>2, FinishedTyped
<1>4. Outage => faults' \in Nat
  BY DEF Outage, TypeOK
<1>5. CASE Create(k)
  <2>. DEFINE i == [ticket |-> r.ticket, state |-> r.state, moved |-> FALSE]
              q == [r EXCEPT !.pc = "persist", !.issue = n + 1]
  <2>1. i \in Issue
    BY <1>1, <1>2 DEF Issue, TaskRecord
  <2>2. Append(issues, i) \in Seq(Issue) /\ Len(Append(issues, i)) = n + 1
    BY <2>1 DEF TypeOK
  <2>3. /\ issues' \in Seq(Issue) /\ Len(issues') \in {n, n + 1}
        /\ faults' \in Nat
    BY <1>1, <1>4, <1>5, <2>2 DEF Create, TypeOK
  <2>4. Len(issues') \in Nat /\ Len(issues) <= Len(issues')
    BY <1>1, <2>3
  <2>5. task' = [task EXCEPT ![k] = task'[k]] /\ SlotOK(k, task'[k], Len(issues'))
    <3>1. CASE Finish(k)
      <4>1. task'[k] = Finished(k) /\ task' = [task EXCEPT ![k] = task'[k]]
        BY <3>1 DEF Finish, TypeOK, TaskTypeOK
      <4>q. QED
        BY <1>1, <1>3, <2>4, <4>1, MoreIssues
    <3>2. CASE ~Finish(k)
      <4>1. task' = [task EXCEPT ![k] = q] /\ Len(issues') = n + 1
        BY <1>5, <2>2, <3>2 DEF Create
      <4>2. task'[k] = q /\ task' = [task EXCEPT ![k] = task'[k]]
        BY <4>1 DEF TypeOK, TaskTypeOK
      <4>3. n + 1 \in Nat /\ n + 1 \in 1 .. n + 1
        BY <1>1
      <4>4. q \in TaskRecord /\ q.issue = n + 1
        BY <1>1, <4>3 DEF TaskRecord, PCs
      <4>5. q.pc = "persist" /\ q.ticket = r.ticket /\ q.kind = r.kind /\ q.snap = r.snap
        BY <1>1 DEF TaskRecord
      <4>6. k = Sweeper => /\ r.snap \in [Tickets -> Snapshot]
                           /\ \A t \in Tickets : r.snap[t].mirror <= n + 1
        BY <1>1, <1>2 DEF SlotOK, Snapshot
      <4>7. SlotOK(k, q, n + 1)
        BY <1>2, <4>3, <4>4, <4>5, <4>6 DEF SlotOK
      <4>q. QED
        BY <4>1, <4>2, <4>7
    <3>q. QED
      BY <3>1, <3>2
  <2>6. TaskTypeOK'
    BY ONLY k \in Slots, <1>1, <2>4, <2>5, Update
  <2>7. mirror' \in [Tickets -> 0 .. Len(issues')]
    BY <1>1, <1>5, <2>3 DEF Create, TypeOK, ticketVars
  <2>q. QED
    BY <1>5, <2>3, <2>6, <2>7 DEF Create, TypeOK, ticketVars
<1>6. CASE Push(k)
  <2>. DEFINE j == r.issue
  <2>1. issues' \in Seq(Issue) /\ Len(issues') = n /\ faults' \in Nat
    <3>1. CASE issues' = [issues EXCEPT ![j].state = r.state] /\ UNCHANGED faults
      <4>1. j \in 1 .. n
        BY <1>1, <1>6 DEF Push, SlotOK
      <4>2. issues[j] \in Issue /\ r.state \in States
        BY <1>1, <4>1 DEF TypeOK, TaskRecord
      <4>3. [issues[j] EXCEPT !.state = r.state] \in Issue
        BY <4>2 DEF Issue
      <4>4. issues' = [issues EXCEPT ![j] = [issues[j] EXCEPT !.state = r.state]]
        BY <3>1
      <4>5. issues \in Seq(Issue) /\ faults' \in Nat
        BY <3>1 DEF TypeOK
      <4>6. [issues EXCEPT ![j] = [issues[j] EXCEPT !.state = r.state]] \in Seq(Issue)
        BY <1>1, <4>1, <4>3, <4>5
      <4>7. Len(issues') = n
        BY <4>4, <4>5
      <4>q. QED
        BY <4>4, <4>5, <4>6, <4>7
    <3>2. CASE UNCHANGED issues /\ Outage
      BY <1>4, <3>2 DEF TypeOK
    <3>q. QED
      BY <1>6, <3>1, <3>2 DEF Push
  <2>2. task' = [task EXCEPT ![k] = Finished(k)]
    BY <1>6 DEF Push, Finish
  <2>3. task'[k] = Finished(k) /\ task' = [task EXCEPT ![k] = task'[k]]
    BY <2>2 DEF TypeOK, TaskTypeOK
  <2>4. /\ Len(issues') \in Nat /\ Len(issues) <= Len(issues')
        /\ SlotOK(k, task'[k], Len(issues'))
    BY <1>1, <1>3, <2>1, <2>3
  <2>5. TaskTypeOK'
    BY ONLY k \in Slots, <1>1, <2>3, <2>4, Update
  <2>q. QED
    BY <1>6, <2>1, <2>5 DEF Push, TypeOK, ticketVars
<1>q. QED
  BY <1>5, <1>6

\* The sweep's start: every ticket as it is.
LEMMA SweepStartTyped == TypeOK /\ SweepStart => TypeOK'
<1>. SUFFICES ASSUME TypeOK, SweepStart PROVE TypeOK'
  OBVIOUS
<1>. DEFINE snap == [t \in Tickets |-> [status |-> status[t], lane |-> lane[t],
                                        mirror |-> mirror[t]]]
            q == [NoTask EXCEPT !.pc = "sweep",
                                !.queue = {t \in Tickets : Live(t)}, !.snap = snap]
<1>1. Len(issues) \in Nat
  BY DEF TypeOK
<1>2. snap \in [Tickets -> Snapshot] /\ \A t \in Tickets : snap[t].mirror <= Len(issues)
  BY <1>1 DEF TypeOK, Snapshot
<1>3. q \in TaskRecord /\ q.pc = "sweep" /\ q.snap = snap
  BY <1>2 DEF NoTask, TaskRecord, PCs, States
<1>4. SlotOK(Sweeper, q, Len(issues))
  BY <1>2, <1>3 DEF SlotOK
<1>5. task' = [task EXCEPT ![Sweeper] = q]
  BY DEF SweepStart
<1>q. QED
  BY <1>4, <1>5, SlotStep DEF SweepStart, TypeOK

\* The sweep's steps, and the end of a handler that fails.
LEMMA SweepTyped ==
  ASSUME TypeOK, NEW k \in Slots, SweepNext(k) \/ SweepRead(k) \/ Fail(k)
  PROVE  TypeOK'
<1>. DEFINE r == task[k]  n == Len(issues)
<1>1. n \in Nat /\ SlotOK(k, r, n) /\ r \in TaskRecord /\ TaskTypeOK
  BY DEF TypeOK, TaskTypeOK
<1>2. Outage => faults' \in Nat
  BY DEF Outage, TypeOK
<1>3. CASE SweepNext(k)
  <2>1. k = Sweeper /\ r.snap \in [Tickets -> Snapshot]
        /\ \A t \in Tickets : r.snap[t].mirror <= n
    BY <1>1, <1>3 DEF SweepNext, SlotOK
  <2>2. CASE task' = [task EXCEPT ![k] = NoTask]
    BY <1>3, <2>2, NoTaskTyped, SlotStep DEF SweepNext, TypeOK
  <2>3. CASE task' # [task EXCEPT ![k] = NoTask]
    <3>1. PICK t \in r.queue :
            LET seen == r.snap[t] IN
            task' = [task EXCEPT
              ![k].queue = @ \ {t},
              ![k].ticket = t,
              ![k].kind = IF seen.mirror = 0 THEN "sweep" ELSE "reconcile",
              ![k].pc = IF seen.mirror = 0 THEN "create" ELSE "read",
              ![k].issue = seen.mirror,
              ![k].state = Expected(seen.status, seen.lane)]
      BY <1>3, <2>3 DEF SweepNext
    <3>. DEFINE seen == r.snap[t]
                q == [r EXCEPT
                        !.queue = @ \ {t},
                        !.ticket = t,
                        !.kind = IF seen.mirror = 0 THEN "sweep" ELSE "reconcile",
                        !.pc = IF seen.mirror = 0 THEN "create" ELSE "read",
                        !.issue = seen.mirror,
                        !.state = Expected(seen.status, seen.lane)]
    <3>2. task' = [task EXCEPT ![k] = q]
      BY <3>1 DEF TypeOK, TaskTypeOK
    <3>3. t \in Tickets /\ seen.mirror \in Nat /\ seen.mirror <= n
      BY <1>1, <2>1 DEF TaskRecord, Snapshot
    <3>4. q \in TaskRecord
      BY <1>1, <3>3, ExpectedTyped DEF TaskRecord, PCs, Kinds
    <3>5. /\ q.ticket = t /\ q.snap = r.snap /\ q.issue = seen.mirror
          /\ q.kind = IF seen.mirror = 0 THEN "sweep" ELSE "reconcile"
          /\ q.pc = IF seen.mirror = 0 THEN "create" ELSE "read"
      BY <1>1 DEF TaskRecord
    <3>6. SlotOK(k, q, n)
      BY <1>1, <2>1, <3>3, <3>4, <3>5 DEF SlotOK, Kinds
    <3>q. QED
      BY <1>3, <3>2, <3>6, SlotStep DEF SweepNext, TypeOK
  <2>q. QED
    BY <2>2, <2>3
<1>4. CASE SweepRead(k)
  <2>. DEFINE state == issues[r.issue].state
              q == [r EXCEPT !.pc = FirstStep(state), !.kind = state]
  <2>1. r.pc = "read" /\ r.ticket \in Tickets /\ r.kind \in Kinds
    BY <1>1, <1>4 DEF SweepRead, SlotOK
  <2>2. SlotOK(k, Finished(k), n)
    BY <1>1, <2>1, FinishedTyped
  <2>3. CASE task' = [task EXCEPT ![k] = Finished(k)]
    BY <1>2, <1>4, <2>2, <2>3, SlotStep DEF SweepRead, TypeOK
  <2>4. CASE task' # [task EXCEPT ![k] = Finished(k)]
    <3>1. /\ Acts(state, r.snap[r.ticket].status)
          /\ task' = [task EXCEPT ![k] = q] /\ UNCHANGED faults
      BY <1>4, <2>4 DEF SweepRead, Finish
    <3>2. state \in Inbound /\ state \in Kinds /\ state \in DOMAIN Target
      BY <3>1 DEF Acts, Inbound, Kinds, Target
    <3>3. FirstStep(state) \in {"get", "write"}
      BY DEF FirstStep
    <3>4. SlotOK(k, q, n)
      BY <1>1, <2>1, <3>2, <3>3 DEF SlotOK, TaskRecord, PCs
    <3>q. QED
      BY <1>4, <3>1, <3>4, SlotStep DEF SweepRead, TypeOK
  <2>q. QED
    BY <2>3, <2>4
<1>5. CASE Fail(k)
  BY <1>2, <1>5, NoTaskTyped, SlotStep DEF Fail
<1>q. QED
  BY <1>3, <1>4, <1>5

\* Every step keeps the model well typed.
LEMMA TypeStep == TypeOK /\ [Next]_vars => TypeOK'
<1>. SUFFICES ASSUME TypeOK, [Next]_vars PROVE TypeOK'
  OBVIOUS
<1>1. ASSUME NEW k \in Slots, Step(k) \/ Fail(k) PROVE TypeOK'
  BY <1>1, OwnStepTyped, CallTyped, SweepTyped DEF Step
<1>2. CASE UNCHANGED vars
  BY <1>2 DEF vars, ticketVars, TypeOK, TaskTypeOK
<1>q. QED
  BY <1>1, <1>2, ClickTyped, LinearTyped, SweepStartTyped DEF Next

\* Whatever races, fails or is lost, every handler in flight keeps a ticket and
\* an issue that exist, and a ticket's linear_issue_id names one of Linear's
\* issues.
THEOREM TypeCorrect == Spec => []TypeOK
BY TypeInit, TypeStep, PTL DEF Spec

-----------------------------------------------------------------------------
(* One issue for a ticket, with one thing at a time.  One slot k is in     *)
(* charge; while nothing has been lost, every issue of a ticket is the one *)
(* its row names, except for the one that k is about to write there.  So   *)
(* nobody creates an issue for a ticket that has one: neither a handler,   *)
(* which has looked, nor the sweep, whose snapshot of a ticket it has not  *)
(* come to is still true.                                                  *)

Alone(k) == \A j \in Slots \ {k} : task[j].pc = "idle"
Owned(k, t) ==
  \A i \in DOMAIN issues : issues[i].ticket = t =>
    i = mirror[t] \/ (task[k].pc = "persist" /\ task[k].ticket = t /\ i = task[k].issue)
Creating(k) == task[k].pc \in {"create", "persist"} => mirror[task[k].ticket] = 0
AtWork(k) ==
  task[k].pc \notin {"idle", "sweep"} =>
    status[task[k].ticket] # "none" /\ task[k].ticket \notin task[k].queue
Seen(k) ==
  task[k].pc # "idle" =>
    \A t \in task[k].queue : task[k].snap[t].mirror = mirror[t] /\ status[t] # "none"
Unlogged(t) == status[t] = "none" => mirror[t] = 0
Once(k) == /\ Creating(k) /\ AtWork(k) /\ Seen(k)
           /\ \A t \in Tickets : Owned(k, t) /\ Unlogged(t)

OnceInv ==
  /\ TypeOK
  /\ \A h \in hooks : h.issue # 0
  /\ \E k \in Slots : Alone(k) /\ (faults = 0 => Once(k))

\* The record a handler keeps while it goes on, or returns.
GoesOn(r, old) ==
  \/ r = NoTask
  \/ r.pc = "sweep" /\ r.queue = old.queue /\ r.snap = old.snap
  \/ /\ r.pc \in {"get", "write", "ensure", "reread", "push"}
     /\ r.ticket = old.ticket /\ r.queue = old.queue /\ r.snap = old.snap

LEMMA FinishedGoesOn ==
  ASSUME NEW k, task[k] \in TaskRecord
  PROVE  GoesOn(Finished(k), task[k])
BY DEF Finished, GoesOn, NoTask, TaskRecord

LEMMA HasIssueGoesOn ==
  ASSUME NEW k, task[k] \in TaskRecord, NEW i
  PROVE  GoesOn(HasIssue(k, i), task[k])
<1>1. CASE task[k].kind \in SyncKinds
  BY <1>1 DEF HasIssue, GoesOn, TaskRecord
<1>2. CASE task[k].kind \notin SyncKinds /\ task[k].kind \in DOMAIN Fixed
  BY <1>2 DEF HasIssue, GoesOn, TaskRecord
<1>3. CASE task[k].kind \notin SyncKinds /\ task[k].kind \notin DOMAIN Fixed
  BY <1>3, FinishedGoesOn DEF HasIssue
<1>q. QED
  BY <1>1, <1>2, <1>3

\* A step that goes on, and gives no ticket an issue.
LEMMA Onward ==
  ASSUME NEW k, Once(k), UNCHANGED mirror,
         task[k].pc \notin {"idle", "sweep", "persist"}, GoesOn(task'[k], task[k]),
         \A t : status[t] # "none" => status'[t] # "none",
         DOMAIN issues' = DOMAIN issues,
         \A i \in DOMAIN issues : issues'[i].ticket = issues[i].ticket
  PROVE  Once(k)'
<1>1. CASE task'[k] = NoTask
  BY <1>1 DEF NoTask, Once, Creating, AtWork, Seen, Owned, Unlogged
<1>2. CASE task'[k] # NoTask
  BY <1>2 DEF GoesOn, Once, Creating, AtWork, Seen, Owned, Unlogged
<1>q. QED
  BY <1>1, <1>2

LEMMA OnceOwnStep ==
  ASSUME TypeOK, NEW k \in Slots, faults' = 0, Once(k),
         Get(k) \/ Write(k) \/ Reread(k) \/ Push(k) \/ SweepRead(k)
  PROVE  Once(k)'
<1>1. /\ task \in [Slots -> TaskRecord] /\ task[k] \in TaskRecord
      /\ status \in [Tickets -> Statuses \cup {"none"}] /\ issues \in Seq(Issue)
  BY DEF TypeOK, TaskTypeOK
<1>2. /\ UNCHANGED mirror /\ task[k].pc \notin {"idle", "sweep", "persist"}
  BY DEF Get, Write, Reread, Push, SweepRead, ticketVars
<1>3. Finish(k) => GoesOn(task'[k], task[k])
  BY <1>1, FinishedGoesOn DEF Finish
<1>4. ASSUME NEW pc \in {"write", "ensure"}, Goto(k, pc) PROVE GoesOn(task'[k], task[k])
  BY <1>1, <1>4 DEF Goto, GoesOn, TaskRecord
<1>5. GoesOn(task'[k], task[k])
  <2>1. CASE Get(k)
    BY <1>3, <1>4, <2>1 DEF Get
  <2>2. CASE Write(k)
    BY <1>3, <1>4, <2>2 DEF Write
  <2>3. CASE Reread(k)
    BY <1>1, <2>3 DEF Reread, GoesOn, TaskRecord
  <2>4. CASE Push(k)
    BY <1>3, <2>4 DEF Push
  <2>5. CASE SweepRead(k)
    <3>1. CASE Finish(k)
      BY <1>3, <3>1
    <3>2. CASE task'[k] = Finished(k)
      BY <1>1, <3>2, FinishedGoesOn
    <3>3. CASE \E state : task' = [task EXCEPT ![k] = [task[k] EXCEPT !.pc = FirstStep(state),
                                                                    !.kind = state]]
      <4>1. PICK state : task' = [task EXCEPT ![k] = [task[k] EXCEPT !.pc = FirstStep(state),
                                                                    !.kind = state]]
        BY <3>3
      <4>2. FirstStep(state) \in {"write", "get"}
        BY DEF FirstStep
      <4>q. QED
        BY <1>1, <4>1, <4>2 DEF GoesOn, TaskRecord
    <3>q. QED
      BY <1>1, <2>5, <3>1, <3>2, <3>3 DEF SweepRead
  <2>q. QED
    BY <2>1, <2>2, <2>3, <2>4, <2>5
<1>6. \A t : status[t] # "none" => status'[t] # "none"
  <2>1. CASE Write(k) /\ task[k].kind \notin LaneKinds
    <3>1. status' = [status EXCEPT ![task[k].ticket] = Target[task[k].kind]]
      BY <2>1 DEF Write
    <3>2. task[k].kind \in DOMAIN Target
      BY <1>1, <2>1 DEF Write, TypeOK, TaskTypeOK, SlotOK
    <3>3. Target[task[k].kind] # "none"
      BY <3>2 DEF Target
    <3>q. QED
      BY <1>1, <3>1, <3>3
  <2>2. CASE ~(Write(k) /\ task[k].kind \notin LaneKinds)
    BY <2>2 DEF Get, Write, Reread, Push, SweepRead, ticketVars
  <2>q. QED
    BY <2>1, <2>2
<1>7. /\ DOMAIN issues' = DOMAIN issues
      /\ \A i \in DOMAIN issues : issues'[i].ticket = issues[i].ticket
  <2>1. CASE Push(k) /\ issues' # issues
    <3>1. issues' = [issues EXCEPT ![task[k].issue].state = task[k].state]
      BY <2>1 DEF Push
    <3>2. \A i \in DOMAIN issues : issues[i] \in Issue
      BY <1>1
    <3>q. QED
      BY <3>1, <3>2 DEF Issue
  <2>2. CASE ~(Push(k) /\ issues' # issues)
    <3>1. UNCHANGED issues
      BY <2>2 DEF Get, Write, Reread, Push, SweepRead
    <3>q. QED
      BY <3>1
  <2>q. QED
    BY <2>1, <2>2
<1>q. QED
  BY <1>2, <1>5, <1>6, <1>7, Onward

\* The look for the issue.
LEMMA OnceEnsure ==
  ASSUME TypeOK, NEW k \in Slots, Once(k), Ensure(k)
  PROVE  Once(k)'
<1>1. /\ task \in [Slots -> TaskRecord] /\ task[k] \in TaskRecord /\ task[k].pc = "ensure"
      /\ UNCHANGED <<status, mirror, issues>>
  BY DEF TypeOK, TaskTypeOK, Ensure, ticketVars
<1>2. CASE mirror[task[k].ticket] # 0
  <2>1. task'[k] = HasIssue(k, mirror[task[k].ticket])
    BY <1>1, <1>2 DEF Ensure
  <2>2. GoesOn(task'[k], task[k])
    BY <1>1, <2>1, HasIssueGoesOn
  <2>q. QED
    BY <1>1, <2>2, Onward
<1>3. CASE mirror[task[k].ticket] = 0
  <2>1. /\ task'[k].pc = "create" /\ task'[k].ticket = task[k].ticket
        /\ task'[k].queue = task[k].queue /\ task'[k].snap = task[k].snap
    BY <1>1, <1>3 DEF Ensure, TaskRecord
  <2>q. QED
    BY <1>1, <1>3, <2>1 DEF Once, Creating, AtWork, Seen, Owned, Unlogged
<1>q. QED
  BY <1>2, <1>3

\* The creation.
LEMMA OnceCreate ==
  ASSUME TypeOK, NEW k \in Slots, Once(k), faults = 0, faults' = 0, Create(k)
  PROVE  Once(k)'
<1>1. /\ task \in [Slots -> TaskRecord] /\ task[k] \in TaskRecord /\ task[k].pc = "create"
      /\ UNCHANGED <<status, mirror>> /\ issues \in Seq(Issue) /\ Len(issues) \in Nat
  BY DEF TypeOK, TaskTypeOK, Create, ticketVars
<1>2. PICK new : new = [ticket |-> task[k].ticket, state |-> task[k].state, moved |-> FALSE]
  OBVIOUS
<1>3. /\ issues' = Append(issues, new)
      /\ task' = [task EXCEPT ![k].pc = "persist", ![k].issue = Len(issues) + 1]
  BY <1>2 DEF Create, Outage
<1>4. /\ task'[k].pc = "persist" /\ task'[k].ticket = task[k].ticket
      /\ task'[k].issue = Len(issues) + 1
      /\ task'[k].queue = task[k].queue /\ task'[k].snap = task[k].snap
  BY <1>1, <1>3 DEF TaskRecord
<1>5. new \in Issue
  BY <1>1, <1>2 DEF Issue, TaskRecord, TypeOK, TaskTypeOK, SlotOK
<1>6. ASSUME NEW t \in Tickets PROVE Owned(k, t)'
  <2> SUFFICES ASSUME NEW i \in DOMAIN issues', issues'[i].ticket = t
               PROVE  i = mirror[t] \/ (task[k].ticket = t /\ i = Len(issues) + 1)
    BY <1>1, <1>4 DEF Owned
  <2>1. CASE i = Len(issues) + 1
    BY <1>1, <1>2, <1>3, <1>5, <2>1
  <2>2. CASE i # Len(issues) + 1
    <3>1. i \in DOMAIN issues /\ issues'[i] = issues[i]
      BY <1>1, <1>3, <1>5, <2>2
    <3>q. QED
      BY <1>1, <3>1 DEF Once, Owned
  <2>q. QED
    BY <2>1, <2>2
<1>q. QED
  BY <1>1, <1>4, <1>6 DEF Once, Creating, AtWork, Seen, Unlogged

\* The row gets the issue that was created for it.
LEMMA OncePersist ==
  ASSUME TypeOK, NEW k \in Slots, Once(k), Persist(k)
  PROVE  Once(k)'
<1>1. /\ task \in [Slots -> TaskRecord] /\ task[k] \in TaskRecord /\ task[k].pc = "persist"
      /\ UNCHANGED <<status, issues>> /\ mirror \in [Tickets -> 0 .. Len(issues)]
      /\ DOMAIN issues = 1 .. Len(issues) /\ Len(issues) \in Nat
      /\ task[k].ticket \in Tickets
      /\ mirror' = [mirror EXCEPT ![task[k].ticket] = task[k].issue]
  BY DEF TypeOK, TaskTypeOK, SlotOK, Persist
<1>2. GoesOn(task'[k], task[k])
  BY <1>1, HasIssueGoesOn DEF Persist
<1>3. mirror[task[k].ticket] = 0 /\ status[task[k].ticket] # "none"
      /\ task[k].ticket \notin task[k].queue
  BY <1>1 DEF Once, Creating, AtWork
<1>4. ASSUME NEW t \in Tickets PROVE Owned(k, t)' /\ Unlogged(t)'
  <2>1. ASSUME NEW i \in DOMAIN issues, issues[i].ticket = t PROVE i = mirror'[t]
    BY <1>1, <1>3, <2>1 DEF Once, Owned
  <2>q. QED
    BY <1>1, <1>3, <2>1 DEF Owned, Once, Unlogged
<1>5. CASE task'[k] = NoTask
  BY <1>4, <1>5 DEF NoTask, Once, Creating, AtWork, Seen
<1>6. CASE task'[k] # NoTask
  <2>1. /\ task'[k].pc \notin {"create", "persist"} /\ task'[k].queue = task[k].queue
        /\ task'[k].snap = task[k].snap
        /\ task'[k].pc # "sweep" => task'[k].ticket = task[k].ticket
    BY <1>2, <1>6 DEF GoesOn
  <2>2. \A t \in task[k].queue : t \in Tickets /\ mirror'[t] = mirror[t]
    BY <1>1, <1>3 DEF TaskRecord
  <2>q. QED
    BY <1>1, <1>3, <1>4, <2>1, <2>2 DEF Once, Creating, AtWork, Seen
<1>q. QED
  BY <1>5, <1>6

\* The sweep's next ticket: its snapshot is still true.
LEMMA OnceSweepNext ==
  ASSUME TypeOK, NEW k \in Slots, Once(k), SweepNext(k)
  PROVE  Once(k)'
<1>1. /\ task \in [Slots -> TaskRecord] /\ task[k] \in TaskRecord /\ task[k].pc = "sweep"
      /\ UNCHANGED <<status, mirror, issues>> /\ task[k].queue \subseteq Tickets
  BY DEF TypeOK, TaskTypeOK, TaskRecord, SweepNext, ticketVars
<1>2. CASE task' = [task EXCEPT ![k] = NoTask]
  <2>1. task'[k] = NoTask
    BY <1>1, <1>2
  <2>q. QED
    BY <1>1, <2>1 DEF NoTask, Once, Creating, AtWork, Seen, Owned, Unlogged
<1>3. ASSUME NEW t \in task[k].queue, NEW pc, NEW kind, NEW state,
             pc = IF task[k].snap[t].mirror = 0 THEN "create" ELSE "read",
             task' = [task EXCEPT ![k].queue = @ \ {t}, ![k].ticket = t, ![k].kind = kind,
                                  ![k].pc = pc, ![k].issue = task[k].snap[t].mirror,
                                  ![k].state = state]
      PROVE  Once(k)'
  <2>1. /\ task'[k].pc = pc /\ task'[k].ticket = t /\ task'[k].queue = task[k].queue \ {t}
        /\ task'[k].snap = task[k].snap
    BY <1>1, <1>3 DEF TaskRecord
  <2>2. task[k].snap[t].mirror = mirror[t] /\ status[t] # "none"
    BY <1>1, <1>3 DEF Once, Seen
  <2>3. Creating(k)' /\ AtWork(k)' /\ Seen(k)'
    BY <1>1, <1>3, <2>1, <2>2 DEF Once, Creating, AtWork, Seen
  <2>q. QED
    BY <1>1, <1>3, <2>1, <2>3 DEF Once, Owned, Unlogged
<1>4. CASE \E t \in task[k].queue :
             LET seen == task[k].snap[t] IN
             task' = [task EXCEPT
               ![k].queue = @ \ {t},
               ![k].ticket = t,
               ![k].kind = IF seen.mirror = 0 THEN "sweep" ELSE "reconcile",
               ![k].pc = IF seen.mirror = 0 THEN "create" ELSE "read",
               ![k].issue = seen.mirror,
               ![k].state = Expected(seen.status, seen.lane)]
  <2>1. PICK t \in task[k].queue :
             LET seen == task[k].snap[t] IN
             task' = [task EXCEPT
               ![k].queue = @ \ {t},
               ![k].ticket = t,
               ![k].kind = IF seen.mirror = 0 THEN "sweep" ELSE "reconcile",
               ![k].pc = IF seen.mirror = 0 THEN "create" ELSE "read",
               ![k].issue = seen.mirror,
               ![k].state = Expected(seen.status, seen.lane)]
    BY <1>4
  <2>2. PICK pc : pc = IF task[k].snap[t].mirror = 0 THEN "create" ELSE "read"
    OBVIOUS
  <2>3. PICK kind : kind = IF task[k].snap[t].mirror = 0 THEN "sweep" ELSE "reconcile"
    OBVIOUS
  <2>4. PICK state : state = Expected(task[k].snap[t].status, task[k].snap[t].lane)
    OBVIOUS
  <2>5. task' = [task EXCEPT ![k].queue = @ \ {t}, ![k].ticket = t, ![k].kind = kind,
                             ![k].pc = pc, ![k].issue = task[k].snap[t].mirror,
                             ![k].state = state]
    BY <2>1, <2>2, <2>3, <2>4
  <2>q. QED
    BY <1>3, <2>2, <2>5
<1>q. QED
  BY <1>2, <1>4 DEF SweepNext

-----------------------------------------------------------------------------
\* A handler or a sweep starts, and finds everybody idle.
LEMMA OnceBegin ==
  ASSUME NEW k, Once(k), task[k].pc = "idle", NEW j,
         UNCHANGED <<mirror, issues>>, \A t : status[t] # "none" => status'[t] # "none",
         task'[j].pc # "persist",
         Creating(j)', AtWork(j)', Seen(j)'
  PROVE  Once(j)'
BY DEF Once, Owned, Unlogged

\* The slot of a handler that has just begun.
LEMMA BeginFields ==
  ASSUME TypeOK, NEW k, NEW kind, NEW t, NEW pc, Begin(k, kind, t, pc)
  PROVE  /\ task[k].pc = "idle" /\ UNCHANGED <<lane, mirror, issues, faults>>
         /\ task'[k].pc = pc /\ task'[k].ticket = t /\ task'[k].queue = {}
         /\ task'[k].kind = kind /\ task'[k].state = "triage"
         /\ \A j \in Slots \ {k} : task'[j] = task[j]
BY DEF Begin, NoTask, TypeOK, TaskTypeOK

LEMMA OnceClick ==
  ASSUME OnceInv, NEW k \in Tasks, NEW t \in Tickets, Click(k, t), AllIdle, TypeOK'
  PROVE  OnceInv'
<1>1. status \in [Tickets -> Statuses \cup {"none"}] /\ TypeOK
  BY DEF OnceInv, TypeOK
<1>2. PICK kind, pc : /\ Begin(k, kind, t, pc) /\ UNCHANGED hooks
                      /\ pc \in {"create", "write", "ensure"}
                      /\ pc = "create" => status[t] = "none"
                      /\ status'[t] # "none"
                      /\ \A u : status[u] # "none" => status'[u] # "none"
  <2>1. CASE Submit(k, t)
    BY <1>1, <2>1 DEF Submit
  <2>2. CASE Resolve(k, t) \/ Drop(k, t) \/ Reopen(k, t) \/ SeReply(k, t)
    BY <1>1, <2>2 DEF Resolve, Drop, Reopen, SeReply, Retired
  <2>3. CASE MoveToDev(k, t) \/ ReturnToSe(k, t)
    BY <1>1, <2>3 DEF MoveToDev, ReturnToSe, LaneStep
  <2>q. QED
    BY <2>1, <2>2, <2>3 DEF Click
<1>3. /\ UNCHANGED <<mirror, issues, faults>>
      /\ task'[k].pc = pc /\ task'[k].ticket = t /\ task'[k].queue = {}
      /\ \A j \in Slots \ {k} : task'[j] = task[j]
  BY <1>1, <1>2, BeginFields
<1>4. Alone(k)'
  BY <1>3 DEF AllIdle, Alone
<1>5. ASSUME faults' = 0 PROVE Once(k)'
  <2>1. PICK j \in Slots : Once(j) /\ task[j].pc = "idle"
    BY <1>3, <1>5 DEF OnceInv, AllIdle
  <2>2. status[t] = "none" => mirror[t] = 0
    BY <2>1 DEF Once, Unlogged
  <2>3. Creating(k)' /\ AtWork(k)' /\ Seen(k)'
    BY <1>2, <1>3, <2>2 DEF Creating, AtWork, Seen
  <2>q. QED
    BY <1>2, <1>3, <2>1, <2>3, OnceBegin
<1>q. QED
  BY <1>2, <1>4, <1>5 DEF OnceInv

LEMMA OnceReceive ==
  ASSUME OnceInv, NEW k \in Tasks, NEW h \in hooks, Receive(k, h), AllIdle, TypeOK'
  PROVE  OnceInv'
<1>1. TypeOK /\ h.issue # 0
  BY DEF OnceInv
<1>2. PICK t \in Tickets : /\ mirror[t] = h.issue
                           /\ Begin(k, h.state, t, FirstStep(h.state))
                           /\ hooks' \subseteq hooks /\ UNCHANGED status
  BY DEF Receive
<1>3. /\ UNCHANGED <<mirror, issues, faults>>
      /\ task'[k].pc = FirstStep(h.state) /\ task'[k].ticket = t /\ task'[k].queue = {}
      /\ \A j \in Slots \ {k} : task'[j] = task[j]
  BY <1>1, <1>2, BeginFields
<1>4. Alone(k)'
  BY <1>3 DEF AllIdle, Alone
<1>5. ASSUME faults' = 0 PROVE Once(k)'
  <2>1. PICK j \in Slots : Once(j) /\ task[j].pc = "idle"
    BY <1>3, <1>5 DEF OnceInv, AllIdle
  <2>2. status[t] # "none"
    BY <1>1, <1>2, <2>1 DEF Once, Unlogged
  <2>3. Creating(k)' /\ AtWork(k)' /\ Seen(k)' /\ task'[k].pc # "persist"
    BY <1>2, <1>3, <2>2 DEF Creating, AtWork, Seen, FirstStep
  <2>q. QED
    BY <1>2, <1>3, <2>1, <2>3, OnceBegin
<1>q. QED
  BY <1>2, <1>4, <1>5 DEF OnceInv

LEMMA OnceSweepStart ==
  ASSUME OnceInv, SweepStart, AllIdle, TypeOK'
  PROVE  OnceInv'
<1>1. /\ TypeOK /\ task \in [Slots -> TaskRecord]
      /\ UNCHANGED <<status, mirror, issues, hooks, faults>>
  BY DEF OnceInv, TypeOK, TaskTypeOK, SweepStart, ticketVars
<1>2. PICK seen : seen = [t \in Tickets |-> [status |-> status[t], lane |-> lane[t],
                                             mirror |-> mirror[t]]]
  OBVIOUS
<1>3. PICK queue : queue = {t \in Tickets : Live(t)}
  OBVIOUS
<1>4. PICK r : r = [NoTask EXCEPT !.pc = "sweep", !.queue = queue, !.snap = seen]
  OBVIOUS
<1>5. r.pc = "sweep" /\ r.queue = queue /\ r.snap = seen
  BY <1>4 DEF NoTask
<1>6. task' = [task EXCEPT ![Sweeper] = r]
  BY <1>2, <1>3, <1>4 DEF SweepStart
<1>7. task'[Sweeper] = r /\ \A j \in Slots \ {Sweeper} : task'[j] = task[j]
  BY <1>1, <1>6
<1>8. Alone(Sweeper)'
  BY <1>1, <1>7 DEF AllIdle, Alone
<1>9. ASSUME faults' = 0 PROVE Once(Sweeper)'
  <2>1. PICK j \in Slots : Once(j) /\ task[j].pc = "idle"
    BY <1>1, <1>9 DEF OnceInv, AllIdle
  <2>2. \A t \in queue : seen[t].mirror = mirror[t] /\ status[t] # "none"
    BY <1>2, <1>3 DEF Live
  <2>3. Creating(Sweeper)' /\ AtWork(Sweeper)' /\ Seen(Sweeper)'
    BY <1>1, <1>5, <1>7, <2>2 DEF Creating, AtWork, Seen
  <2>q. QED
    BY <1>1, <1>5, <1>7, <2>1, <2>3, OnceBegin
<1>q. QED
  BY <1>1, <1>8, <1>9 DEF OnceInv

\* A person's move, and a webhook that is dropped or lost.
LEMMA OnceElsewhere ==
  ASSUME OnceInv, TypeOK',
         (\E i \in DOMAIN issues, s \in States : MoveIssue(i, s))
           \/ (\E h \in hooks : Ignore(h) \/ Lose(h)) \/ UNCHANGED vars
  PROVE  OnceInv'
<1>1. /\ TypeOK /\ issues \in Seq(Issue) /\ Len(issues) \in Nat
      /\ DOMAIN issues = 1 .. Len(issues) /\ faults \in Nat
      /\ \A h \in hooks : h.issue # 0
  BY DEF OnceInv, TypeOK
<1>2. UNCHANGED <<status, mirror, task>>
  BY DEF MoveIssue, Ignore, Lose, vars, ticketVars
<1>3. \A h \in hooks' : h.issue # 0
  <2>1. ASSUME NEW i \in DOMAIN issues, NEW s \in States, MoveIssue(i, s)
        PROVE  \A h \in hooks' : h.issue # 0
    BY <1>1, <2>1 DEF MoveIssue
  <2>2. CASE (\E h \in hooks : Ignore(h) \/ Lose(h)) \/ UNCHANGED vars
    BY <1>1, <2>2 DEF Ignore, Lose, vars
  <2>q. QED
    BY <2>1, <2>2
<1>4. /\ DOMAIN issues' = DOMAIN issues
      /\ \A i \in DOMAIN issues : issues'[i].ticket = issues[i].ticket
  <2>1. CASE \E i \in DOMAIN issues, s \in States : MoveIssue(i, s)
    <3>1. PICK i \in DOMAIN issues, s \in States : MoveIssue(i, s)
      BY <2>1
    <3>2. issues[i] \in Issue
      BY <1>1
    <3>q. QED
      BY <3>1, <3>2 DEF MoveIssue, Issue
  <2>2. CASE UNCHANGED issues
    BY <2>2
  <2>q. QED
    BY <2>1, <2>2 DEF Ignore, Lose, vars
<1>5. faults' = 0 => faults = 0
  <2>1. UNCHANGED faults \/ faults' = faults + 1
    BY DEF MoveIssue, Ignore, Lose, Outage, vars
  <2>q. QED
    BY <1>1, <2>1
<1>6. PICK k \in Slots : Alone(k) /\ (faults = 0 => Once(k))
  BY DEF OnceInv
<1>7. Alone(k)'
  BY <1>2, <1>6 DEF Alone
<1>8. faults' = 0 => Once(k)'
  BY <1>2, <1>4, <1>5, <1>6 DEF Once, Creating, AtWork, Seen, Owned, Unlogged
<1>q. QED
  BY <1>3, <1>7, <1>8 DEF OnceInv

LEMMA OnceMove ==
  ASSUME OnceInv, NEW k \in Slots, Step(k) \/ Fail(k), TypeOK'
  PROVE  OnceInv'
<1>1. /\ TypeOK /\ task \in [Slots -> TaskRecord] /\ faults \in Nat
      /\ task[k].pc # "idle"
      /\ UNCHANGED hooks
  BY DEF OnceInv, TypeOK, TaskTypeOK, Step, Fail, Get, Write, Ensure, Create, Persist, Reread, Push,
     SweepNext, SweepRead
<1>2. Alone(k) /\ (faults = 0 => Once(k))
  BY <1>1 DEF OnceInv, Alone
<1>3. \A j \in Slots \ {k} : task'[j] = task[j]
  BY <1>1 DEF Step, Fail, Get, Write, Ensure, Create, Persist, Reread, Push, SweepNext, SweepRead,
     Finish, Goto
<1>4. Alone(k)'
  BY <1>2, <1>3 DEF Alone
<1>5. ASSUME faults' = 0 PROVE Once(k)'
  <2>0. (UNCHANGED faults /\ ~Fail(k)) \/ faults' = faults + 1
    BY DEF Step, Fail, Get, Write, Ensure, Create, Persist, Reread, Push, SweepNext,
       SweepRead, Outage
  <2>1. faults = 0 /\ ~Fail(k)
    BY <1>1, <1>5, <2>0
  <2>q. QED
    BY <1>1, <1>2, <1>5, <2>1, OnceOwnStep, OnceEnsure, OnceCreate, OncePersist, OnceSweepNext DEF Step
<1>q. QED
  BY <1>1, <1>4, <1>5 DEF OnceInv

LEMMA OnceStep == OnceInv /\ [Next /\ NoOverlap]_vars => OnceInv'
<1> SUFFICES ASSUME OnceInv, [Next /\ NoOverlap]_vars PROVE OnceInv'
  OBVIOUS
<1>1. TypeOK'
  BY TypeStep DEF OnceInv
<1>2. ASSUME NEW k \in Tasks, NEW t \in Tickets, Click(k, t), NoOverlap PROVE OnceInv'
  BY <1>1, <1>2, OnceClick DEF NoOverlap, Settled
<1>3. ASSUME NEW k \in Tasks, NEW h \in hooks, Receive(k, h), NoOverlap PROVE OnceInv'
  BY <1>1, <1>3, OnceReceive DEF NoOverlap
<1>4. CASE SweepStart /\ NoOverlap
  BY <1>1, <1>4, OnceSweepStart DEF NoOverlap, Settled
<1>5. ASSUME NEW k \in Slots, Step(k) \/ Fail(k) PROVE OnceInv'
  BY <1>1, <1>5, OnceMove
<1>6. CASE People \/ (\E h \in hooks : Ignore(h) \/ Lose(h)) \/ UNCHANGED vars
  BY <1>1, <1>6, OnceElsewhere DEF People
<1>q. QED
  BY <1>2, <1>3, <1>4, <1>5, <1>6 DEF Next

LEMMA OnceInit == Init => OnceInv
<1> SUFFICES ASSUME Init PROVE OnceInv
  OBVIOUS
<1>1. TypeOK /\ hooks = {} /\ issues = <<>>
  BY TypeInit DEF Init
<1>2. \A k \in Slots : task[k].pc = "idle"
  BY DEF Init, NoTask
<1>3. Alone(Sweeper) /\ Once(Sweeper)
  BY <1>1, <1>2 DEF Init, Alone, Once, Creating, AtWork, Seen, Owned, Unlogged
<1>q. QED
  BY <1>1, <1>3 DEF OnceInv

\* While nothing was lost, no ticket gets a second issue, neither from its
\* handlers nor from the sweep.
THEOREM NeverTwoIssues == SerialSpec => []CreateOnce
<1>1. ASSUME OnceInv PROVE CreateOnce
  <2> SUFFICES ASSUME NEW t \in Tickets, faults = 0
               PROVE  Cardinality({i \in DOMAIN issues : issues[i].ticket = t}) <= 1
    BY DEF CreateOnce
  <2>1. PICK k \in Slots : Once(k)
    BY <1>1 DEF OnceInv
  <2>2. PICK x : \A i \in DOMAIN issues : issues[i].ticket = t => i = x
    <3>1. CASE task[k].pc = "persist" /\ task[k].ticket = t
      <4>1. mirror[t] = 0 /\ 0 \notin DOMAIN issues
        BY <1>1, <2>1, <3>1 DEF Once, Creating, OnceInv, TypeOK
      <4>q. QED
        BY <2>1, <4>1 DEF Once, Owned
    <3>2. CASE ~(task[k].pc = "persist" /\ task[k].ticket = t)
      BY <2>1, <3>2 DEF Once, Owned
    <3>q. QED
      BY <3>1, <3>2
  <2>3. {i \in DOMAIN issues : issues[i].ticket = t} \in SUBSET {x}
    BY <2>2
  <2>4. IsFiniteSet({x}) /\ Cardinality({x}) = 1
    BY FS_Singleton
  <2>q. QED
    BY <2>3, <2>4, FS_Subset
<1>q. QED
  BY <1>1, OnceInit, OnceStep, PTL DEF SerialSpec

-----------------------------------------------------------------------------
(* Agreement, with one thing at a time.  While nothing has been lost, the  *)
(* issue of a ticket agrees with it, or the slot in charge is about to     *)
(* push the ticket's state or to take the issue's state over, or Linear    *)
(* still has a webhook to deliver that tells of a person's move.           *)

\* A state that agrees with the ticket, moved or not.
Suits(t, s) == Agree(t, [state |-> s, moved |-> FALSE])

Pending(t) ==
  LET s == issues[mirror[t]].state IN
  s # "triage" /\ [issue |-> mirror[t], state |-> s] \in hooks
TakingOver(k) == task[k].pc \in {"get", "write"} /\ task[k].kind \in Inbound
Pushing(k) ==
  /\ task[k].pc \in {"ensure", "create", "persist", "reread", "push"}
  /\ task[k].kind \in SyncKinds \cup DOMAIN Fixed
Fine(t) == mirror[t] # 0 => Agree(t, issues[mirror[t]]) \/ Pending(t)
InStep(k, t) == Fine(t) \/ (task[k].ticket = t /\ (Pushing(k) \/ TakingOver(k)))

\* A ticket's issue is its own, and a webhook tells the state of its issue.
OwnIssue(t) == mirror[t] # 0 => issues[mirror[t]].ticket = t
HookOK(h) == h.issue \in DOMAIN issues /\ h.state = issues[h.issue].state

\* What a handler with record r knows at each of its steps.
KnowsOf(r) ==
  LET t == r.ticket IN
  /\ r.pc \in {"get", "write"} /\ r.kind \in Inbound =>
       mirror[t] # 0 /\ issues[mirror[t]].state = r.kind
  /\ r.pc = "write" /\ r.kind = "to_dev" => Live(t)
  /\ r.pc \in {"ensure", "create", "persist", "push"} =>
       /\ r.kind = "resolve" => status[t] = "resolved"
       /\ r.kind = "drop" => status[t] = "closed"
       /\ r.kind \in {"to_dev", "open_dev"} => Live(t) /\ lane[t] = "dev"
  /\ r.pc = "create" => Suits(t, r.state)
  /\ r.pc = "persist" => issues[r.issue].ticket = t /\ Agree(t, issues[r.issue])
  /\ r.pc \in {"read", "reread", "push"} => r.issue = mirror[t]
  /\ r.pc = "reread" => r.kind \in SyncKinds
  /\ r.pc = "push" => Suits(t, r.state)
  /\ r.pc = "read" => r.snap[t].status = status[t]
  /\ r.pc \notin {"idle", "sweep"} /\ r.kind = "sweep" => Live(t) /\ r.snap[t].lane = lane[t]
  /\ r.pc # "idle" =>
       \A u \in r.queue : Live(u) /\ r.snap[u].status = status[u] /\ r.snap[u].lane = lane[u]

Sync(k) ==
  /\ KnowsOf(task[k])
  /\ task[k].pc # "idle" /\ hooks # {} => k # Sweeper /\ TakingOver(k)
  /\ \A h \in hooks : HookOK(h)
  /\ \A t \in Tickets : OwnIssue(t) /\ InStep(k, t)

SyncInv == OnceInv /\ \E k \in Slots : Alone(k) /\ (faults = 0 => Sync(k))

LEMMA AgreeCases ==
  ASSUME NEW t, NEW i, i.state \in States
  PROVE  Agree(t, i) <=>
           /\ i.state = "triage" => status[t] = "new" \/ i.moved
           /\ i.state = "in_progress" => Live(t) /\ (status[t] = "new" => lane[t] = "dev")
           /\ i.state = "done" => status[t] \in Retired
           /\ i.state = "canceled" => status[t] = "closed"
BY DEF Agree, States

LEMMA SuitsCases ==
  ASSUME NEW t, NEW s \in States
  PROVE  Suits(t, s) <=>
           /\ s = "triage" => status[t] = "new"
           /\ s = "in_progress" => Live(t) /\ (status[t] = "new" => lane[t] = "dev")
           /\ s = "done" => status[t] \in Retired
           /\ s = "canceled" => status[t] = "closed"
<1>1. PICK i : i = [state |-> s, moved |-> FALSE]
  OBVIOUS
<1>2. i.state = s /\ i.moved = FALSE
  BY <1>1
<1>3. Suits(t, s) <=> Agree(t, i)
  BY <1>1 DEF Suits
<1>q. QED
  BY <1>2, <1>3, AgreeCases

LEMMA SuitsAgrees ==
  ASSUME NEW t, NEW i, i.state \in States, Suits(t, i.state)
  PROVE  Agree(t, i)
BY AgreeCases, SuitsCases

\* ticket_to_linear_state suits the ticket it is computed from.
LEMMA ExpectedSuits ==
  ASSUME NEW t, status[t] \in Statuses, lane[t] \in Lanes
  PROVE  Suits(t, Expected(status[t], lane[t]))
BY ExpectedTyped, SuitsCases DEF Expected, Statuses, Retired, Live, Lanes

\* A step that leaves a ticket and its issue alone.
LEMMA FineKept ==
  ASSUME NEW t, Fine(t), status'[t] = status[t], lane'[t] = lane[t], mirror'[t] = mirror[t],
         hooks' = hooks, mirror[t] # 0 => issues'[mirror[t]] = issues[mirror[t]]
  PROVE  Fine(t)'
BY DEF Fine, Pending, Agree, Live

LEMMA OtherFine ==
  ASSUME NEW k, Sync(k), NEW t \in Tickets,
         task[k].ticket # t \/ ~(Pushing(k) \/ TakingOver(k))
  PROVE  Fine(t)
BY DEF Sync, InStep

\* A call that is over leaves a handler that knows what it has to.
LEMMA FinishedKnows ==
  ASSUME NEW k \in Slots, task \in [Slots -> TaskRecord],
         KnowsOf(task[k]), task[k].pc \notin {"idle", "sweep"},
         task'[k] = Finished(k),
         \A u \in task[k].queue : status'[u] = status[u] /\ lane'[u] = lane[u],
         task[k].kind = "sweep" => /\ status'[task[k].ticket] = status[task[k].ticket]
                                   /\ lane'[task[k].ticket] = lane[task[k].ticket]
  PROVE  KnowsOf(task[k])'
<1>1. PICK r : r = task[k]
  OBVIOUS
<1>2. PICK new : new = task'[k]
  OBVIOUS
<1>3. r \in TaskRecord
  BY <1>1
<1>4. CASE r.kind \in DOMAIN NextCall
  <2>1. new = [r EXCEPT !.pc = "ensure", !.kind = NextCall[r.kind]]
    BY <1>1, <1>2, <1>4 DEF Finished
  <2>2. NextCall[r.kind] \in {"se_project", "assign"}
    BY <1>4 DEF NextCall
  <2>3. /\ new.pc = "ensure" /\ new.kind \in {"se_project", "assign"} /\ new.ticket = r.ticket
        /\ new.queue = r.queue /\ new.snap = r.snap
    BY <1>3, <2>1, <2>2 DEF TaskRecord
  <2>q. QED
    BY <1>1, <1>2, <2>3 DEF KnowsOf, Live
<1>5. CASE r.kind \notin DOMAIN NextCall /\ r.kind = "sweep" /\ r.snap[r.ticket].lane = "dev"
  <2>1. new = [r EXCEPT !.pc = "ensure", !.kind = "open_dev"]
    BY <1>1, <1>2, <1>5 DEF Finished
  <2>2. /\ new.pc = "ensure" /\ new.kind = "open_dev" /\ new.ticket = r.ticket
        /\ new.queue = r.queue /\ new.snap = r.snap
    BY <1>3, <2>1 DEF TaskRecord
  <2>3. Live(r.ticket) /\ lane[r.ticket] = "dev"
    BY <1>1, <1>5 DEF KnowsOf
  <2>q. QED
    BY <1>1, <1>2, <1>5, <2>2, <2>3 DEF KnowsOf, Live
<1>6. CASE r.kind \notin DOMAIN NextCall /\ ~(r.kind = "sweep" /\ r.snap[r.ticket].lane = "dev")
  <2>1. \/ new = NoTask
        \/ new = [NoTask EXCEPT !.pc = "sweep", !.queue = r.queue, !.snap = r.snap]
    BY <1>1, <1>2, <1>6 DEF Finished
  <2>2. new.pc = "idle" \/ (new.pc = "sweep" /\ new.queue = r.queue /\ new.snap = r.snap)
    <3>1. CASE new = NoTask
      BY <3>1 DEF NoTask
    <3>2. CASE new = [NoTask EXCEPT !.pc = "sweep", !.queue = r.queue, !.snap = r.snap]
      BY <3>2 DEF NoTask
    <3>q. QED
      BY <2>1, <3>1, <3>2
  <2>q. QED
    BY <1>1, <1>2, <2>2 DEF KnowsOf, Live
<1>q. QED
  BY <1>4, <1>5, <1>6

\* So does a call that has its issue i.
LEMMA HasIssueKnows ==
  ASSUME NEW k \in Slots, task \in [Slots -> TaskRecord], NEW i,
         KnowsOf(task[k]), task[k].pc \in {"ensure", "persist"},
         task'[k] = HasIssue(k, i), mirror'[task[k].ticket] = i,
         UNCHANGED <<status, lane>>
  PROVE  KnowsOf(task[k])'
<1>1. PICK r : r = task[k]
  OBVIOUS
<1>2. PICK new : new = task'[k]
  OBVIOUS
<1>3. r \in TaskRecord
  BY <1>1
<1>4. CASE r.kind \in SyncKinds
  <2>1. new = [r EXCEPT !.pc = "reread", !.issue = i]
    BY <1>1, <1>2, <1>4 DEF HasIssue
  <2>2. /\ new.pc = "reread" /\ new.kind = r.kind /\ new.ticket = r.ticket /\ new.issue = i
        /\ new.queue = r.queue /\ new.snap = r.snap
    BY <1>3, <2>1 DEF TaskRecord
  <2>q. QED
    BY <1>1, <1>2, <1>4, <2>2 DEF KnowsOf, Live
<1>5. CASE r.kind \notin SyncKinds /\ r.kind \in DOMAIN Fixed
  <2>1. new = [r EXCEPT !.pc = "push", !.issue = i, !.state = Fixed[r.kind]]
    BY <1>1, <1>2, <1>5 DEF HasIssue
  <2>2. /\ new.pc = "push" /\ new.kind = r.kind /\ new.ticket = r.ticket /\ new.issue = i
        /\ new.queue = r.queue /\ new.snap = r.snap /\ new.state = Fixed[r.kind]
    BY <1>3, <2>1 DEF TaskRecord
  <2>3. /\ r.kind \in {"resolve", "drop", "to_dev", "open_dev"}
        /\ Fixed[r.kind] = CASE r.kind = "resolve" -> "done" [] r.kind = "drop" -> "canceled"
                             [] OTHER -> "in_progress"
    BY <1>5 DEF Fixed
  <2>4. /\ r.kind = "resolve" => status[r.ticket] = "resolved"
        /\ r.kind = "drop" => status[r.ticket] = "closed"
        /\ r.kind \in {"to_dev", "open_dev"} => Live(r.ticket) /\ lane[r.ticket] = "dev"
    BY <1>1 DEF KnowsOf
  <2>5. Suits(r.ticket, Fixed[r.kind])
    BY <2>3, <2>4, SuitsCases DEF States, Retired
  <2>6. Suits(new.ticket, new.state)'
    BY <2>2, <2>5 DEF Suits, Agree, Live
  <2>q. QED
    BY <1>1, <1>2, <2>2, <2>4, <2>6 DEF KnowsOf, Live
<1>6. CASE r.kind \notin SyncKinds /\ r.kind \notin DOMAIN Fixed
  <2>1. task'[k] = Finished(k)
    BY <1>1, <1>6 DEF HasIssue
  <2>q. QED
    BY <2>1, FinishedKnows
<1>q. QED
  BY <1>4, <1>5, <1>6

\* The handler's read of its ticket.
LEMMA SyncGet ==
  ASSUME TypeOK, NEW k \in Slots, Sync(k), Get(k)
  PROVE  Sync(k)'
<1>1. /\ task \in [Slots -> TaskRecord] /\ task[k] \in TaskRecord /\ task[k].pc = "get"
      /\ task[k].kind \in Inbound /\ task[k].ticket \in Tickets
      /\ UNCHANGED <<status, lane, mirror, issues, hooks>>
      /\ status \in [Tickets -> Statuses \cup {"none"}]
  BY DEF TypeOK, TaskTypeOK, SlotOK, Get, ticketVars
<1>2. mirror[task[k].ticket] # 0 /\ issues[mirror[task[k].ticket]].state = task[k].kind
  BY <1>1 DEF Sync, KnowsOf
<1>3. \A t \in Tickets : OwnIssue(t)' /\ (Fine(t) => Fine(t)')
  BY <1>1, FineKept DEF Sync, OwnIssue
<1>4. \A h \in hooks' : HookOK(h)'
  BY <1>1 DEF Sync, HookOK
<1>5. CASE status[task[k].ticket] = Target[task[k].kind]
  <2>1. task'[k] = Finished(k)
    BY <1>1, <1>5 DEF Get, Finish
  <2>2. KnowsOf(task[k])'
    BY <1>1, <2>1, FinishedKnows DEF Sync
  <2>3. k # Sweeper => task'[k].pc = "idle"
    BY <1>1, <2>1 DEF Finished, Inbound, NextCall, NoTask
  <2>4. Agree(task[k].ticket, issues[mirror[task[k].ticket]])
    BY <1>1, <1>2, <1>5, AgreeCases DEF Target, Inbound, States, Retired, Live
  <2>5. \A t \in Tickets : Fine(t)
    BY <2>4, OtherFine DEF Fine
  <2>q. QED
    BY <1>1, <1>3, <1>4, <2>2, <2>3, <2>5 DEF Sync, InStep
<1>6. CASE status[task[k].ticket] # Target[task[k].kind]
  <2>1. /\ task'[k].pc = "write" /\ task'[k].kind = task[k].kind
        /\ task'[k].ticket = task[k].ticket /\ task'[k].queue = task[k].queue
        /\ task'[k].snap = task[k].snap
    BY <1>1, <1>6 DEF Get, Goto, TaskRecord
  <2>2. task[k].kind \notin {"to_dev", "sweep"}
    BY <1>1 DEF Inbound
  <2>3. KnowsOf(task[k])'
    BY <1>1, <1>2, <2>1, <2>2 DEF Sync, KnowsOf, Live
  <2>4. TakingOver(k)'
    BY <1>1, <2>1 DEF TakingOver
  <2>5. \A t \in Tickets : InStep(k, t)'
    BY <1>3, <2>1, <2>4, OtherFine DEF InStep
  <2>q. QED
    BY <1>1, <1>3, <1>4, <2>3, <2>4, <2>5 DEF Sync
<1>q. QED
  BY <1>5, <1>6

\* Its own write.
LEMMA SyncWrite ==
  ASSUME TypeOK, NEW k \in Slots, Once(k), Sync(k), Write(k)
  PROVE  Sync(k)'
<1>1. /\ task \in [Slots -> TaskRecord] /\ task[k] \in TaskRecord /\ task[k].pc = "write"
      /\ task[k].kind \in DOMAIN Target \cup LaneKinds /\ task[k].ticket \in Tickets
      /\ UNCHANGED <<mirror, issues, hooks>> /\ task[k].queue \subseteq Tickets
      /\ status \in [Tickets -> Statuses \cup {"none"}] /\ lane \in [Tickets -> Lanes]
  BY DEF TypeOK, TaskTypeOK, SlotOK, TaskRecord, Write
<1>2. task[k].ticket \notin task[k].queue
  BY <1>1 DEF Once, AtWork
<1>3. \A u \in Tickets \ {task[k].ticket} : status'[u] = status[u] /\ lane'[u] = lane[u]
  BY <1>1 DEF Write
<1>4. \A t \in Tickets : OwnIssue(t)' /\ (t # task[k].ticket => Fine(t)')
  BY <1>1, <1>3, FineKept, OtherFine DEF Sync, OwnIssue
<1>5. \A h \in hooks' : HookOK(h)'
  BY <1>1 DEF Sync, HookOK
<1>6. CASE task[k].kind \in Inbound
  <2>1. task'[k] = Finished(k)
    BY <1>1, <1>6 DEF Write, Finish
  <2>2. /\ mirror[task[k].ticket] # 0
        /\ issues[mirror[task[k].ticket]].state = task[k].kind
    BY <1>1, <1>6 DEF Sync, KnowsOf
  <2>3. status'[task[k].ticket] = Target[task[k].kind]
    BY <1>1, <1>6 DEF Write, Inbound, LaneKinds
  <2>4. KnowsOf(task[k])'
    BY <1>1, <1>2, <1>3, <1>6, <2>1, FinishedKnows DEF Sync, Inbound
  <2>5. k # Sweeper => task'[k].pc = "idle"
    BY <1>1, <1>6, <2>1 DEF Finished, Inbound, NextCall, NoTask
  <2>6. ASSUME NEW t \in Tickets, t = task[k].ticket PROVE Fine(t)'
    <3>1. PICK i : i = issues[mirror[t]]
      OBVIOUS
    <3>2. i.state = task[k].kind /\ status'[t] = Target[i.state]
      BY <2>2, <2>3, <2>6, <3>1
    <3>3. /\ i.state \in {"done", "canceled", "in_progress"}
          /\ i.state = "done" => status'[t] = "resolved"
          /\ i.state = "canceled" => status'[t] = "closed"
          /\ i.state = "in_progress" => status'[t] = "in_progress"
      BY <1>6, <3>2 DEF Inbound, Target
    <3>4. Agree(t, i)'
      BY <3>3 DEF Agree, Retired, Live
    <3>q. QED
      BY <1>1, <3>1, <3>4 DEF Fine, Agree, Live
  <2>q. QED
    BY <1>1, <1>4, <1>5, <2>4, <2>5, <2>6 DEF Sync, InStep
<1>7. CASE task[k].kind \notin Inbound
  <2>1. /\ task'[k].pc = "ensure" /\ task'[k].kind = task[k].kind
        /\ task'[k].ticket = task[k].ticket /\ task'[k].queue = task[k].queue
        /\ task'[k].snap = task[k].snap
    BY <1>1, <1>7 DEF Write, Goto, TaskRecord
  <2>2. hooks = {}
    BY <1>1, <1>7 DEF Sync, TakingOver
  <2>3. Pushing(k)'
    BY <1>1, <1>7, <2>1 DEF Pushing, Target, LaneKinds, Inbound, SyncKinds, Fixed
  <2>4. /\ task[k].kind = "resolve" => status'[task[k].ticket] = "resolved"
        /\ task[k].kind = "drop" => status'[task[k].ticket] = "closed"
    BY <1>1, <1>7 DEF Write, LaneKinds, Target
  <2>5. task[k].kind = "to_dev" =>
          /\ status'[task[k].ticket] \in {"new", "in_progress"}
          /\ lane'[task[k].ticket] = "dev"
    BY <1>1, <1>7 DEF Sync, KnowsOf, Write, LaneKinds, Live
  <2>6. task[k].kind \notin {"open_dev", "sweep"}
    BY <1>1 DEF Target, LaneKinds
  <2>7. KnowsOf(task[k])'
    BY <1>1, <1>2, <1>3, <2>1, <2>4, <2>5, <2>6 DEF Sync, KnowsOf, Live
  <2>q. QED
    BY <1>1, <1>4, <1>5, <2>1, <2>2, <2>3, <2>7 DEF Sync, InStep
<1>q. QED
  BY <1>6, <1>7

\* The look for the issue.
LEMMA SyncEnsure ==
  ASSUME TypeOK, NEW k \in Slots, Once(k), Sync(k), Ensure(k)
  PROVE  Sync(k)'
<1>1. /\ task \in [Slots -> TaskRecord] /\ task[k] \in TaskRecord /\ task[k].pc = "ensure"
      /\ task[k].ticket \in Tickets
      /\ UNCHANGED <<status, lane, mirror, issues, hooks>>
      /\ status \in [Tickets -> Statuses \cup {"none"}] /\ lane \in [Tickets -> Lanes]
  BY DEF TypeOK, TaskTypeOK, SlotOK, Ensure, ticketVars
<1>2. hooks = {} /\ status[task[k].ticket] # "none"
  BY <1>1 DEF Sync, TakingOver, Once, AtWork
<1>3. \A t \in Tickets : OwnIssue(t)' /\ (Fine(t) => Fine(t)')
  BY <1>1, FineKept DEF Sync, OwnIssue
<1>4. CASE mirror[task[k].ticket] # 0
  <2>1. task'[k] = HasIssue(k, mirror[task[k].ticket])
    BY <1>1, <1>4 DEF Ensure
  <2>2. KnowsOf(task[k])'
    BY <1>1, <2>1, HasIssueKnows DEF Sync
  <2>3. ASSUME NEW t \in Tickets PROVE InStep(k, t)'
    <3>1. CASE task[k].kind \in SyncKinds
      <4>1. task'[k].pc = "reread" /\ task'[k].kind = task[k].kind
            /\ task'[k].ticket = task[k].ticket
        BY <1>1, <2>1, <3>1 DEF HasIssue, TaskRecord
      <4>q. QED
        BY <1>3, <3>1, <4>1, OtherFine DEF InStep, Pushing
    <3>2. CASE task[k].kind \notin SyncKinds /\ task[k].kind \in DOMAIN Fixed
      <4>1. task'[k].pc = "push" /\ task'[k].kind = task[k].kind
            /\ task'[k].ticket = task[k].ticket
        BY <1>1, <2>1, <3>2 DEF HasIssue, TaskRecord
      <4>q. QED
        BY <1>3, <3>2, <4>1, OtherFine DEF InStep, Pushing
    <3>3. CASE task[k].kind \notin SyncKinds /\ task[k].kind \notin DOMAIN Fixed
      <4>1. ~Pushing(k) /\ ~TakingOver(k)
        BY <1>1, <3>3 DEF Pushing, TakingOver
      <4>q. QED
        BY <1>3, <4>1, OtherFine DEF InStep
    <3>q. QED
      BY <3>1, <3>2, <3>3
  <2>q. QED
    BY <1>1, <1>2, <1>3, <2>2, <2>3 DEF Sync
<1>5. CASE mirror[task[k].ticket] = 0
  <2>1. PICK s : s = Expected(status[task[k].ticket], lane[task[k].ticket])
    OBVIOUS
  <2>2. /\ task'[k].pc = "create" /\ task'[k].kind = task[k].kind
        /\ task'[k].ticket = task[k].ticket
        /\ task'[k].state = s
        /\ task'[k].queue = task[k].queue /\ task'[k].snap = task[k].snap
    BY <1>1, <1>5, <2>1 DEF Ensure, TaskRecord
  <2>3. Suits(task[k].ticket, s)
    BY <1>1, <1>2, <2>1, ExpectedSuits
  <2>4. Suits(task[k].ticket, task[k].state)'
    BY <1>1, <2>2, <2>3 DEF Suits, Agree, Live
  <2>5. KnowsOf(task[k])'
    BY <1>1, <2>2, <2>4 DEF Sync, KnowsOf, Live
  <2>6. ASSUME NEW t \in Tickets PROVE InStep(k, t)'
    <3>1. CASE Pushing(k)
      BY <1>1, <1>3, <2>2, <3>1, OtherFine DEF InStep, Pushing
    <3>2. CASE ~Pushing(k)
      BY <1>1, <1>3, <3>2, OtherFine DEF InStep, TakingOver
    <3>q. QED
      BY <3>1, <3>2
  <2>q. QED
    BY <1>1, <1>2, <1>3, <2>5, <2>6 DEF Sync
<1>q. QED
  BY <1>4, <1>5

\* The creation, with the state that suits the ticket.
LEMMA SyncCreate ==
  ASSUME TypeOK, NEW k \in Slots, Once(k), Sync(k), faults = 0, faults' = 0, Create(k)
  PROVE  Sync(k)'
<1>1. /\ task \in [Slots -> TaskRecord] /\ task[k] \in TaskRecord /\ task[k].pc = "create"
      /\ task[k].ticket \in Tickets /\ task[k].state \in States
      /\ UNCHANGED <<status, lane, mirror, hooks>>
      /\ issues \in Seq(Issue) /\ Len(issues) \in Nat
      /\ mirror \in [Tickets -> 0 .. Len(issues)]
  BY DEF TypeOK, TaskTypeOK, SlotOK, TaskRecord, Create, ticketVars
<1>2. hooks = {}
  BY <1>1 DEF Sync, TakingOver
<1>3. PICK new : new = [ticket |-> task[k].ticket, state |-> task[k].state, moved |-> FALSE]
  OBVIOUS
<1>4. /\ issues' = Append(issues, new)
      /\ task' = [task EXCEPT ![k].pc = "persist", ![k].issue = Len(issues) + 1]
  BY <1>3 DEF Create, Outage
<1>5. /\ task'[k].pc = "persist" /\ task'[k].ticket = task[k].ticket
      /\ task'[k].kind = task[k].kind /\ task'[k].issue = Len(issues) + 1
      /\ task'[k].queue = task[k].queue /\ task'[k].snap = task[k].snap
  BY <1>1, <1>4 DEF TaskRecord
<1>6. new \in Issue /\ new.ticket = task[k].ticket /\ new.state = task[k].state
  BY <1>1, <1>3 DEF Issue
<1>7. /\ issues'[Len(issues) + 1] = new
      /\ \A i \in 1 .. Len(issues) : issues'[i] = issues[i]
  BY <1>1, <1>4, <1>6
<1>8. \A t \in Tickets : mirror[t] # 0 => issues'[mirror[t]] = issues[mirror[t]]
  BY <1>1, <1>7
<1>9. \A t \in Tickets : OwnIssue(t)' /\ (Fine(t) => Fine(t)')
  BY <1>1, <1>8, FineKept DEF Sync, OwnIssue
<1>10. Suits(task[k].ticket, new.state)
  BY <1>1, <1>6 DEF Sync, KnowsOf
<1>11. Agree(task[k].ticket, new)
  BY <1>1, <1>6, <1>10, SuitsAgrees
<1>12. KnowsOf(task[k])'
  BY <1>1, <1>5, <1>6, <1>7, <1>11 DEF Sync, KnowsOf, Live, Agree
<1>13. ASSUME NEW t \in Tickets PROVE InStep(k, t)'
  <2>1. CASE Pushing(k)
    BY <1>1, <1>5, <1>9, <2>1, OtherFine DEF InStep, Pushing
  <2>2. CASE ~Pushing(k)
    BY <1>1, <1>9, <2>2, OtherFine DEF InStep, TakingOver
  <2>q. QED
    BY <2>1, <2>2
<1>q. QED
  BY <1>1, <1>2, <1>9, <1>12, <1>13 DEF Sync

\* The row gets the issue, and they agree.
LEMMA SyncPersist ==
  ASSUME TypeOK, NEW k \in Slots, Once(k), Sync(k), Persist(k)
  PROVE  Sync(k)'
<1>1. /\ task \in [Slots -> TaskRecord] /\ task[k] \in TaskRecord /\ task[k].pc = "persist"
      /\ task[k].ticket \in Tickets
      /\ UNCHANGED <<status, lane, issues, hooks>>
      /\ mirror \in [Tickets -> 0 .. Len(issues)]
      /\ mirror' = [mirror EXCEPT ![task[k].ticket] = task[k].issue]
      /\ task'[k] = HasIssue(k, task[k].issue)
  BY DEF TypeOK, TaskTypeOK, SlotOK, Persist
<1>2. hooks = {}
  BY <1>1 DEF Sync, TakingOver
<1>3. KnowsOf(task[k])'
  BY <1>1, HasIssueKnows DEF Sync
<1>4. /\ issues[task[k].issue].ticket = task[k].ticket
      /\ Agree(task[k].ticket, issues[task[k].issue])
  BY <1>1 DEF Sync, KnowsOf
<1>5. ASSUME NEW t \in Tickets PROVE OwnIssue(t)' /\ Fine(t)'
  <2>1. CASE t = task[k].ticket
    <3>1. mirror'[t] = task[k].issue
      BY <1>1, <2>1
    <3>q. QED
      BY <1>1, <1>4, <2>1, <3>1 DEF OwnIssue, Fine, Agree, Live
  <2>2. CASE t # task[k].ticket
    <3>1. mirror'[t] = mirror[t]
      BY <1>1, <2>2
    <3>2. Fine(t) /\ OwnIssue(t)
      BY <2>2, OtherFine DEF Sync
    <3>q. QED
      BY <1>1, <3>1, <3>2, FineKept DEF OwnIssue
  <2>q. QED
    BY <2>1, <2>2
<1>q. QED
  BY <1>1, <1>2, <1>3, <1>5 DEF Sync, InStep

\* sync_state reads the ticket again.
LEMMA SyncReread ==
  ASSUME TypeOK, NEW k \in Slots, Once(k), Sync(k), Reread(k)
  PROVE  Sync(k)'
<1>1. /\ task \in [Slots -> TaskRecord] /\ task[k] \in TaskRecord /\ task[k].pc = "reread"
      /\ task[k].ticket \in Tickets
      /\ UNCHANGED <<status, lane, mirror, issues, hooks>>
      /\ status \in [Tickets -> Statuses \cup {"none"}] /\ lane \in [Tickets -> Lanes]
  BY DEF TypeOK, TaskTypeOK, SlotOK, Reread, ticketVars
<1>2. hooks = {} /\ status[task[k].ticket] # "none"
  BY <1>1 DEF Sync, TakingOver, Once, AtWork
<1>3. \A t \in Tickets : OwnIssue(t)' /\ (Fine(t) => Fine(t)')
  BY <1>1, FineKept DEF Sync, OwnIssue
<1>4. PICK s : s = Expected(status[task[k].ticket], lane[task[k].ticket])
  OBVIOUS
<1>5. /\ task'[k].pc = "push" /\ task'[k].kind = task[k].kind
      /\ task'[k].ticket = task[k].ticket /\ task'[k].issue = task[k].issue
      /\ task'[k].state = s
      /\ task'[k].queue = task[k].queue /\ task'[k].snap = task[k].snap
  BY <1>1, <1>4 DEF Reread, TaskRecord
<1>6. Suits(task[k].ticket, s)
  BY <1>1, <1>2, <1>4, ExpectedSuits
<1>7. Suits(task[k].ticket, task[k].state)'
  BY <1>1, <1>5, <1>6 DEF Suits, Agree, Live
<1>8. CASE task[k].kind \in SyncKinds
  <2>1. task[k].kind \notin {"resolve", "drop", "to_dev", "open_dev", "sweep"}
    BY <1>8 DEF SyncKinds
  <2>2. KnowsOf(task[k])'
    BY <1>1, <1>5, <1>7, <2>1 DEF Sync, KnowsOf, Live
  <2>3. \A t \in Tickets : InStep(k, t)'
    BY <1>1, <1>3, <1>5, <1>8, OtherFine DEF InStep, Pushing
  <2>q. QED
    BY <1>1, <1>2, <1>3, <2>2, <2>3 DEF Sync
<1>q. QED
  BY <1>1, <1>8 DEF Sync, KnowsOf

\* The push.
LEMMA SyncPush ==
  ASSUME TypeOK, NEW k \in Slots, Once(k), Sync(k), faults = 0, faults' = 0, Push(k)
  PROVE  Sync(k)'
<1>1. /\ task \in [Slots -> TaskRecord] /\ task[k] \in TaskRecord /\ task[k].pc = "push"
      /\ task[k].ticket \in Tickets /\ task[k].state \in States
      /\ UNCHANGED <<status, lane, mirror, hooks>>
      /\ issues \in Seq(Issue) /\ DOMAIN issues = 1 .. Len(issues)
      /\ mirror \in [Tickets -> 0 .. Len(issues)]
      /\ task[k].issue \in 1 .. Len(issues)
      /\ task'[k] = Finished(k)
  BY DEF TypeOK, TaskTypeOK, SlotOK, TaskRecord, Push, Finish, ticketVars
<1>2. hooks = {} /\ task[k].issue = mirror[task[k].ticket]
  BY <1>1 DEF Sync, KnowsOf, TakingOver
<1>3. issues' = [issues EXCEPT ![task[k].issue].state = task[k].state]
  BY DEF Push, Outage
<1>4. /\ issues[task[k].issue] \in Issue
      /\ issues'[task[k].issue].state = task[k].state
      /\ issues'[task[k].issue].ticket = issues[task[k].issue].ticket
      /\ \A i \in DOMAIN issues : i # task[k].issue => issues'[i] = issues[i]
  <2>1. PICK new : new = [issues[task[k].issue] EXCEPT !.state = task[k].state]
    OBVIOUS
  <2>2. issues[task[k].issue] \in Issue
    BY <1>1
  <2>3. new.state = task[k].state /\ new.ticket = issues[task[k].issue].ticket
    BY <2>1, <2>2 DEF Issue
  <2>4. issues' = [issues EXCEPT ![task[k].issue] = new]
    BY <1>3, <2>1
  <2>q. QED
    BY <1>1, <2>2, <2>3, <2>4
<1>5. KnowsOf(task[k])'
  BY <1>1, FinishedKnows DEF Sync
<1>6. Suits(task[k].ticket, task[k].state)
  BY <1>1 DEF Sync, KnowsOf
<1>7. ASSUME NEW t \in Tickets PROVE OwnIssue(t)' /\ Fine(t)'
  <2>1. CASE t = task[k].ticket
    <3>1. PICK i : i = issues'[mirror[t]]
      OBVIOUS
    <3>2. i.state = task[k].state
      BY <1>2, <1>4, <2>1, <3>1
    <3>3. Agree(t, i)
      BY <1>1, <1>6, <2>1, <3>2, SuitsAgrees
    <3>4. Agree(t, issues[mirror[t]])'
      BY <1>1, <3>1, <3>3 DEF Agree, Live
    <3>5. OwnIssue(t)'
      BY <1>1, <1>2, <1>4, <2>1 DEF Sync, OwnIssue
    <3>q. QED
      BY <3>4, <3>5 DEF Fine
  <2>2. CASE t # task[k].ticket
    <3>1. Fine(t) /\ OwnIssue(t)
      BY <2>2, OtherFine DEF Sync
    <3>2. mirror[t] # 0 => mirror[t] # task[k].issue
      BY <1>1, <1>2, <2>2, <3>1 DEF Sync, OwnIssue
    <3>3. mirror[t] # 0 => issues'[mirror[t]] = issues[mirror[t]]
      BY <1>1, <1>4, <3>2
    <3>q. QED
      BY <1>1, <3>1, <3>3, FineKept DEF OwnIssue
  <2>q. QED
    BY <2>1, <2>2
<1>q. QED
  BY <1>1, <1>2, <1>5, <1>7 DEF Sync, InStep

\* The sweep's next ticket.
LEMMA SyncSweepNext ==
  ASSUME TypeOK, NEW k \in Slots, Once(k), Sync(k), SweepNext(k)
  PROVE  Sync(k)'
<1>1. /\ task \in [Slots -> TaskRecord] /\ task[k] \in TaskRecord /\ task[k].pc = "sweep"
      /\ task[k].queue \subseteq Tickets
      /\ UNCHANGED <<status, lane, mirror, issues, hooks>>
      /\ status \in [Tickets -> Statuses \cup {"none"}] /\ lane \in [Tickets -> Lanes]
  BY DEF TypeOK, TaskTypeOK, TaskRecord, SweepNext, ticketVars
<1>2. hooks = {}
  BY <1>1 DEF Sync, TakingOver
<1>3. \A t \in Tickets : OwnIssue(t)' /\ Fine(t)'
  BY <1>1, FineKept, OtherFine DEF Sync, OwnIssue, Pushing, TakingOver
<1>4. SUFFICES KnowsOf(task[k])'
  BY <1>1, <1>2, <1>3 DEF Sync, InStep
<1>5. CASE task' = [task EXCEPT ![k] = NoTask]
  <2>1. task'[k].pc = "idle"
    BY <1>1, <1>5 DEF NoTask
  <2>q. QED
    BY <2>1 DEF KnowsOf
<1>6. ASSUME NEW t \in task[k].queue, NEW pc, NEW kind, NEW state,
             pc = IF task[k].snap[t].mirror = 0 THEN "create" ELSE "read",
             kind = IF task[k].snap[t].mirror = 0 THEN "sweep" ELSE "reconcile",
             state = Expected(task[k].snap[t].status, task[k].snap[t].lane),
             task' = [task EXCEPT ![k].queue = @ \ {t}, ![k].ticket = t, ![k].kind = kind,
                                  ![k].pc = pc, ![k].issue = task[k].snap[t].mirror,
                                  ![k].state = state]
      PROVE  KnowsOf(task[k])'
  <2>1. /\ task'[k].pc = pc /\ task'[k].kind = kind /\ task'[k].ticket = t
        /\ task'[k].queue = task[k].queue \ {t} /\ task'[k].state = state
        /\ task'[k].snap = task[k].snap /\ task'[k].issue = task[k].snap[t].mirror
    BY <1>1, <1>6 DEF TaskRecord
  <2>2. /\ task[k].snap[t].mirror = mirror[t] /\ status[t] \in Statuses
        /\ Live(t) /\ task[k].snap[t].status = status[t] /\ task[k].snap[t].lane = lane[t]
    BY <1>1, <1>6 DEF Once, Seen, Sync, KnowsOf
  <2>3. Suits(t, state)
    BY <1>1, <1>6, <2>2, ExpectedSuits
  <2>4. Suits(task[k].ticket, task[k].state)'
    BY <1>1, <2>1, <2>3 DEF Suits, Agree, Live
  <2>5. \A u \in task[k].queue :
          Live(u) /\ task[k].snap[u].status = status[u] /\ task[k].snap[u].lane = lane[u]
    BY <1>1 DEF Sync, KnowsOf
  <2>6. /\ status' = status /\ lane' = lane /\ mirror' = mirror /\ t \notin task'[k].queue
        /\ \A u \in task'[k].queue :
             Live(u) /\ task'[k].snap[u].status = status[u] /\ task'[k].snap[u].lane = lane[u]
    BY <1>1, <2>1, <2>5
  <2>7. CASE task[k].snap[t].mirror = 0
    <3>1. task'[k].pc = "create" /\ task'[k].kind = "sweep"
      BY <1>6, <2>1, <2>7
    <3>2. task'[k].ticket = t /\ task'[k].snap[t].lane = lane[t] /\ Live(t)
      BY <2>1, <2>2
    <3>q. QED
      BY <2>4, <2>6, <3>1, <3>2 DEF KnowsOf, Live
  <2>8. CASE task[k].snap[t].mirror # 0
    <3>1. task'[k].pc = "read" /\ task'[k].kind = "reconcile"
      BY <1>6, <2>1, <2>8
    <3>2. /\ task'[k].ticket = t /\ task'[k].snap[t].status = status[t]
          /\ task'[k].issue = mirror[t]
      BY <2>1, <2>2
    <3>q. QED
      BY <2>6, <3>1, <3>2 DEF KnowsOf, Live
  <2>q. QED
    BY <2>7, <2>8
<1>7. CASE \E t \in task[k].queue :
             LET seen == task[k].snap[t] IN
             task' = [task EXCEPT
               ![k].queue = @ \ {t},
               ![k].ticket = t,
               ![k].kind = IF seen.mirror = 0 THEN "sweep" ELSE "reconcile",
               ![k].pc = IF seen.mirror = 0 THEN "create" ELSE "read",
               ![k].issue = seen.mirror,
               ![k].state = Expected(seen.status, seen.lane)]
  <2>1. PICK t \in task[k].queue :
             LET seen == task[k].snap[t] IN
             task' = [task EXCEPT
               ![k].queue = @ \ {t},
               ![k].ticket = t,
               ![k].kind = IF seen.mirror = 0 THEN "sweep" ELSE "reconcile",
               ![k].pc = IF seen.mirror = 0 THEN "create" ELSE "read",
               ![k].issue = seen.mirror,
               ![k].state = Expected(seen.status, seen.lane)]
    BY <1>7
  <2>2. PICK pc : pc = IF task[k].snap[t].mirror = 0 THEN "create" ELSE "read"
    OBVIOUS
  <2>3. PICK kind : kind = IF task[k].snap[t].mirror = 0 THEN "sweep" ELSE "reconcile"
    OBVIOUS
  <2>4. PICK state : state = Expected(task[k].snap[t].status, task[k].snap[t].lane)
    OBVIOUS
  <2>5. task' = [task EXCEPT ![k].queue = @ \ {t}, ![k].ticket = t, ![k].kind = kind,
                             ![k].pc = pc, ![k].issue = task[k].snap[t].mirror,
                             ![k].state = state]
    BY <2>1, <2>2, <2>3, <2>4
  <2>q. QED
    BY <1>6, <2>2, <2>3, <2>4, <2>5
<1>q. QED
  BY <1>5, <1>7 DEF SweepNext

\* The sweep's read of an issue.
LEMMA SyncSweepRead ==
  ASSUME TypeOK, NEW k \in Slots, Once(k), Sync(k), faults = 0, faults' = 0, SweepRead(k)
  PROVE  Sync(k)'
<1>1. /\ task \in [Slots -> TaskRecord] /\ task[k] \in TaskRecord /\ task[k].pc = "read"
      /\ task[k].ticket \in Tickets /\ task[k].issue \in 1 .. Len(issues)
      /\ UNCHANGED <<status, lane, mirror, issues, hooks>>
  BY DEF TypeOK, TaskTypeOK, SlotOK, SweepRead, ticketVars
<1>2. /\ hooks = {} /\ task[k].issue = mirror[task[k].ticket] /\ mirror[task[k].ticket] # 0
  BY <1>1 DEF Sync, KnowsOf, TakingOver
<1>3. \A t \in Tickets : OwnIssue(t)' /\ Fine(t)'
  BY <1>1, FineKept, OtherFine DEF Sync, OwnIssue, Pushing, TakingOver
<1>4. SUFFICES KnowsOf(task[k])'
  BY <1>1, <1>2, <1>3 DEF Sync, InStep
<1>5. PICK state : state = issues[task[k].issue].state
  OBVIOUS
<1>6. CASE task'[k] = Finished(k)
  BY <1>1, <1>6, FinishedKnows DEF Sync
<1>7. CASE Acts(state, task[k].snap[task[k].ticket].status)
  <2>1. state \in Inbound
    BY <1>7 DEF Acts, Inbound
  <2>2. task' = [task EXCEPT ![k] = [task[k] EXCEPT !.pc = FirstStep(state), !.kind = state]]
    BY <1>5, <1>7 DEF SweepRead, Outage
  <2>3. /\ task'[k].pc = FirstStep(state) /\ task'[k].kind = state
        /\ task'[k].ticket = task[k].ticket /\ task'[k].queue = task[k].queue
        /\ task'[k].snap = task[k].snap
    BY <1>1, <2>2 DEF TaskRecord
  <2>4. FirstStep(state) \in {"get", "write"} /\ state \notin {"to_dev", "sweep"}
    BY <2>1 DEF FirstStep, Inbound
  <2>q. QED
    BY <1>1, <1>2, <1>5, <2>1, <2>3, <2>4 DEF Sync, KnowsOf, Live
<1>8. Acts(state, task[k].snap[task[k].ticket].status) \/ task'[k] = Finished(k)
  BY <1>1, <1>5 DEF SweepRead, Outage, Finish
<1>q. QED
  BY <1>6, <1>7, <1>8

-----------------------------------------------------------------------------
\* When everybody is idle, only webhooks are left to deliver.
LEMMA SyncWhenIdle ==
  ASSUME SyncInv, AllIdle, faults = 0
  PROVE  /\ \A t \in Tickets : Fine(t) /\ OwnIssue(t)
         /\ \A h \in hooks : HookOK(h)
         /\ \A t \in Tickets : status[t] = "none" => mirror[t] = 0
<1>1. PICK k \in Slots : Sync(k)
  BY DEF SyncInv
<1>2. PICK j \in Slots : Once(j)
  BY DEF SyncInv, OnceInv
<1>3. ~Pushing(k) /\ ~TakingOver(k)
  BY <1>1 DEF AllIdle, Pushing, TakingOver
<1>q. QED
  BY <1>1, <1>2, <1>3, OtherFine DEF Sync, Once, Unlogged

LEMMA SyncClick ==
  ASSUME SyncInv, NEW k \in Tasks, NEW t \in Tickets, Click(k, t), NoOverlap, OnceInv'
  PROVE  SyncInv'
<1>1. /\ TypeOK /\ status \in [Tickets -> Statuses \cup {"none"}] /\ lane \in [Tickets -> Lanes]
      /\ AllIdle /\ hooks = {}
      /\ task'[k].kind \in LaneKinds => Live(task'[k].ticket)
  BY DEF SyncInv, OnceInv, TypeOK, NoOverlap, Settled
<1>2. PICK kind, pc :
        /\ Begin(k, kind, t, pc) /\ UNCHANGED hooks
        /\ \A u \in Tickets : u # t => status'[u] = status[u]
        /\ \/ pc = "create" /\ kind = "submit" /\ status[t] = "none" /\ status'[t] = "new"
           \/ pc = "write" /\ kind \in DOMAIN Target \ Inbound /\ UNCHANGED status
           \/ /\ pc = LaneStep(t, IF kind = "to_dev" THEN "dev" ELSE "se")
              /\ kind \in LaneKinds /\ UNCHANGED status
  <2>1. CASE Submit(k, t)
    BY <1>1, <2>1 DEF Submit
  <2>2. CASE Resolve(k, t) \/ Drop(k, t) \/ Reopen(k, t) \/ SeReply(k, t)
    <3>1. {"resolve", "drop", "reopen", "se_reply"} \subseteq DOMAIN Target \ Inbound
      BY DEF Target, Inbound
    <3>q. QED
      BY <2>2, <3>1 DEF Resolve, Drop, Reopen, SeReply
  <2>3. CASE MoveToDev(k, t) \/ ReturnToSe(k, t)
    BY <2>3 DEF MoveToDev, ReturnToSe, LaneKinds
  <2>q. QED
    BY <2>1, <2>2, <2>3 DEF Click
<1>3. /\ UNCHANGED <<mirror, issues, faults>>
      /\ task'[k].pc = pc /\ task'[k].ticket = t /\ task'[k].queue = {}
      /\ task'[k].kind = kind /\ task'[k].state = "triage"
      /\ \A j \in Slots \ {k} : task'[j] = task[j]
      /\ UNCHANGED lane
  BY <1>1, <1>2, BeginFields
<1>4. Alone(k)'
  BY <1>1, <1>3 DEF AllIdle, Alone
<1>5. ASSUME faults' = 0 PROVE Sync(k)'
  <2>1. /\ \A u \in Tickets : Fine(u) /\ OwnIssue(u)
        /\ status[t] = "none" => mirror[t] = 0
    BY <1>1, <1>3, <1>5, SyncWhenIdle
  <2>2. \A u \in Tickets : OwnIssue(u)' /\ (u # t => Fine(u)')
    BY <1>1, <1>2, <1>3, <2>1, FineKept DEF OwnIssue
  <2>3. CASE pc = "create" /\ kind = "submit" /\ status[t] = "none" /\ status'[t] = "new"
    <3>1. Suits(task[k].ticket, task[k].state)'
      BY <1>3, <2>3 DEF Suits, Agree, Live
    <3>2. KnowsOf(task[k])'
      BY <1>3, <2>3, <3>1 DEF KnowsOf
    <3>3. Fine(t)'
      BY <1>3, <2>1, <2>3 DEF Fine
    <3>q. QED
      BY <1>1, <1>2, <2>2, <3>2, <3>3 DEF Sync, InStep
  <2>4. CASE pc = "write" /\ kind \in DOMAIN Target \ Inbound /\ UNCHANGED status
    <3>1. kind \notin {"to_dev", "sweep"}
      BY <2>4 DEF Target
    <3>2. KnowsOf(task[k])'
      BY <1>3, <2>4, <3>1 DEF KnowsOf
    <3>3. Fine(t)'
      BY <1>2, <1>3, <2>1, <2>4, FineKept
    <3>q. QED
      BY <1>1, <1>2, <2>2, <3>2, <3>3 DEF Sync, InStep
  <2>5. CASE /\ pc = LaneStep(t, IF kind = "to_dev" THEN "dev" ELSE "se")
             /\ kind \in LaneKinds /\ UNCHANGED status
    <3>1. /\ pc \in {"write", "ensure"}
          /\ pc = "ensure" /\ kind = "to_dev" => lane[t] = "dev"
      BY <2>5 DEF LaneStep
    <3>2. Live(t) /\ kind \in {"to_dev", "to_se"}
      BY <1>1, <1>3, <2>5 DEF LaneKinds
    <3>3. KnowsOf(task[k])'
      BY <1>3, <2>5, <3>1, <3>2 DEF KnowsOf, Live, Inbound
    <3>4. Fine(t)'
      BY <1>2, <1>3, <2>1, <2>5, FineKept
    <3>q. QED
      BY <1>1, <1>2, <2>2, <3>3, <3>4 DEF Sync, InStep
  <2>q. QED
    BY <1>2, <2>3, <2>4, <2>5
<1>q. QED
  BY <1>4, <1>5 DEF SyncInv

LEMMA SyncReceive ==
  ASSUME SyncInv, NEW k \in Tasks, NEW h \in hooks, Receive(k, h), AllIdle, OnceInv'
  PROVE  SyncInv'
<1>1. TypeOK /\ h \in Webhook /\ hooks \subseteq Webhook /\ k # Sweeper
  BY ConstantsAssumption DEF SyncInv, OnceInv, TypeOK
<1>2. PICK t \in Tickets : /\ mirror[t] = h.issue
                           /\ Acts(h.state, status[t])
                           /\ Begin(k, h.state, t, FirstStep(h.state))
                           /\ hooks' \in {hooks, hooks \ {h}} /\ UNCHANGED status
  BY DEF Receive
<1>3. /\ UNCHANGED <<mirror, issues, faults, lane>>
      /\ task'[k].pc = FirstStep(h.state) /\ task'[k].ticket = t /\ task'[k].queue = {}
      /\ task'[k].kind = h.state
      /\ \A j \in Slots \ {k} : task'[j] = task[j]
  BY <1>1, <1>2, BeginFields
<1>4. Alone(k)'
  BY <1>3 DEF AllIdle, Alone
<1>5. h.state \in Inbound /\ FirstStep(h.state) \in {"get", "write"}
  BY <1>2 DEF Acts, Inbound, FirstStep
<1>6. ASSUME faults' = 0 PROVE Sync(k)'
  <2>1. /\ \A u \in Tickets : Fine(u) /\ OwnIssue(u)
        /\ \A g \in hooks : HookOK(g)
    BY <1>3, <1>6, SyncWhenIdle
  <2>2. TakingOver(k)'
    BY <1>3, <1>5 DEF TakingOver
  <2>3. mirror[t] # 0 /\ issues[mirror[t]].state = h.state
    BY <1>1, <1>2, <2>1 DEF HookOK, SyncInv, OnceInv
  <2>4. KnowsOf(task[k])'
    BY <1>2, <1>3, <1>5, <2>3 DEF KnowsOf, Inbound
  <2>5. ASSUME NEW u \in Tickets, u # t PROVE Fine(u)'
    <3>1. mirror[u] # 0 => mirror[u] # h.issue
      BY <1>2, <2>1, <2>3, <2>5 DEF OwnIssue
    <3>2. ASSUME NEW s PROVE [issue |-> mirror[u], state |-> s] \in hooks /\ mirror[u] # 0
                               => [issue |-> mirror[u], state |-> s] \in hooks'
      BY <1>2, <3>1
    <3>q. QED
      BY <1>2, <1>3, <2>1, <3>2 DEF Fine, Pending, Agree, Live
  <2>6. \A u \in Tickets : OwnIssue(u)' /\ InStep(k, u)'
    BY <1>3, <2>1, <2>2, <2>5 DEF OwnIssue, InStep
  <2>7. \A g \in hooks' : HookOK(g)'
    BY <1>2, <1>3, <2>1 DEF HookOK
  <2>q. QED
    BY <1>1, <2>2, <2>4, <2>6, <2>7 DEF Sync
<1>q. QED
  BY <1>4, <1>6 DEF SyncInv

LEMMA SyncSweepStart ==
  ASSUME SyncInv, SweepStart, Settled, OnceInv'
  PROVE  SyncInv'
<1>1. /\ task \in [Slots -> TaskRecord] /\ AllIdle /\ hooks = {}
      /\ UNCHANGED <<status, lane, mirror, issues, hooks, faults>>
  BY DEF SyncInv, OnceInv, TypeOK, TaskTypeOK, SweepStart, ticketVars, Settled
<1>2. PICK seen : seen = [t \in Tickets |-> [status |-> status[t], lane |-> lane[t],
                                             mirror |-> mirror[t]]]
  OBVIOUS
<1>3. PICK queue : queue = {t \in Tickets : Live(t)}
  OBVIOUS
<1>4. PICK r : r = [NoTask EXCEPT !.pc = "sweep", !.queue = queue, !.snap = seen]
  OBVIOUS
<1>5. r.pc = "sweep" /\ r.queue = queue /\ r.snap = seen
  BY <1>4 DEF NoTask
<1>6. task' = [task EXCEPT ![Sweeper] = r]
  BY <1>2, <1>3, <1>4 DEF SweepStart
<1>7. task'[Sweeper] = r /\ \A j \in Slots \ {Sweeper} : task'[j] = task[j]
  BY <1>1, <1>6
<1>8. Alone(Sweeper)'
  BY <1>1, <1>7 DEF AllIdle, Alone
<1>9. ASSUME faults' = 0 PROVE Sync(Sweeper)'
  <2>1. \A u \in Tickets : Fine(u) /\ OwnIssue(u)
    BY <1>1, <1>9, SyncWhenIdle
  <2>2. \A u \in Tickets : Fine(u)' /\ OwnIssue(u)'
    BY <1>1, <2>1, FineKept DEF OwnIssue
  <2>3. \A u \in queue : Live(u) /\ seen[u].status = status[u] /\ seen[u].lane = lane[u]
    BY <1>2, <1>3
  <2>4. KnowsOf(task[Sweeper])'
    BY <1>1, <1>5, <1>7, <2>3 DEF KnowsOf, Live
  <2>q. QED
    BY <1>1, <2>2, <2>4 DEF Sync, InStep
<1>q. QED
  BY <1>8, <1>9 DEF SyncInv

\* A person moves an issue: its webhook is on the way.
LEMMA SyncMoveIssue ==
  ASSUME SyncInv, NEW i \in DOMAIN issues, NEW s \in States, MoveIssue(i, s), Settled, OnceInv'
  PROVE  SyncInv'
<1>1. /\ TypeOK /\ issues \in Seq(Issue) /\ hooks = {} /\ AllIdle
      /\ UNCHANGED <<status, lane, mirror, task, faults>>
      /\ hooks' = {[issue |-> i, state |-> s]}
      /\ mirror \in [Tickets -> 0 .. Len(issues)] /\ DOMAIN issues = 1 .. Len(issues)
  BY DEF SyncInv, OnceInv, TypeOK, MoveIssue, Settled, ticketVars
<1>2. PICK old \in Issue : old = issues[i]
  BY <1>1
<1>3. PICK new : new = [old EXCEPT !.state = s, !.moved = @ \/ s # old.state]
  OBVIOUS
<1>4. new.ticket = old.ticket /\ new.state = s /\ (new.moved <=> (old.moved \/ s # old.state))
      /\ old.state \in States
  BY <1>2, <1>3 DEF Issue
<1>5. issues' = [issues EXCEPT ![i] = new]
  BY <1>1, <1>2, <1>3 DEF MoveIssue
<1>6. issues'[i] = new /\ \A j \in DOMAIN issues : j # i => issues'[j] = issues[j]
  BY <1>1, <1>5
<1>7. PICK k \in Slots : Alone(k)
  BY DEF SyncInv
<1>8. ASSUME faults' = 0 PROVE Sync(k)'
  <2>1. \A u \in Tickets : Fine(u) /\ OwnIssue(u)
    BY <1>1, <1>8, SyncWhenIdle
  <2>2. ASSUME NEW u \in Tickets PROVE OwnIssue(u)' /\ Fine(u)'
    <3>1. mirror[u] # 0 => Agree(u, issues[mirror[u]])
      BY <1>1, <2>1 DEF Fine, Pending
    <3>2. CASE mirror[u] # i
      <4>1. mirror[u] # 0 => issues'[mirror[u]] = issues[mirror[u]]
        BY <1>1, <1>6, <3>2
      <4>q. QED
        BY <1>1, <2>1, <3>1, <4>1 DEF OwnIssue, Fine, Agree, Live
    <3>3. CASE mirror[u] = i /\ s # "triage"
      <4>1. Pending(u)'
        BY <1>1, <1>4, <1>6, <3>3 DEF Pending
      <4>q. QED
        BY <1>1, <1>2, <1>4, <1>6, <2>1, <3>3, <4>1 DEF OwnIssue, Fine
    <3>4. CASE mirror[u] = i /\ s = "triage"
      <4>1. status[u] = "new" \/ new.moved
        BY <1>1, <1>2, <1>4, <3>1, <3>4, AgreeCases
      <4>2. Agree(u, new)
        BY <1>4, <3>4, <4>1, AgreeCases
      <4>q. QED
        BY <1>1, <1>2, <1>4, <1>6, <2>1, <3>4, <4>2 DEF OwnIssue, Fine, Agree, Live
    <3>q. QED
      BY <3>2, <3>3, <3>4
  <2>3. \A h \in hooks' : HookOK(h)'
    <3>1. ASSUME NEW h \in hooks' PROVE h.issue = i /\ h.state = s
      BY <1>1, <3>1
    <3>2. i \in DOMAIN issues'
      BY <1>5
    <3>q. QED
      BY <1>4, <1>6, <3>1, <3>2 DEF HookOK
  <2>4. task'[k].pc = "idle"
    BY <1>1 DEF AllIdle
  <2>q. QED
    BY <2>2, <2>3, <2>4 DEF Sync, InStep, KnowsOf
<1>9. Alone(k)'
  BY <1>1, <1>7 DEF Alone
<1>q. QED
  BY <1>8, <1>9 DEF SyncInv

\* A webhook with nothing to do, a lost one, and a stutter.
LEMMA SyncElsewhere ==
  ASSUME SyncInv, (\E h \in hooks : Ignore(h) \/ Lose(h)) \/ UNCHANGED vars, OnceInv'
  PROVE  SyncInv'
<1>1. /\ TypeOK /\ UNCHANGED <<status, lane, mirror, issues, task>> /\ hooks' \subseteq hooks
      /\ faults \in Nat /\ hooks \subseteq Webhook
      /\ status \in [Tickets -> Statuses \cup {"none"}]
  BY DEF SyncInv, OnceInv, TypeOK, Ignore, Lose, vars, ticketVars
<1>2. PICK k \in Slots : Alone(k) /\ (faults = 0 => Sync(k))
  BY DEF SyncInv
<1>3. ASSUME faults' = 0 PROVE Sync(k)'
  <2>1. Sync(k) /\ ~(\E h \in hooks : Lose(h))
    BY <1>1, <1>2, <1>3 DEF Ignore, Lose, Outage, vars
  <2>2. KnowsOf(task[k])'
    BY <1>1, <2>1 DEF Sync, KnowsOf, Suits, Agree, Live
  <2>3. /\ \A h \in hooks' : HookOK(h)'
        /\ \A t \in Tickets : OwnIssue(t)'
        /\ Pushing(k) => Pushing(k)'
        /\ TakingOver(k) => TakingOver(k)'
    BY <1>1, <2>1 DEF Sync, HookOK, OwnIssue, Pushing, TakingOver
  <2>4. ASSUME NEW t \in Tickets, Fine(t) PROVE Fine(t)'
    <3>1. CASE mirror[t] # 0 => Agree(t, issues[mirror[t]])
      BY <1>1, <3>1 DEF Fine, Agree, Live
    <3>2. CASE mirror[t] # 0 /\ Pending(t) /\ hooks' = hooks
      BY <1>1, <3>2 DEF Fine, Pending
    <3>3. ASSUME NEW h \in hooks, Ignore(h), mirror[t] # 0, Pending(t) PROVE Fine(t)'
      <4>1. CASE h.issue = mirror[t]
        <5>1. PICK i : i = issues[mirror[t]]
          OBVIOUS
        <5>2. h.state = i.state /\ i.state \in States /\ i.state # "triage"
          BY <1>1, <2>1, <3>3, <4>1, <5>1 DEF Sync, HookOK, Pending, Webhook
        <5>3. ~Acts(i.state, status[t])
          BY <3>3, <4>1, <5>2 DEF Ignore
        <5>4. Agree(t, i)
          BY <1>1, <5>2, <5>3, AgreeCases DEF Acts, States, Retired, Live, Statuses
        <5>q. QED
          BY <1>1, <5>1, <5>4 DEF Fine, Agree, Live
      <4>2. CASE h.issue # mirror[t]
        <5>1. hooks' = hooks \ {h}
          BY <3>3 DEF Ignore
        <5>2. [issue |-> mirror[t], state |-> issues[mirror[t]].state] # h
          BY <4>2
        <5>q. QED
          BY <1>1, <3>3, <5>1, <5>2 DEF Fine, Pending
      <4>q. QED
        BY <4>1, <4>2
    <3>q. QED
      BY <2>1, <2>4, <3>1, <3>2, <3>3 DEF Fine, vars
  <2>5. \A t \in Tickets : InStep(k, t)'
    BY <1>1, <2>1, <2>3, <2>4 DEF Sync, InStep
  <2>q. QED
    BY <1>1, <2>1, <2>2, <2>3, <2>5 DEF Sync
<1>4. Alone(k)'
  BY <1>1, <1>2 DEF Alone
<1>q. QED
  BY <1>3, <1>4 DEF SyncInv

LEMMA SyncMove ==
  ASSUME SyncInv, NEW k \in Slots, Step(k) \/ Fail(k), OnceInv'
  PROVE  SyncInv'
<1>1. /\ TypeOK /\ task \in [Slots -> TaskRecord] /\ faults \in Nat
      /\ task[k].pc # "idle"
  BY DEF SyncInv, OnceInv, TypeOK, TaskTypeOK, Step, Fail, Get, Write, Ensure, Create, Persist, Reread,
     Push, SweepNext, SweepRead
<1>2. Alone(k) /\ (faults = 0 => Sync(k) /\ Once(k))
  BY <1>1 DEF SyncInv, OnceInv, Alone
<1>3. \A j \in Slots \ {k} : task'[j] = task[j]
  BY <1>1 DEF Step, Fail, Get, Write, Ensure, Create, Persist, Reread, Push, SweepNext, SweepRead,
     Finish, Goto
<1>4. Alone(k)'
  BY <1>2, <1>3 DEF Alone
<1>5. ASSUME faults' = 0 PROVE Sync(k)'
  <2>1. (UNCHANGED faults /\ ~Fail(k)) \/ faults' = faults + 1
    BY DEF Step, Fail, Get, Write, Ensure, Create, Persist, Reread, Push, SweepNext, SweepRead, Outage
  <2>2. faults = 0 /\ ~Fail(k)
    BY <1>1, <1>5, <2>1
  <2>q. QED
    BY <1>1, <1>2, <1>5, <2>2, SyncGet, SyncWrite, SyncEnsure, SyncCreate, SyncPersist, SyncReread,
       SyncPush, SyncSweepNext, SyncSweepRead DEF Step
<1>q. QED
  BY <1>4, <1>5 DEF SyncInv

LEMMA SyncStep == SyncInv /\ [Next /\ NoOverlap]_vars => SyncInv'
<1> SUFFICES ASSUME SyncInv, [Next /\ NoOverlap]_vars PROVE SyncInv'
  OBVIOUS
<1>1. OnceInv'
  BY OnceStep DEF SyncInv
<1>2. ASSUME NEW k \in Tasks, NEW t \in Tickets, Click(k, t), NoOverlap PROVE SyncInv'
  BY <1>1, <1>2, SyncClick
<1>3. ASSUME NEW k \in Tasks, NEW h \in hooks, Receive(k, h), NoOverlap PROVE SyncInv'
  BY <1>1, <1>3, SyncReceive DEF NoOverlap
<1>4. CASE SweepStart /\ NoOverlap
  BY <1>1, <1>4, SyncSweepStart DEF NoOverlap
<1>5. ASSUME NEW k \in Slots, Step(k) \/ Fail(k) PROVE SyncInv'
  BY <1>1, <1>5, SyncMove
<1>6. CASE People /\ NoOverlap
  BY <1>1, <1>6, SyncMoveIssue DEF People, NoOverlap
<1>7. CASE (\E h \in hooks : Ignore(h) \/ Lose(h)) \/ UNCHANGED vars
  BY <1>1, <1>7, SyncElsewhere
<1>q. QED
  BY <1>2, <1>3, <1>4, <1>5, <1>6, <1>7 DEF Next

LEMMA SyncInit == Init => SyncInv
<1> SUFFICES ASSUME Init PROVE SyncInv
  OBVIOUS
<1>1. \A k \in Slots : task[k].pc = "idle"
  BY DEF Init, NoTask
<1>2. hooks = {} /\ \A t \in Tickets : mirror[t] = 0
  BY DEF Init
<1>3. Alone(Sweeper) /\ Sync(Sweeper)
  BY <1>1, <1>2 DEF Alone, Sync, KnowsOf, OwnIssue, InStep, Fine
<1>q. QED
  BY <1>3, OnceInit DEF SyncInv

\* While nothing was lost, a ticket and its issue agree whenever handlers and
\* webhooks have settled: clicks, webhooks, moves on the board and sweeps.
THEOREM AlwaysInSync == SerialSpec => []InSync
<1>1. ASSUME SyncInv PROVE InSync
  <2> SUFFICES ASSUME Settled, faults = 0, NEW t \in Tickets, mirror[t] # 0
               PROVE  Agree(t, issues[mirror[t]])
    BY DEF InSync
  <2>1. Fine(t)
    BY <1>1, SyncWhenIdle DEF Settled
  <2>q. QED
    BY <2>1 DEF Fine, Pending, Settled
<1>q. QED
  BY <1>1, SyncInit, SyncStep, PTL DEF SerialSpec
=============================================================================

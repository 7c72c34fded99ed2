---------------------------- MODULE LinearMirror ----------------------------
(***************************************************************************)
(* A ticket and its mirror in Linear.                                      *)
(*                                                                         *)
(* A handler first finishes its own writes, then pushes to Linear: it      *)
(* looks whether the ticket has an issue, creates one if not, and sets its *)
(* state.  People move the issues too; Linear reports that by webhook, in  *)
(* any order, twice or never, and a sweep every ten minutes replays the    *)
(* state of the issues of all live tickets.  Any call may fail.            *)
(*                                                                         *)
(* The status and the event log of a ticket are one write here             *)
(* (TicketLifecycle takes it apart), the reopen window is taken to be      *)
(* open, and an urgent ticket's own column counts as triage.               *)
(***************************************************************************)
EXTENDS Naturals, Sequences, FiniteSets

CONSTANTS
  Tickets,
  Tasks,      \* slots of the handlers that Slack and the webhook start
  Sweeper,    \* the slot of ReconcileLinear's loop
  MaxRuns,    \* bound: how many handlers a behaviour starts
  MaxMoves,   \* bound: how often people move an issue
  MaxFaults,  \* bound: how many handlers, calls to Linear and webhooks get lost
  None

ASSUME ConstantsAssumption ==
  /\ MaxRuns \in Nat
  /\ MaxMoves \in Nat
  /\ MaxFaults \in Nat
  /\ Sweeper \notin Tasks
  /\ None \notin Tickets

VARIABLES
  status,  \* tickets.status; "none" before the ticket is logged
  lane,    \* tickets.lane
  mirror,  \* tickets.linear_issue_id; 0 is NULL
  issues,  \* Linear's issues, oldest first
  hooks,   \* the webhooks Linear has yet to deliver
  task,    \* the handlers in flight
  runs,    \* bound: handlers started so far
  moves,   \* bound: moves by people so far
  faults   \* bound: losses so far

vars == <<status, lane, mirror, issues, hooks, task, runs, moves, faults>>
ticketVars == <<status, lane, mirror>>

Slots == Tasks \cup {Sweeper}

Statuses == {"new", "in_progress", "resolved", "closed"}
Retired == {"resolved", "closed"}
Lanes == {"se", "dev"}
States == {"triage", "in_progress", "done", "canceled"}

\* What moves the status, and to what; the kind of an inbound handler is the
\* state it reacts to.
Target == [resolve |-> "resolved", drop |-> "closed", reopen |-> "in_progress",
           se_reply |-> "in_progress",
           done |-> "resolved", canceled |-> "closed", in_progress |-> "in_progress"]
Inbound == {"done", "canceled", "in_progress"}
LaneKinds == {"to_dev", "to_se"}

\* Handlers that push whatever the ticket's state is by then; handlers that push
\* a fixed state; and what a handler calls next, each call with its own look for
\* the issue: the project and the assignee after a lane button.
SyncKinds == {"reopen", "se_reply", "to_se"}
Fixed == [resolve |-> "done", drop |-> "canceled",
          to_dev |-> "in_progress", open_dev |-> "in_progress"]
NextCall == [to_dev |-> "assign", to_se |-> "se_project", se_project |-> "assign"]

Kinds == DOMAIN Target \cup LaneKinds
           \cup {"submit", "sweep", "reconcile", "open_dev", "se_project", "assign"}

PCs == {"idle", "get", "write", "ensure", "create", "persist", "reread", "push",
        "sweep", "read"}

Snapshot == [status: Statuses \cup {"none"}, lane: Lanes, mirror: Nat]

NoTask == [pc |-> "idle", kind |-> None, ticket |-> None, issue |-> 0,
           state |-> "triage", queue |-> {}, snap |-> None]

TaskRecord == [pc: PCs, kind: Kinds \cup {None}, ticket: Tickets \cup {None},
               issue: Nat, state: States, queue: SUBSET Tickets,
               snap: [Tickets -> Snapshot] \cup {None}]

Issue == [ticket: Tickets, state: States, moved: BOOLEAN]
Webhook == [issue: Nat, state: States]

\* A handler in flight has a ticket, and where its step needs one, one of the n
\* issues; the sweeper has its snapshot.
SlotOK(k, r, n) ==
  /\ r \in TaskRecord
  /\ r.pc \notin {"idle", "sweep"} => r.ticket \in Tickets /\ r.kind \in Kinds
  /\ r.pc \in {"sweep", "read"} => k = Sweeper
  /\ r.pc = "get" => r.kind \in Inbound
  /\ r.pc = "write" => r.kind \in DOMAIN Target \cup LaneKinds
  /\ r.pc \in {"persist", "reread", "push", "read"} => r.issue \in 1 .. n
  /\ k = Sweeper /\ r.pc # "idle" =>
       r.snap \in [Tickets -> Snapshot] /\ \A t \in Tickets : r.snap[t].mirror <= n

TaskTypeOK ==
  /\ task \in [Slots -> TaskRecord]
  /\ \A k \in Slots : SlotOK(k, task[k], Len(issues))

TypeOK ==
  /\ status \in [Tickets -> Statuses \cup {"none"}]
  /\ lane \in [Tickets -> Lanes]
  /\ mirror \in [Tickets -> 0 .. Len(issues)]
  /\ issues \in Seq(Issue)
  /\ hooks \in SUBSET Webhook
  /\ TaskTypeOK
  /\ runs \in Nat /\ moves \in Nat /\ faults \in Nat

Init ==
  /\ status = [t \in Tickets |-> "none"]
  /\ lane = [t \in Tickets |-> "se"]
  /\ mirror = [t \in Tickets |-> 0]
  /\ issues = <<>>
  /\ hooks = {}
  /\ task = [k \in Slots |-> NoTask]
  /\ runs = 0
  /\ moves = 0
  /\ faults = 0

-----------------------------------------------------------------------------
(* Helpers.                                                                *)

Live(t) == status[t] \in {"new", "in_progress"}
AllIdle == \A k \in Slots : task[k].pc = "idle"

\* ticket_to_linear_state.
Expected(s, l) ==
  IF s \in Retired THEN "done"
  ELSE IF s = "in_progress" \/ l = "dev" THEN "in_progress"
  ELSE "triage"

\* Mutant of Acts: a started issue moves only a new ticket.
ActsNewOnly(state, seen) ==
  \/ state = "done" /\ seen \notin Retired
  \/ state = "canceled" /\ seen # "closed"
  \/ state = "in_progress" /\ seen = "new"

\* Mutant of Acts: Done resolves only a ticket in progress.
ActsLate(state, seen) ==
  \/ state = "done" /\ seen = "in_progress"
  \/ state = "canceled" /\ seen # "closed"
  \/ state = "in_progress" /\ seen # "in_progress"

\* The guards of _apply_state_change on the ticket as the caller read it.
Acts(state, seen) ==
  \/ state = "done" /\ seen \notin Retired
  \/ state = "canceled" /\ seen # "closed"
  \/ state = "in_progress" /\ seen # "in_progress"

\* Done and Canceled are routed to a handler that reads the ticket again.
FirstStep(state) == IF state = "in_progress" THEN "write" ELSE "get"

Goto(k, pc) == task' = [task EXCEPT ![k].pc = pc]

\* What follows a call that has succeeded or failed: the handler's next call;
\* for a sweep that mirrored a ticket of the dev lane, the call that opens the
\* issue; else the sweep's next ticket, or the end of the handler.
Finished(k) ==
  LET kind == task[k].kind IN
  IF kind \in DOMAIN NextCall
    THEN [task[k] EXCEPT !.pc = "ensure", !.kind = NextCall[kind]]
  ELSE IF kind = "sweep" /\ task[k].snap[task[k].ticket].lane = "dev"
    THEN [task[k] EXCEPT !.pc = "ensure", !.kind = "open_dev"]
  ELSE IF k = Sweeper
    THEN [NoTask EXCEPT !.pc = "sweep", !.queue = task[k].queue, !.snap = task[k].snap]
  ELSE NoTask
Finish(k) == task' = [task EXCEPT ![k] = Finished(k)]

\* A Slack click or a webhook starts a handler.
Begin(k, kind, t, pc) ==
  /\ k \in Tasks
  /\ task[k].pc = "idle"
  /\ runs < MaxRuns
  /\ runs' = runs + 1
  /\ task' = [task EXCEPT ![k] = [NoTask EXCEPT !.pc = pc, !.kind = kind, !.ticket = t]]
  /\ UNCHANGED <<lane, mirror, issues, moves, faults>>

\* A call to Linear is lost: an outage, a timeout.
Outage ==
  /\ faults < MaxFaults
  /\ faults' = faults + 1

-----------------------------------------------------------------------------
(* Slack: how a handler starts.                                            *)

\* submit_ticket_form creates the row, and mirrors what it created at the end.
Submit(k, t) ==
  /\ status[t] = "none"
  /\ Begin(k, "submit", t, "create")
  /\ status' = [status EXCEPT ![t] = "new"]
  /\ UNCHANGED hooks

Resolve(k, t) ==
  /\ status[t] \notin {"none", "resolved"}
  /\ Begin(k, "resolve", t, "write")
  /\ UNCHANGED <<status, hooks>>

Drop(k, t) ==
  /\ status[t] \notin {"none", "closed"}
  /\ Begin(k, "drop", t, "write")
  /\ UNCHANGED <<status, hooks>>

Reopen(k, t) ==
  /\ status[t] \in Retired
  /\ Begin(k, "reopen", t, "write")
  /\ UNCHANGED <<status, hooks>>

SeReply(k, t) ==
  /\ status[t] = "new"
  /\ Begin(k, "se_reply", t, "write")
  /\ UNCHANGED <<status, hooks>>

\* The lane buttons look at no status, and write the lane only if it differs.
LaneStep(t, l) == IF lane[t] = l THEN "ensure" ELSE "write"

MoveToDev(k, t) ==
  /\ status[t] # "none"
  /\ Begin(k, "to_dev", t, LaneStep(t, "dev"))
  /\ UNCHANGED <<status, hooks>>

ReturnToSe(k, t) ==
  /\ status[t] # "none"
  /\ Begin(k, "to_se", t, LaneStep(t, "se"))
  /\ UNCHANGED <<status, hooks>>

-----------------------------------------------------------------------------
(* Linear: people and webhooks.                                            *)

\* A developer or an SE moves an issue on the board, or edits it where it is: the
\* webhook carries its state either way.
MoveIssue(i, state) ==
  /\ moves < MaxMoves
  /\ moves' = moves + 1
  /\ issues' = [issues EXCEPT ![i].state = state,
                              ![i].moved = @ \/ state # issues[i].state]
  /\ hooks' = hooks \cup {[issue |-> i, state |-> state]}
  /\ UNCHANGED <<ticketVars, task, runs, faults>>

\* A webhook finds its ticket; it may come again.
Receive(k, h) ==
  \E t \in Tickets :
    /\ mirror[t] = h.issue
    /\ Acts(h.state, status[t])
    /\ Begin(k, h.state, t, FirstStep(h.state))
    /\ hooks' \in {hooks, hooks \ {h}}
    /\ UNCHANGED status

\* A webhook of an unmapped issue, or one with nothing to do.
Ignore(h) ==
  /\ \A t \in Tickets : mirror[t] = h.issue => ~Acts(h.state, status[t])
  /\ hooks' = hooks \ {h}
  /\ UNCHANGED <<ticketVars, issues, task, runs, moves, faults>>

Lose(h) ==
  /\ Outage
  /\ hooks' = hooks \ {h}
  /\ UNCHANGED <<ticketVars, issues, task, runs, moves>>

-----------------------------------------------------------------------------
(* How a handler goes on.                                                  *)

\* The routed ResolveTicket or DropTicket reads the ticket.
Get(k) ==
  /\ task[k].pc = "get"
  /\ IF status[task[k].ticket] = Target[task[k].kind] THEN Finish(k) ELSE Goto(k, "write")
  /\ UNCHANGED <<ticketVars, issues, hooks, runs, moves, faults>>

\* The handler's own write; an inbound one pushes nothing back.
Write(k) ==
  LET t == task[k].ticket  kind == task[k].kind IN
  /\ task[k].pc = "write"
  /\ IF kind \in LaneKinds
       THEN /\ lane' = [lane EXCEPT ![t] = IF kind = "to_dev" THEN "dev" ELSE "se"]
            /\ UNCHANGED status
       ELSE /\ status' = [status EXCEPT ![t] = Target[kind]]
            /\ UNCHANGED lane
  /\ IF kind \in Inbound THEN Finish(k) ELSE Goto(k, "ensure")
  /\ UNCHANGED <<mirror, issues, hooks, runs, moves, faults>>

\* The call has its issue: does it push a state?
HasIssue(k, i) ==
  LET kind == task[k].kind IN
  IF kind \in SyncKinds THEN [task[k] EXCEPT !.pc = "reread", !.issue = i]
  ELSE IF kind \in DOMAIN Fixed
    THEN [task[k] EXCEPT !.pc = "push", !.issue = i, !.state = Fixed[kind]]
  ELSE Finished(k)

\* Mutant of Ensure: the issue the ticket has is not looked up.
EnsureAnew(k) ==
  LET t == task[k].ticket IN
  /\ task[k].pc = "ensure"
  /\ task' = [task EXCEPT ![k].pc = "create", ![k].state = Expected(status[t], lane[t])]
  /\ UNCHANGED <<ticketVars, issues, hooks, runs, moves, faults>>

\* _ensure_issue reads the ticket.
Ensure(k) ==
  LET t == task[k].ticket IN
  /\ task[k].pc = "ensure"
  /\ task' = [task EXCEPT
       ![k] = IF mirror[t] # 0 THEN HasIssue(k, mirror[t])
              ELSE [task[k] EXCEPT !.pc = "create", !.state = Expected(status[t], lane[t])]]
  /\ UNCHANGED <<ticketVars, issues, hooks, runs, moves, faults>>

\* create_issue; when it fails, Linear may have created the issue or not.
Create(k) ==
  LET created == Append(issues, [ticket |-> task[k].ticket, state |-> task[k].state,
                                 moved |-> FALSE]) IN
  /\ task[k].pc = "create"
  /\ \/ /\ issues' = created
        /\ task' = [task EXCEPT ![k].pc = "persist", ![k].issue = Len(issues) + 1]
        /\ UNCHANGED faults
     \/ /\ Outage
        /\ Finish(k)
        /\ issues' \in {issues, created}
  /\ UNCHANGED <<ticketVars, hooks, runs, moves>>

\* set_linear_issue.
Persist(k) ==
  LET i == task[k].issue IN
  /\ task[k].pc = "persist"
  /\ mirror' = [mirror EXCEPT ![task[k].ticket] = i]
  /\ task' = [task EXCEPT ![k] = HasIssue(k, i)]
  /\ UNCHANGED <<status, lane, issues, hooks, runs, moves, faults>>

\* sync_state reads the ticket again.
Reread(k) ==
  LET t == task[k].ticket IN
  /\ task[k].pc = "reread"
  /\ task' = [task EXCEPT ![k].pc = "push", ![k].state = Expected(status[t], lane[t])]
  /\ UNCHANGED <<ticketVars, issues, hooks, runs, moves, faults>>

\* update_issue_state.
Push(k) ==
  /\ task[k].pc = "push"
  /\ \/ /\ issues' = [issues EXCEPT ![task[k].issue].state = task[k].state]
        /\ UNCHANGED faults
     \/ /\ Outage
        /\ UNCHANGED issues
  /\ Finish(k)
  /\ UNCHANGED <<ticketVars, hooks, runs, moves>>

-----------------------------------------------------------------------------
(* The sweep.                                                              *)

\* query_live: every live ticket, as it is now.
SweepStart ==
  /\ task[Sweeper].pc = "idle"
  /\ task' = [task EXCEPT ![Sweeper] =
       [NoTask EXCEPT !.pc = "sweep",
          !.queue = {t \in Tickets : Live(t)},
          !.snap = [t \in Tickets |-> [status |-> status[t], lane |-> lane[t],
                                       mirror |-> mirror[t]]]]]
  /\ UNCHANGED <<ticketVars, issues, hooks, runs, moves, faults>>

\* Mutant of SweepNext: a ticket without an issue is passed over.
SweepNextMirrored(k) ==
  /\ task[k].pc = "sweep"
  /\ \/ /\ task[k].queue = {}
        /\ task' = [task EXCEPT ![k] = NoTask]
     \/ \E t \in task[k].queue :
          task' = IF task[k].snap[t].mirror = 0
                    THEN [task EXCEPT ![k].queue = @ \ {t}]
                    ELSE [task EXCEPT ![k].queue = @ \ {t}, ![k].ticket = t,
                            ![k].kind = "reconcile", ![k].pc = "read",
                            ![k].issue = task[k].snap[t].mirror]
  /\ UNCHANGED <<ticketVars, issues, hooks, runs, moves, faults>>

\* The next ticket of the sweep; all it knows of it is the snapshot.
SweepNext(k) ==
  /\ task[k].pc = "sweep"
  /\ \/ /\ task[k].queue = {}
        /\ task' = [task EXCEPT ![k] = NoTask]
     \/ \E t \in task[k].queue :
          LET seen == task[k].snap[t] IN
          task' = [task EXCEPT
            ![k].queue = @ \ {t},
            ![k].ticket = t,
            ![k].kind = IF seen.mirror = 0 THEN "sweep" ELSE "reconcile",
            ![k].pc = IF seen.mirror = 0 THEN "create" ELSE "read",
            ![k].issue = seen.mirror,
            ![k].state = Expected(seen.status, seen.lane)]
  /\ UNCHANGED <<ticketVars, issues, hooks, runs, moves, faults>>

\* get_issue_state, replayed through the inbound handler.
SweepRead(k) ==
  LET state == issues[task[k].issue].state IN
  /\ task[k].pc = "read"
  /\ \/ /\ task' = [task EXCEPT ![k] =
              IF Acts(state, task[k].snap[task[k].ticket].status)
                THEN [task[k] EXCEPT !.pc = FirstStep(state), !.kind = state]
                ELSE Finished(k)]
        /\ UNCHANGED faults
     \/ /\ Outage
        /\ Finish(k)
  /\ UNCHANGED <<ticketVars, issues, hooks, runs, moves>>

\* The process dies, or the handler's next database call raises.
Fail(k) ==
  /\ task[k].pc # "idle"
  /\ Outage
  /\ task' = [task EXCEPT ![k] = NoTask]
  /\ UNCHANGED <<ticketVars, issues, hooks, runs, moves>>

-----------------------------------------------------------------------------
Click(k, t) ==
  \/ Submit(k, t)
  \/ Resolve(k, t)
  \/ Drop(k, t)
  \/ Reopen(k, t)
  \/ SeReply(k, t)
  \/ MoveToDev(k, t)
  \/ ReturnToSe(k, t)

Step(k) ==
  \/ Get(k)
  \/ Write(k)
  \/ Ensure(k)
  \/ Create(k)
  \/ Persist(k)
  \/ Reread(k)
  \/ Push(k)
  \/ SweepNext(k)
  \/ SweepRead(k)

\* What people do in Linear.
People == \E i \in DOMAIN issues, s \in States : MoveIssue(i, s)

Next ==
  \/ \E k \in Tasks, t \in Tickets : Click(k, t)
  \/ People
  \/ \E h \in hooks : (\E k \in Tasks : Receive(k, h)) \/ Ignore(h) \/ Lose(h)
  \/ \E k \in Slots : Step(k) \/ Fail(k)
  \/ SweepStart

Spec == Init /\ [][Next]_vars

\* The event loop runs every handler to its end; the sweep comes back every ten
\* minutes whatever happened to the one before.
Fairness == WF_vars(SweepStart) /\ \A k \in Slots : WF_vars(Step(k))
FairSpec == Spec /\ Fairness

\* One thing at a time: a handler, a sweep or a person's move starts when nothing
\* is in flight and Linear has delivered its webhooks, and the lane buttons are
\* clicked on a card that shows them.
Settled == AllIdle /\ hooks = {}
NoOverlap ==
  /\ (\E k \in Tasks, t \in Tickets : Click(k, t)) \/ People \/ SweepStart => Settled
  /\ (\E k \in Tasks, h \in hooks : Receive(k, h)) => AllIdle
  /\ \A k \in Tasks : task'[k].kind \in LaneKinds => Live(task'[k].ticket)

SerialSpec == Init /\ [][Next /\ NoOverlap]_vars

-----------------------------------------------------------------------------
(* What holds with one thing at a time.                                    *)

\* A ticket and its issue agree once everything is settled: triage for a new
\* ticket unless a person put it there, in progress for one that is worked on
\* or with the developers, done or canceled for one that is retired.
Agree(t, i) ==
  CASE i.state = "triage" -> status[t] = "new" \/ i.moved
    [] i.state = "in_progress" -> Live(t) /\ (status[t] = "new" => lane[t] = "dev")
    [] i.state = "done" -> status[t] \in Retired
    [] i.state = "canceled" -> status[t] = "closed"

InSync ==
  Settled /\ faults = 0 =>
    \A t \in Tickets : mirror[t] # 0 => Agree(t, issues[mirror[t]])

\* sync.py: "idempotency (create once, keyed on `ticket.linear_issue_id`)".
CreateOnce ==
  \A t \in Tickets :
    faults = 0 => Cardinality({i \in DOMAIN issues : issues[i].ticket = t}) <= 1

-----------------------------------------------------------------------------
(* What the sweep sees to, under fair scheduling, whatever raced or got lost. *)

\* No live ticket stays without an issue: the CTO's report misses none.
EventuallyMirrored ==
  \A t \in Tickets : Live(t) ~> mirror[t] # 0 \/ ~Live(t)

\* A live ticket does not stay behind its issue: open beside one that is done or
\* canceled, or new beside one that somebody works on.
Behind(t) ==
  /\ mirror[t] # 0
  /\ \/ Live(t) /\ issues[mirror[t]].state \in {"done", "canceled"}
     \/ status[t] = "new" /\ issues[mirror[t]].state = "in_progress"
EventuallyReflected == \A t \in Tickets : Behind(t) ~> ~Behind(t)

-----------------------------------------------------------------------------
(* What the documents say and the sweep breaks.                            *)

\* reconcile.py: the replay is "idempotent and notification-guarded, so a ticket
\* already in sync is a no-op": what Linear moves, a person moved.
OnlyPeopleMove ==
  \A k \in Slots :
    task[k].pc = "write" /\ task[k].kind \in Inbound =>
      \E i \in DOMAIN issues : issues[i].ticket = task[k].ticket /\ issues[i].moved
=============================================================================

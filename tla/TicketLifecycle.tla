-------------------------- MODULE TicketLifecycle --------------------------
(***************************************************************************)
(* The status of a ticket under concurrent handlers.                       *)
(*                                                                         *)
(* The bot is one asyncio process.  A Slack click, a Slack message or a    *)
(* Linear webhook starts a handler; every `await` in it (a repository      *)
(* call, a Slack call, a Linear call) lets another handler run.  Each      *)
(* repository call is a transaction of its own, so a handler reads the     *)
(* ticket, decides, and writes in a later transaction.  A handler is a     *)
(* task here and one step of it is what runs between two awaits.           *)
(*                                                                         *)
(* This module is the deployment without an engineering channel, where a   *)
(* resolve answers the customer thread at once; DeployHold has the other.  *)
(* AWAITING_CUSTOMER is left out: no code sets it any more.                *)
(***************************************************************************)
EXTENDS Naturals, Sequences, FiniteSets

CONSTANTS
  Tickets,
  Tasks,         \* handler slots: how many handlers may be in flight at once
  ReopenWindow,  \* REOPEN_WINDOW, in days
  MaxDay,        \* bound: the last day of a behaviour
  MaxRuns,       \* bound: how many handlers a behaviour starts
  None

ASSUME ConstantsAssumption ==
  /\ ReopenWindow \in Nat
  /\ MaxDay \in Nat
  /\ MaxRuns \in Nat
  /\ None \notin Nat

VARIABLES
  status,           \* tickets.status
  firstResponseAt,  \* tickets.first_response_at
  resolvedAt,       \* tickets.resolved_at
  closedAt,         \* tickets.closed_at
  resolution,       \* whether tickets.resolution_type has been recorded
  log,              \* event_status_changes, oldest first
  card,             \* the status the Slack card was last rendered with
  today,            \* the clock, in days
  task,             \* the handlers in flight
  runs,             \* bound: handlers started so far
  told,             \* history: replies since the ticket last became resolved
  faulted           \* history: a handler of the ticket lost a step

vars == <<status, firstResponseAt, resolvedAt, closedAt, resolution, log, card,
          today, task, runs, told, faulted>>

rowVars == <<status, firstResponseAt, resolvedAt, closedAt>>

Statuses == {"new", "in_progress", "resolved", "closed"}
Retired == {"resolved", "closed"}

\* The handlers that change the status of a ticket.
Resolvers == {"resolve_modal", "linear_done"}
Droppers == {"drop_button", "linear_canceled"}
Workers == {"reopen_button", "se_reply", "linear_started"}
Kinds == Resolvers \cup Droppers \cup Workers

PCs == {"idle", "get", "write", "load", "flush", "resolution", "event",
        "card", "render", "reply"}

Days == 0 .. MaxDay

NoTask == [pc |-> "idle", kind |-> None, ticket |-> None, seen |-> None,
           now |-> None, row |-> None, unanswered |-> FALSE, shown |-> None]

TaskRecord == [pc: PCs, kind: Kinds \cup {None}, ticket: Tickets \cup {None},
               seen: Statuses \cup {None}, now: Days \cup {None},
               row: Statuses \cup {None}, unanswered: BOOLEAN,
               shown: Statuses \cup {None}]

Event == [from: Statuses, to: Statuses]

RowTypeOK ==
  /\ status \in [Tickets -> Statuses]
  /\ firstResponseAt \in [Tickets -> Days \cup {None}]
  /\ resolvedAt \in [Tickets -> Days \cup {None}]
  /\ closedAt \in [Tickets -> Days \cup {None}]
  /\ resolution \in [Tickets -> BOOLEAN]
  /\ log \in [Tickets -> Seq(Event)]
  /\ card \in [Tickets -> Statuses]
  /\ told \in [Tickets -> Nat]
  /\ faulted \in [Tickets -> BOOLEAN]

\* A handler in flight has a ticket, a kind and what it read when it started.
TaskTypeOK ==
  /\ task \in [Tasks -> TaskRecord]
  /\ \A k \in Tasks :
       task[k].pc # "idle" =>
         /\ task[k].kind \in Kinds
         /\ task[k].ticket \in Tickets
         /\ task[k].seen \in Statuses
         /\ task[k].now \in Days
         /\ task[k].pc = "flush" => task[k].row \in Statuses
         /\ task[k].pc = "render" => task[k].shown \in Statuses

TypeOK ==
  /\ RowTypeOK
  /\ TaskTypeOK
  /\ today \in Days
  /\ runs \in Nat

Init ==
  /\ status = [t \in Tickets |-> "new"]
  /\ firstResponseAt = [t \in Tickets |-> None]
  /\ resolvedAt = [t \in Tickets |-> None]
  /\ closedAt = [t \in Tickets |-> None]
  /\ resolution = [t \in Tickets |-> FALSE]
  /\ log = [t \in Tickets |-> <<>>]
  /\ card = [t \in Tickets |-> "new"]
  /\ today = 0
  /\ task = [k \in Tasks |-> NoTask]
  /\ runs = 0
  /\ told = [t \in Tickets |-> 0]
  /\ faulted = [t \in Tickets |-> FALSE]

-----------------------------------------------------------------------------
(* Helpers.                                                                *)

Busy(t) == {k \in Tasks : task[k].pc # "idle" /\ task[k].ticket = t}
Quiet(t) == Busy(t) = {}

\* The status a handler of this kind moves its ticket to.
Target(kind) ==
  IF kind \in Resolvers THEN "resolved"
  ELSE IF kind \in Droppers THEN "closed"
  ELSE "in_progress"

\* The 30-day window is measured from closed_at, whatever the status is.
WithinWindow(closed, now) ==
  IF closed = None THEN TRUE ELSE now <= closed + ReopenWindow

Goto(k, pc) == task' = [task EXCEPT ![k].pc = pc]
Return(k) == task' = [task EXCEPT ![k] = NoTask]

\* A handler reads ticket t, keeps what it read and goes on at step pc.  A
\* handler whose own guard fails returns without a state change, so the guard
\* is a conjunct of the action that starts it.
Begin(k, t, kind, pc) ==
  /\ task[k].pc = "idle"
  /\ runs < MaxRuns
  /\ runs' = runs + 1
  /\ task' = [task EXCEPT ![k] =
                [NoTask EXCEPT !.pc = pc, !.kind = kind, !.ticket = t,
                               !.seen = status[t], !.now = today]]
  /\ UNCHANGED <<rowVars, resolution, log, card, today, told, faulted>>

-----------------------------------------------------------------------------
(* How a handler starts.                                                   *)

\* The resolve modal is submitted: ResolveTicket.execute.
ResolveModal(k, t) ==
  /\ status[t] # "resolved"
  /\ Begin(k, t, "resolve_modal", "write")

\* The Drop button: DropTicket.execute.
DropButton(k, t) ==
  /\ status[t] # "closed"
  /\ Begin(k, t, "drop_button", "write")

\* The Reopen button: ReopenTicket.execute.  Outside the window it only DMs
\* the SE, which changes no state.
ReopenButton(k, t) ==
  /\ status[t] \in Retired
  /\ WithinWindow(closedAt[t], today)
  /\ Begin(k, t, "reopen_button", "load")

\* Mutant of SeReply: any ticket that is not already in progress advances.
SeReplyRevives(k, t) ==
  /\ status[t] # "in_progress"
  /\ Begin(k, t, "se_reply", "load")

\* The assigned SE posts in the thread the ticket was raised from.
SeReply(k, t) ==
  /\ status[t] = "new"
  /\ Begin(k, t, "se_reply", "load")

\* Linear webhook, issue Done: the snapshot guard, then the PR links are
\* fetched, then ResolveTicket.execute reads the ticket again (ReGet).
LinearDone(k, t) ==
  /\ status[t] \notin Retired
  /\ Begin(k, t, "linear_done", "get")

\* Linear webhook, issue Canceled: routed through DropTicket.execute.
LinearCanceled(k, t) ==
  /\ status[t] # "closed"
  /\ Begin(k, t, "linear_canceled", "get")

\* Linear webhook, issue started: _reflect_in_progress acts on the snapshot.
LinearStarted(k, t) ==
  /\ status[t] # "in_progress"
  /\ Begin(k, t, "linear_started", "load")

-----------------------------------------------------------------------------
(* How it goes on.                                                         *)

\* The routed handler's own read and guard; it returns when the ticket is
\* already where it would move it.
ReGet(k) ==
  LET t == task[k].ticket IN
  /\ task[k].pc = "get"
  /\ IF status[t] = Target(task[k].kind)
       THEN Return(k)
       ELSE task' = [task EXCEPT ![k].pc = "write", ![k].seen = status[t],
                                 ![k].now = today]
  /\ UNCHANGED <<rowVars, resolution, log, card, today, runs, told, faulted>>

\* update_status to RESOLVED or CLOSED: one UPDATE, blind to the row's status.
Retire(k) ==
  LET t == task[k].ticket IN
  /\ task[k].pc = "write"
  /\ status' = [status EXCEPT ![t] = Target(task[k].kind)]
  /\ IF task[k].kind \in Resolvers
       THEN /\ resolvedAt' = [resolvedAt EXCEPT ![t] = task[k].now]
            /\ told' = [told EXCEPT ![t] = IF status[t] = "resolved" THEN @ ELSE 0]
            /\ Goto(k, "resolution")
            /\ UNCHANGED closedAt
       ELSE /\ closedAt' = [closedAt EXCEPT ![t] = task[k].now]
            /\ Goto(k, "event")
            /\ UNCHANGED <<resolvedAt, told>>
  /\ UNCHANGED <<firstResponseAt, resolution, log, card, today, runs, faulted>>

\* Mutant of LoadRow: only New -> In progress counts as a first response.
LoadRowNewOnly(k) ==
  LET t == task[k].ticket IN
  /\ task[k].pc = "load"
  /\ task' = [task EXCEPT ![k].pc = "flush", ![k].row = status[t],
                          ![k].unanswered = (status[t] = "new")]
  /\ UNCHANGED <<rowVars, resolution, log, card, today, runs, told, faulted>>

\* update_status to IN_PROGRESS loads the row first ...
LoadRow(k) ==
  LET t == task[k].ticket IN
  /\ task[k].pc = "load"
  /\ task' = [task EXCEPT ![k].pc = "flush", ![k].row = status[t],
                          ![k].unanswered = (firstResponseAt[t] = None)]
  /\ UNCHANGED <<rowVars, resolution, log, card, today, runs, told, faulted>>

\* Mutant of FlushRow: first_response_at is written on every move.
FlushRowRestamps(k) ==
  LET t == task[k].ticket IN
  /\ task[k].pc = "flush"
  /\ status' = IF task[k].row = "in_progress" THEN status
                 ELSE [status EXCEPT ![t] = "in_progress"]
  /\ firstResponseAt' = [firstResponseAt EXCEPT ![t] = task[k].now]
  /\ Goto(k, "event")
  /\ UNCHANGED <<resolvedAt, closedAt, resolution, log, card, today, runs, told, faulted>>

\* ... and the session flushes the columns that differ from what it loaded.
FlushRow(k) ==
  LET t == task[k].ticket IN
  /\ task[k].pc = "flush"
  /\ status' = IF task[k].row = "in_progress" THEN status
                 ELSE [status EXCEPT ![t] = "in_progress"]
  /\ firstResponseAt' = IF task[k].unanswered
                          THEN [firstResponseAt EXCEPT ![t] = task[k].now]
                          ELSE firstResponseAt
  /\ Goto(k, "event")
  /\ UNCHANGED <<resolvedAt, closedAt, resolution, log, card, today, runs,
                 told, faulted>>

\* set_resolution.
SetResolution(k) ==
  /\ task[k].pc = "resolution"
  /\ resolution' = [resolution EXCEPT ![task[k].ticket] = TRUE]
  /\ Goto(k, "event")
  /\ UNCHANGED <<rowVars, log, card, today, runs, told, faulted>>

\* Mutant of AppendEvent: `from` is the status at the time of the append.
AppendEventLate(k) ==
  /\ task[k].pc = "event"
  /\ log' = [log EXCEPT ![task[k].ticket] =
               Append(@, [from |-> status[task[k].ticket], to |-> Target(task[k].kind)])]
  /\ Goto(k, "card")
  /\ UNCHANGED <<rowVars, resolution, card, today, runs, told, faulted>>

\* Mutant of AppendEvent: a move out of a retired status is not recorded.
AppendEventNewOnly(k) ==
  /\ task[k].pc = "event"
  /\ log' = IF task[k].seen \in Retired THEN log
              ELSE [log EXCEPT ![task[k].ticket] =
                      Append(@, [from |-> task[k].seen, to |-> Target(task[k].kind)])]
  /\ Goto(k, "card")
  /\ UNCHANGED <<rowVars, resolution, card, today, runs, told, faulted>>

\* append_status_change, from the status the handler read.
AppendEvent(k) ==
  /\ task[k].pc = "event"
  /\ log' = [log EXCEPT ![task[k].ticket] =
               Append(@, [from |-> task[k].seen, to |-> Target(task[k].kind)])]
  /\ Goto(k, "card")
  /\ UNCHANGED <<rowVars, resolution, card, today, runs, told, faulted>>

\* Mutant of FetchCard: the card shows the ticket the handler read at its start.
FetchCardStale(k) ==
  /\ task[k].pc = "card"
  /\ task' = [task EXCEPT ![k].pc = "render", ![k].shown = task[k].seen]
  /\ UNCHANGED <<rowVars, resolution, log, card, today, runs, told, faulted>>

\* refresh_card reads the ticket (and then its orgs and the roster) ...
FetchCard(k) ==
  /\ task[k].pc = "card"
  /\ task' = [task EXCEPT ![k].pc = "render", ![k].shown = status[task[k].ticket]]
  /\ UNCHANGED <<rowVars, resolution, log, card, today, runs, told, faulted>>

\* Mutant of RenderCard: only the SE's own resolve answers the thread.
RenderCardSeOnly(k) ==
  LET t == task[k].ticket IN
  /\ task[k].pc = "render"
  /\ \/ /\ card' = [card EXCEPT ![t] = task[k].shown]
        /\ UNCHANGED faulted
     \/ /\ faulted' = [faulted EXCEPT ![t] = TRUE]
        /\ UNCHANGED card
  /\ IF task[k].kind = "resolve_modal" THEN Goto(k, "reply") ELSE Return(k)
  /\ UNCHANGED <<rowVars, resolution, log, today, runs, told>>

\* ... and updates the message.  The gateway swallows a Slack error.
RenderCard(k) ==
  LET t == task[k].ticket IN
  /\ task[k].pc = "render"
  /\ \/ /\ card' = [card EXCEPT ![t] = task[k].shown]
        /\ UNCHANGED faulted
     \/ /\ faulted' = [faulted EXCEPT ![t] = TRUE]
        /\ UNCHANGED card
  /\ IF task[k].kind \in Resolvers THEN Goto(k, "reply") ELSE Return(k)
  /\ UNCHANGED <<rowVars, resolution, log, today, runs, told>>

\* hold_or_post without an engineering channel: post_resolved.
PostReply(k) ==
  LET t == task[k].ticket IN
  /\ task[k].pc = "reply"
  /\ \/ /\ told' = [told EXCEPT ![t] = @ + 1]
        /\ UNCHANGED faulted
     \/ /\ faulted' = [faulted EXCEPT ![t] = TRUE]
        /\ UNCHANGED told
  /\ Return(k)
  /\ UNCHANGED <<rowVars, resolution, log, card, today, runs>>

\* The process dies, or the handler's next database call raises.
Fail(k) ==
  /\ task[k].pc # "idle"
  /\ faulted' = [faulted EXCEPT ![task[k].ticket] = TRUE]
  /\ Return(k)
  /\ UNCHANGED <<rowVars, resolution, log, card, today, runs, told>>

NextDay ==
  /\ today < MaxDay
  /\ today' = today + 1
  /\ UNCHANGED <<rowVars, resolution, log, card, task, runs, told, faulted>>

-----------------------------------------------------------------------------
Start(k, t) ==
  \/ ResolveModal(k, t)
  \/ DropButton(k, t)
  \/ ReopenButton(k, t)
  \/ SeReply(k, t)
  \/ LinearDone(k, t)
  \/ LinearCanceled(k, t)
  \/ LinearStarted(k, t)

Step(k) ==
  \/ ReGet(k)
  \/ Retire(k)
  \/ LoadRow(k)
  \/ FlushRow(k)
  \/ SetResolution(k)
  \/ AppendEvent(k)
  \/ FetchCard(k)
  \/ RenderCard(k)
  \/ PostReply(k)
  \/ Fail(k)

Next ==
  \/ \E k \in Tasks, t \in Tickets : Start(k, t)
  \/ \E k \in Tasks : Step(k)
  \/ NextDay

Spec == Init /\ [][Next]_vars

\* The same system when no two handlers of one ticket are in flight at once.
\* Nothing in the code enforces it; the runs show what it would buy.
NoOverlap ==
  \A k1, k2 \in Tasks :
    task'[k1].pc # "idle" /\ task'[k2].pc # "idle"
      /\ task'[k1].ticket = task'[k2].ticket => k1 = k2

SerialSpec == Init /\ [][Next /\ NoOverlap]_vars

-----------------------------------------------------------------------------
(* What holds whatever handlers overlap (Spec).                            *)

\* Every status but "new" is backed by the timestamp that the SLA report, the
\* reopen window and the resolved report read: no interleaving of the ORM's
\* load-and-flush with another handler's UPDATE leaves a ticket in progress
\* without first_response_at, resolved without resolved_at or closed without
\* closed_at.
StampsExplainStatus ==
  \A t \in Tickets :
    /\ status[t] = "in_progress" => firstResponseAt[t] # None
    /\ status[t] = "resolved" => resolvedAt[t] # None
    /\ status[t] = "closed" => closedAt[t] # None

\* Once its handlers are done, a ticket that no handler failed on has an event
\* that records how it came to its status, even when the handlers overlapped.
AuditExplainsStatus ==
  \A t \in Tickets :
    Quiet(t) /\ ~faulted[t] =>
      IF log[t] = <<>> THEN status[t] = "new"
      ELSE \E i \in 1 .. Len(log[t]) : log[t][i].to = status[t]

\* Nobody is forgotten: a resolved ticket whose handlers are done and did not
\* fail has had a reply in its customer thread since it became resolved.
ResolvedIsTold ==
  \A t \in Tickets :
    status[t] = "resolved" /\ Quiet(t) /\ ~faulted[t] => told[t] > 0

-----------------------------------------------------------------------------
(* What holds when the handlers of a ticket do not overlap (SerialSpec).   *)

\* The event log is the ticket's history without a gap: the first event leaves
\* "new", each event leaves the status the one before it reached, and the last
\* one reached the ticket's status.
LogIsChain ==
  \A t \in Tickets :
    Quiet(t) /\ ~faulted[t] =>
      /\ \A i \in 1 .. Len(log[t]) :
           log[t][i].from = IF i = 1 THEN "new" ELSE log[t][i - 1].to
      /\ status[t] = IF log[t] = <<>> THEN "new" ELSE log[t][Len(log[t])].to

\* The Slack card shows the ticket's status.
CardFollowsStatus ==
  \A t \in Tickets : Quiet(t) /\ ~faulted[t] => card[t] = status[t]

\* A dropped ticket goes back to work only by a Reopen click inside the window
\* or because someone started its Linear issue: an SE's reply never revives it,
\* and a click outside the window never does.
ClosedRevival(t) ==
  status[t] = "closed" /\ status'[t] = "in_progress" =>
    \E k \in Tasks :
      /\ task[k].ticket = t
      /\ \/ task[k].kind = "linear_started"
         \/ /\ task[k].kind = "reopen_button"
            /\ WithinWindow(closedAt[t], task[k].now)

ReopenWithinWindow == [][\A t \in Tickets : ClosedRevival(t)]_vars

\* The ticket keeps the promise of TicketContract: the handlers' many writes
\* amount to one status change each, first_response_at never moves once it is
\* set, and no resolve is answered twice or after the ticket moved on.
Contract == INSTANCE TicketContract
              WITH state <- status, responded <- firstResponseAt, dropped <- closedAt,
                   answers <- told, clock <- today
ContractSpec == Contract!Spec

-----------------------------------------------------------------------------
(* What a comment says and overlapping handlers break.                     *)

\* resolve.py: "the early already-RESOLVED guard above stops a second run from
\* double-posting".
NoDoublePost == \A t \in Tickets : told[t] <= 1
=============================================================================

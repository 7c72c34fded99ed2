----------------------------- MODULE Ownership -----------------------------
(***************************************************************************)
(* Whose ticket it is.                                                     *)
(*                                                                         *)
(* A ticket is worked on by its SE owner or, once it was moved to the dev  *)
(* lane, by a dev owner; its issue in Linear is assigned to one of them.   *)
(* The lane buttons, the owner select on the card, /ooo and a webhook for  *)
(* every new assignee in Linear write these columns, each with reads and   *)
(* calls in between, and handlers overlap.  A change that comes from       *)
(* Linear is announced by a timer that starts again with each change.      *)
(*                                                                         *)
(* Who has the least load, the comms events, the card and the texts are    *)
(* left out; a pick is any member of the pool who is in.                   *)
(***************************************************************************)
EXTENDS Availability, Integers, FiniteSets

CONSTANTS
  Tickets,
  Devs,       \* the members the support group can have
  Mapped,     \* the people whom the configured user map gives a Linear user
  Outsider,   \* a Linear user without a Slack mapping
  Tasks,      \* slots of the handlers that Slack and the webhook start
  MaxRuns,    \* bound: how many handlers a behaviour starts
  MaxRaces,   \* bound: how many, once they have raced
  MaxMoves,   \* bound: how often people reassign an issue in Linear
  MaxFaults,  \* bound: how many handlers, calls to Linear or webhooks get lost
  Quiet       \* no burst of owner changes

ASSUME ConstantsAssumption ==
  /\ MaxRuns \in Nat /\ MaxRaces \in Nat /\ MaxMoves \in Nat /\ MaxFaults \in Nat
  /\ IsFiniteSet(Tasks)
  /\ None \notin SEs \cup Devs \cup Tickets
  /\ Mapped \subseteq SEs \cup Devs
  /\ Outsider \notin SEs \cup Devs \cup {None}
  /\ Present \notin SEs \cup {None}
  /\ Quiet \notin [origin: SEs \cup Devs \cup {None}, before: SEs \cup Devs \cup {None}]

VARIABLES
  live,       \* the tickets that are neither resolved nor closed
  lane,       \* tickets.lane
  se,         \* tickets.se_owner_user_id
  dev,        \* tickets.dev_owner_user_id
  assignee,   \* whom Linear shows
  absence,    \* se_availability: who covers for whom; Present is no active row
  hooks,      \* the assignee webhooks Linear has yet to deliver
  burst,      \* _owner_burst_origin, and with it the timer
  notices,    \* how many owner changes were announced
  owed,       \* moves to the dev lane minus messages to the customer about them
  task,       \* the handlers in flight
  raced,      \* did anything ever start before everything else was done
  runs, moves, faults  \* bounds

vars == <<live, lane, se, dev, assignee, absence, hooks, burst, notices, owed, task,
          raced, runs, moves, faults>>
row == <<lane, se, dev, owed>>
outside == <<live, absence, hooks, burst, notices, moves>>

Lanes == {"se", "dev"}
People == SEs \cup Devs
Owners == People \cup {None}
Assignees == Mapped \cup {None, Outsider}  \* whom an issue can show

PCs == {"idle", "lane", "members", "owner", "assign", "post", "tell", "schedule",
        "upsert", "list", "next", "check"}
Kinds == {"to_dev", "to_se", "select", "hook", "ooo"}

NoTask == [pc |-> "idle", kind |-> None, ticket |-> None, field |-> "se", owner |-> None,
           seen |-> None, changed |-> FALSE, absentee |-> None, away |-> [s \in SEs |-> Present],
           queue |-> {}]

TaskRecord == [pc: PCs, kind: Kinds \cup {None}, ticket: Tickets \cup {None},
               field: Lanes, owner: Owners, seen: Owners, changed: BOOLEAN,
               absentee: SEs \cup {None}, away: [SEs -> SEs \cup {None, Present}],
               queue: SUBSET Tickets]

\* The column's owner when a burst began, and who held the ticket then.
Burst == [origin: Owners, before: Owners]

\* A handler past its start knows its ticket, or for /ooo its absentee.
SlotOK(r) ==
  /\ r \in TaskRecord
  /\ r.pc \in {"lane", "members", "owner", "assign", "post", "tell", "schedule"} =>
       r.ticket \in Tickets
  /\ r.pc = "check" => r.ticket \in Tickets
  /\ r.pc # "idle" /\ r.kind = "ooo" => r.absentee \in SEs
  /\ r.pc \in {"upsert", "list", "next", "check"} => r.kind = "ooo"
  /\ r.pc = "upsert" => r.owner \in SEs \cup {None}

TypeOK ==
  /\ live \in SUBSET Tickets
  /\ lane \in [Tickets -> Lanes]
  /\ se \in [Tickets -> Owners] /\ dev \in [Tickets -> Owners]
  /\ assignee \in [Tickets -> Assignees]
  /\ absence \in [SEs -> SEs \cup {None, Present}]
  /\ hooks \in SUBSET [ticket: Tickets, user: Assignees]
  /\ burst \in [Tickets -> Burst \cup {Quiet}]
  /\ notices \in [Tickets -> Nat] /\ owed \in [Tickets -> Int]
  /\ \A k \in Tasks : SlotOK(task[k])
  /\ task \in [Tasks -> TaskRecord]
  /\ raced \in BOOLEAN
  /\ runs \in Nat /\ moves \in Nat /\ faults \in Nat

\* Every ticket was logged with the owner of the day, or with none.
Init ==
  /\ live = Tickets
  /\ lane = [t \in Tickets |-> "se"]
  /\ se \in [Tickets -> SEs \cup {None}]
  /\ dev = [t \in Tickets |-> None]
  /\ assignee = [t \in Tickets |-> IF se[t] \in Mapped THEN se[t] ELSE None]
  /\ absence = [s \in SEs |-> Present]
  /\ hooks = {}
  /\ burst = [t \in Tickets |-> Quiet]
  /\ notices = [t \in Tickets |-> 0]
  /\ owed = [t \in Tickets |-> 0]
  /\ task = [k \in Tasks |-> NoTask]
  /\ raced = FALSE
  /\ runs = 0 /\ moves = 0 /\ faults = 0

-----------------------------------------------------------------------------
(* Helpers.                                                                *)

Idle == \A k \in Tasks : task[k].pc = "idle"

\* linear_assignee_user_id.
Effective(t) == IF dev[t] # None THEN dev[t] ELSE se[t]

\* A Slack click or a webhook starts a handler.
Begin(k, r) ==
  /\ task[k].pc = "idle"
  /\ raced' = (raced \/ ~Idle \/ (r.kind # "hook" /\ hooks # {}))
  /\ runs < IF raced' THEN MaxRaces ELSE MaxRuns
  /\ runs' = runs + 1
  /\ task' = [task EXCEPT ![k] = r]

Goto(k, pc) == task' = [task EXCEPT ![k].pc = pc]

Outage ==
  /\ faults < MaxFaults
  /\ faults' = faults + 1

\* Where a handler goes once the assignee is pushed, or could not be.
AfterPush(k) ==
  CASE task[k].kind = "to_dev" /\ task[k].changed -> [task[k] EXCEPT !.pc = "tell"]
    [] task[k].kind = "ooo" -> [task[k] EXCEPT !.pc = "next"]
    [] OTHER -> NoTask
FinishPush(k) == task' = [task EXCEPT ![k] = AfterPush(k)]

-----------------------------------------------------------------------------
(* How a handler starts: what it reads, and where it goes from there.      *)

\* Mutant of MoveToDev: a click on a ticket of the dev lane is told as well.
MoveToDevAlways(k, t) ==
  /\ Begin(k, [NoTask EXCEPT !.kind = "to_dev", !.ticket = t, !.field = "dev", !.seen = dev[t],
                 !.changed = TRUE, !.pc = IF lane[t] = "se" THEN "lane" ELSE "members"])
  /\ UNCHANGED <<row, outside, assignee, faults>>

MoveToDev(k, t) ==
  /\ Begin(k, [NoTask EXCEPT !.kind = "to_dev", !.ticket = t, !.field = "dev", !.seen = dev[t],
                 !.changed = lane[t] = "se",
                 !.pc = IF lane[t] = "se" THEN "lane" ELSE "members"])
  /\ UNCHANGED <<row, outside, assignee, faults>>

\* Mutant of ReturnToSe: the dev owner is kept.
ReturnToSeKeeps(k, t) ==
  /\ Begin(k, [NoTask EXCEPT !.kind = "to_se", !.ticket = t, !.field = "dev",
                 !.pc = IF lane[t] = "dev" THEN "lane" ELSE "assign"])
  /\ UNCHANGED <<row, outside, assignee, faults>>

ReturnToSe(k, t) ==
  /\ Begin(k, [NoTask EXCEPT !.kind = "to_se", !.ticket = t, !.field = "dev", !.seen = dev[t],
                 !.pc = IF lane[t] = "dev" THEN "lane"
                        ELSE IF dev[t] # None THEN "owner" ELSE "assign"])
  /\ UNCHANGED <<row, outside, assignee, faults>>

\* The SE-owner select on the card; the current owner is a no-op.
SetSeOwner(k, t, s) ==
  /\ se[t] # s
  /\ Begin(k, [NoTask EXCEPT !.kind = "select", !.ticket = t, !.owner = s, !.pc = "owner"])
  /\ UNCHANGED <<row, outside, assignee, faults>>

\* MarkOoo validates the cover, and then writes.
SubmitOoo(k, s, c, move) ==
  /\ c # s
  /\ c # None => absence[c] = Present
  /\ Begin(k, [NoTask EXCEPT !.kind = "ooo", !.absentee = s, !.owner = c, !.changed = move,
                 !.pc = "upsert"])
  /\ UNCHANGED <<row, outside, assignee, faults>>

\* The owner column the webhook means, by the lane it read.
Column(t) == IF lane[t] = "dev" THEN dev[t] ELSE se[t]

\* Mutant of Receive: the assignee is always the SE owner.
ReceiveSe(k, h) ==
  LET t == h.ticket IN
  /\ h.user \in Owners /\ h.user # se[t]
  /\ Begin(k, [NoTask EXCEPT !.kind = "hook", !.ticket = t, !.field = "se",
                 !.owner = h.user, !.seen = se[t], !.pc = "owner"])
  /\ hooks' \in {hooks, hooks \ {h}}
  /\ UNCHANGED <<row, live, absence, burst, notices, moves, assignee, faults>>

\* _apply_owner_change on a mapped user who is new, or on nobody.
Receive(k, h) ==
  LET t == h.ticket IN
  /\ h.user \in Owners /\ h.user # Column(t)
  /\ Begin(k, [NoTask EXCEPT !.kind = "hook", !.ticket = t, !.field = lane[t],
                 !.owner = h.user, !.seen = Column(t), !.pc = "owner"])
  /\ hooks' \in {hooks, hooks \ {h}}
  /\ UNCHANGED <<row, live, absence, burst, notices, moves, assignee, faults>>

-----------------------------------------------------------------------------
(* How it goes on.                                                         *)

\* update_lane.
WriteLane(k) ==
  LET t == task[k].ticket  to == IF task[k].kind = "to_dev" THEN "dev" ELSE "se" IN
  /\ task[k].pc = "lane"
  /\ lane' = [lane EXCEPT ![t] = to]
  /\ owed' = [owed EXCEPT ![t] = IF to = "dev" /\ lane[t] = "se" THEN @ + 1 ELSE @]
  /\ Goto(k, IF to = "dev" THEN "members" ELSE IF task[k].seen # None THEN "owner" ELSE "assign")
  /\ UNCHANGED <<se, dev, outside, assignee, raced, runs, faults>>

\* _pick_dev: a member whom Linear knows, if the group has one; else any member, if
\* it has one.
Picks(group) == IF group = {} THEN {None}
                ELSE IF group \cap Mapped # {} THEN group \cap Mapped ELSE group

\* list_group_members, and the pick.
PickDev(k) ==
  /\ task[k].pc = "members"
  /\ \E group \in SUBSET Devs : \E d \in Picks(group) :
       task' = IF d \in {None, task[k].seen} THEN [task EXCEPT ![k].pc = "assign"]
               ELSE [task EXCEPT ![k].pc = "owner", ![k].owner = d]
  /\ UNCHANGED <<row, outside, assignee, raced, runs, faults>>

\* update_se_owner or update_dev_owner.
WriteOwner(k) ==
  LET t == task[k].ticket IN
  /\ task[k].pc = "owner"
  /\ IF task[k].field = "dev"
       THEN dev' = [dev EXCEPT ![t] = task[k].owner] /\ UNCHANGED se
       ELSE se' = [se EXCEPT ![t] = task[k].owner] /\ UNCHANGED dev
  /\ Goto(k, IF task[k].kind = "hook" THEN "schedule" ELSE "assign")
  /\ UNCHANGED <<lane, owed, outside, assignee, raced, runs, faults>>

\* sync_assignee reads the row it pushes.
ReadAssignee(k) ==
  /\ task[k].pc = "assign"
  /\ task' = [task EXCEPT ![k].pc = "post", ![k].owner = Effective(task[k].ticket)]
  /\ UNCHANGED <<row, outside, assignee, raced, runs, faults>>

\* assign_issue: a no-op for nobody and for an owner outside the user map, whom
\* Linear cannot show; it may fail.
PostAssignee(k) ==
  LET t == task[k].ticket IN
  /\ task[k].pc = "post"
  /\ \/ /\ assignee' = [assignee EXCEPT ![t] = IF task[k].owner \in Mapped THEN task[k].owner ELSE @]
        /\ UNCHANGED faults
     \/ Outage /\ UNCHANGED assignee
  /\ FinishPush(k)
  /\ UNCHANGED <<row, outside, raced, runs>>

\* _tell_customer_threads.
Tell(k) ==
  /\ task[k].pc = "tell"
  /\ owed' = [owed EXCEPT ![task[k].ticket] = @ - 1]
  /\ task' = [task EXCEPT ![k] = NoTask]
  /\ UNCHANGED <<lane, se, dev, outside, assignee, raced, runs, faults>>

\* The record of a burst that starts with this change.
NewBurst(k) ==
  LET t == task[k].ticket  seen == task[k].seen IN
  [origin |-> seen, before |-> IF task[k].field = "dev" /\ seen = None THEN se[t] ELSE seen]

\* Mutant of Schedule: every change counts as the start of the burst.
ScheduleLast(k) ==
  LET t == task[k].ticket IN
  /\ task[k].pc = "schedule"
  /\ burst' = [burst EXCEPT ![t] = IF @ = Quiet THEN NewBurst(k)
                                   ELSE [@ EXCEPT !.origin = task[k].seen]]
  /\ task' = [task EXCEPT ![k] = NoTask]
  /\ UNCHANGED <<row, live, absence, hooks, notices, moves, assignee, raced, runs, faults>>

\* _schedule_owner_dm: the origin of a running burst stays, its timer restarts.
Schedule(k) ==
  LET t == task[k].ticket IN
  /\ task[k].pc = "schedule"
  /\ burst' = [burst EXCEPT ![t] = IF @ = Quiet THEN NewBurst(k) ELSE @]
  /\ task' = [task EXCEPT ![k] = NoTask]
  /\ UNCHANGED <<row, live, absence, hooks, notices, moves, assignee, raced, runs, faults>>

\* The timer: _fire_owner_dm tells the settled owner, unless it is the origin.
Fire(t) ==
  /\ burst[t] # Quiet
  /\ notices' = [notices EXCEPT ![t] = IF Effective(t) = burst[t].origin THEN @ ELSE @ + 1]
  /\ burst' = [burst EXCEPT ![t] = Quiet]
  /\ UNCHANGED <<row, live, absence, hooks, moves, assignee, task, raced, runs, faults>>

\* MarkOoo: the row first.
Upsert(k) ==
  /\ task[k].pc = "upsert"
  /\ absence' = [absence EXCEPT ![task[k].absentee] = task[k].owner]
  /\ task' = [task EXCEPT ![k] = IF task[k].changed THEN [task[k] EXCEPT !.pc = "list"]
                                 ELSE NoTask]
  /\ UNCHANGED <<row, live, hooks, burst, notices, moves, assignee, raced, runs, faults>>

\* _move_open_tickets: who is out, and the live tickets of the absentee.
ListOpen(k) ==
  /\ task[k].pc = "list"
  /\ task' = [task EXCEPT ![k].pc = "next", ![k].away = absence,
                          ![k].queue = {t \in live : se[t] = task[k].absentee}]
  /\ UNCHANGED <<row, outside, assignee, raced, runs, faults>>

\* The next ticket goes to whoever it is rerouted to; an absentee without cover
\* in an empty house keeps it.
MoveNext(k) ==
  LET s == task[k].absentee IN
  /\ task[k].pc = "next"
  /\ \/ /\ task[k].queue = {}
        /\ task' = [task EXCEPT ![k] = NoTask]
     \/ \E t \in task[k].queue, target \in Reroute(s, task[k].away) :
          task' = [task EXCEPT ![k].queue = @ \ {t}, ![k].ticket = t, ![k].owner = target,
                               ![k].pc = IF target = s THEN "next" ELSE "check"]
  /\ UNCHANGED <<row, outside, assignee, raced, runs, faults>>

\* ApplySeOwnerChange reads the ticket again.
CheckOwner(k) ==
  /\ task[k].pc = "check"
  /\ Goto(k, IF se[task[k].ticket] = task[k].owner THEN "next" ELSE "owner")
  /\ UNCHANGED <<row, outside, assignee, raced, runs, faults>>

-----------------------------------------------------------------------------
(* The surroundings.                                                       *)

\* Somebody reassigns or unassigns the issue in Linear.
Reassign(t, u) ==
  /\ moves < MaxMoves
  /\ assignee[t] # u
  /\ moves' = moves + 1
  /\ assignee' = [assignee EXCEPT ![t] = u]
  /\ hooks' = hooks \cup {[ticket |-> t, user |-> u]}
  /\ raced' = (raced \/ ~Idle \/ hooks # {})
  /\ UNCHANGED <<row, live, absence, burst, notices, task, runs, faults>>

\* A webhook that changes nothing, or is lost.
IgnoreHook(h) ==
  /\ \/ (h.user = Outsider \/ h.user = Column(h.ticket)) /\ UNCHANGED faults
     \/ Outage
  /\ hooks' = hooks \ {h}
  /\ UNCHANGED <<row, live, absence, burst, notices, moves, assignee, task, raced, runs>>

\* MarkBack, or the day they are back on.
MarkBack(s) ==
  /\ absence[s] # Present
  /\ absence' = [absence EXCEPT ![s] = Present]
  /\ raced' = (raced \/ ~Idle)
  /\ UNCHANGED <<row, live, hooks, burst, notices, moves, assignee, task, runs, faults>>

\* The ticket is resolved or dropped.
Retire(t) ==
  /\ t \in live
  /\ live' = live \ {t}
  /\ raced' = (raced \/ ~Idle)
  /\ UNCHANGED <<row, absence, hooks, burst, notices, moves, assignee, task, runs, faults>>

\* A database call raises.
Fail(k) ==
  /\ task[k].pc # "idle"
  /\ Outage
  /\ task' = [task EXCEPT ![k] = NoTask]
  /\ UNCHANGED <<row, outside, assignee, raced, runs>>

\* The process restarts: handlers and timers are gone.
Restart ==
  /\ Outage
  /\ task' = [k \in Tasks |-> NoTask]
  /\ burst' = [t \in Tickets |-> Quiet]
  /\ UNCHANGED <<row, live, absence, hooks, notices, moves, assignee, raced, runs>>

-----------------------------------------------------------------------------
Step(k) ==
  \/ WriteLane(k) \/ PickDev(k) \/ WriteOwner(k)
  \/ ReadAssignee(k) \/ PostAssignee(k) \/ Tell(k) \/ Schedule(k)
  \/ Upsert(k) \/ ListOpen(k) \/ MoveNext(k) \/ CheckOwner(k)

Start(k) ==
  \/ \E t \in Tickets : MoveToDev(k, t) \/ ReturnToSe(k, t)
  \/ \E t \in Tickets, s \in SEs : SetSeOwner(k, t, s)
  \/ \E s \in SEs, c \in SEs \cup {None}, move \in BOOLEAN : SubmitOoo(k, s, c, move)
  \/ \E h \in hooks : Receive(k, h)

World ==
  \/ \E t \in Tickets, u \in Assignees : Reassign(t, u)
  \/ \E h \in hooks : IgnoreHook(h)
  \/ \E s \in SEs : MarkBack(s)
  \/ \E t \in Tickets : Retire(t) \/ Fire(t)

Next ==
  \/ \E k \in Tasks : Start(k) \/ Step(k) \/ Fail(k)
  \/ World
  \/ Restart

Spec == Init /\ [][Next]_vars

-----------------------------------------------------------------------------
(* The customer.                                                           *)

\* lane_handoff.py: "Tell the customer their report has moved on - but only on a
\* real lane change".  A move to the dev lane has its message once all handlers
\* are done, however they overlapped, unless one was lost; without a race there
\* is never a message too many.
HandoffTold ==
  /\ Idle /\ faults = 0 => \A t \in Tickets : owed[t] <= 0
  /\ ~raced => \A t \in Tickets : owed[t] >= 0

-----------------------------------------------------------------------------
(* What holds when handlers and webhooks come one at a time.               *)

\* A ticket back with the SEs has no dev owner left.
SeLaneHasNoDev == \A t \in Tickets : lane[t] = "se" => dev[t] = None

\* Linear never names one of the team while the bot names another whom Linear could
\* name as well.  An owner outside the user map leaves the last name standing.
OneName ==
  \A t \in Tickets :
    assignee[t] \in People /\ Effective(t) \in Mapped => Effective(t) = assignee[t]

OwnersAgree ==
  ~raced /\ faults = 0 /\ Idle /\ hooks = {} => SeLaneHasNoDev /\ OneName

\* inbound.py: "a dev reassignment can't quietly rewrite who the SE side thinks
\* owns the ticket".
SeOwnerKept ==
  [][\A t \in Tickets :
       ~raced' /\ se'[t] # se[t] /\ lane[t] = "dev" =>
         \E k \in Tasks : task[k].kind \in {"select", "ooo"}]_vars

\* availability.py, _move_open_tickets: "Reassign every live ticket `user_id`
\* owns": none is left when the handler ends, unless nobody is in.
MovedOff ==
  [][\A k \in Tasks :
       ~raced' /\ faults' = 0 /\ task[k].pc = "next" /\ task'[k].pc = "idle" =>
         \/ \A t \in live : se[t] # task[k].absentee
         \/ \A s \in SEs : absence[s] # Present]_vars

\* inbound.py, _fire_owner_dm: "DM the settled owner ... once the burst has
\* quieted".  Whoever holds the ticket then and did not before the burst hears of
\* it, however often the ticket changed hands and lanes meanwhile.
SettledIsTold ==
  [][\A t \in Tickets :
       /\ faults' = faults
       /\ burst[t] # Quiet /\ burst'[t] = Quiet
       /\ Effective(t) \notin {burst[t].before, None}
       => notices'[t] > notices[t]]_vars

=============================================================================

# Verification of the Customerbot support bot

Customerbot is a Slack bot for support tickets. A ticket is logged from a
customer thread, worked on by a solutions engineer (SE) or a developer,
mirrored as a Linear issue, and resolved or dropped; the customer threads are
told when it is resolved, or when the fix is deployed. This directory holds TLA+
modules for the protocols of the bot, the TLC runs over them, and TLAPS proofs.
Paths below are under `src/src/customerbot/` unless they start with `docs/`.

## 1. The system

One asyncio process (`main.py`) serves Slack events over Bolt, two HTTP webhooks
and its background loops, over one SQLite file. There is no lock and no
transaction that spans two repository calls: each repository method opens a
session, commits and returns. A handler therefore reads a ticket, decides, and
writes in later transactions, and any other handler may run at each `await`.

| Component | State | Operations | Interacts with | What makes it correct | Module |
|---|---|---|---|---|---|
| Ticket lifecycle (`application/tracking/resolve.py`, `drop.py`, `reopen.py`, `mark_in_progress_on_reply.py`) | `tickets.status`, three timestamps, resolution, `event_status_changes` | Resolve, Drop, Reopen, SE reply | card, threads, Linear, deploy hold | timestamps and log explain the status; customers answered once per resolve; reopen window | `TicketLifecycle`, `TicketContract` |
| Linear inbound (`application/linear/inbound.py`) | a timer per ticket | Done, Canceled, Started, assignee change, comment | routes into Resolve and Drop, writes the status itself for Started, writes owners | idempotent under redelivery; the settled owner is told once per burst | `TicketLifecycle`, `LinearMirror`, `Ownership` |
| Deploy hold (`application/tracking/deploy_hold.py`, `data/repository/deploy_holds.py`) | `releases`, `release_prs`, `deploy_holds` | hold or post, watch #engineering, post now, nudge | called by Resolve; reads `tickets.status` | no reply before the fix is live; nobody forgotten | `DeployHold` |
| Ticket card (`application/intake/ticket_card.py`) | the Slack message | `refresh_card` after every change | every handler | shows the current ticket | `TicketLifecycle`, `Triage` |
| Linear outbound and sweep (`application/linear/sync.py`, `reconcile.py`, `integration/linear/mapping.py`) | `linear_issue_id`, the issues in Linear | create once, push state, priority, label, assignee; sweep every 10 minutes | every handler, inbound | one issue per ticket; the two sides agree at rest; what was missed is caught up with | `LinearMirror`, `Triage`, `Ownership` |
| Lane handoff (`application/tracking/lane_handoff.py`) | `lane`, `dev_owner_user_id` | Move to Dev, Return to SE | sync, inbound owner changes | lane and owner agree; the customer hears of each real move | `Ownership`, `LinearMirror` |
| SE ownership and availability (`application/intake/availability.py`, `apply_se_owner.py`) | `se_availability`, `se_owner_user_id` | out of office and back, move of the open tickets, owner select | intake, sync | an absentee is left without tickets; a dev reassignment does not touch the SE owner | `Availability`, `Ownership`, `Intake` |
| Intake (`application/intake/submit_ticket_form.py`, `dedupe.py`, `support_threads.py`, `link_thread.py`) | drafts, `pending_dedupe_choice`, organisations, `ticket_orgs`, `ticket_support_threads` | submit, in-app report, merge, create anyway, link | bot-state sweeper, availability | a report ends up in exactly one ticket; its thread knows the right number | `Intake` |
| Priority (`application/priority/`) | `priority`, the suggestion's buttons, review state | assign, change, suggest on a second organisation, P0 scan, monthly review | intake, card, sync | the matrix does not favour the wrong customer; nobody's third organisation goes unnoticed | `PriorityMatrix`, `Triage`, `Reminders` |
| Card toggles and edits (`application/tracking/reclassify.py`, `platform_wide.py`, `reply_needed.py`, `set_deadline.py`, `set_stakeholder.py`, `add_affected_org.py`) | one column or row each | one write, audit row, card, Linear | each other | type and subtype fit; card, audit rows and Linear follow | `Triage` |
| SLA clocks (`application/sla/`) | `sla_dm_state` | scan every few minutes | none | a clock goes back only when its target has become longer | `Reminders` |
| Reminders (`application/tracking/open_tickets_digest.py`, `urgent_nag.py`) | a last-fired mark each, in memory or in the database | tick every few minutes | direct messages | in every slot, and once per slot | `Reminders` |
| Board, report, articles, community sweep, summariser | none, or a row nothing else reads | | | no protocol of their own | none |
| Gateways, modals, webhooks, signing, configuration, migrations | none, or schema | I/O, parsing, wiring | outside services | parsing, HTTP | only what they do to a handler: a call that fails, an error that is swallowed |

The hard behaviours, with the lines where they bite, are listed as hazards in
`PROJECT.json`. Nearly all have one shape: a value is read before an `await` and
used after it. The rest are swallowed Slack errors, lost handlers (the process
dies, or a database call raises), a resolve that is taken back while its reply is
held, Linear webhooks with an old state, and jobs that must remember across a
restart what they have done.

## 2. Modules

| Module | Role |
|---|---|
| `TicketContract` | abstract: what a ticket promises its reporter and the SLA report, in five atomic steps |
| `TicketLifecycle` | the status protocol: seven kinds of handler, split at each await; implements `TicketContract` |
| `DeployHold` | the deploy hold: resolves, release threads, the manual button, the nudge job |
| `NudgePass` | `DeployHold` with a history variable: what one pass of the nudge job owes to the holds it found |
| `LinearMirror` | a ticket, its issue in Linear, the webhooks between them and the reconcile sweep |
| `LinearSweep` | `LinearMirror` with a history variable: what one sweep puts right that nobody writes beside |
| `Availability` | functions: who may get a ticket while SEs are out; used by the next two |
| `Ownership` | lane, SE and dev owner, assignee, `/ooo`, the debounced owner message |
| `Intake` | from a form or an in-app report to a ticket, by way of the dedupe choice |
| `PriorityMatrix` | functions: the customer's weight and the priority a bug is logged with |
| `Triage` | every edit of a ticket, its card, its audit rows, its label and priority in Linear, and the suggestion of a higher priority; logs with `PriorityMatrix` |
| `Reminders` | five loops that watch the clock |
| `MCTicketLifecycle`, `MCDeployHold`, `MCNudgePass`, `MCLinearMirror`, `MCLinearSweep`, `MCOwnership`, `MCIntake`, `MCTriage`, `MCReminders` | symmetry and values for TLC |
| `TicketLifecycleProofs`, `DeployHoldProofs`, `LinearMirrorProofs`, `LinearSweepProofs`, `OwnershipProofs`, `IntakeProofs`, `TriageProofs`, `RemindersProofs` | the theorems of section 5 |

In every module a handler in flight is a record in a slot `task[k]`: `pc` names
its next step, and the other fields are what it has read and still carries. A
step is the code between two awaits. A handler whose guard fails returns without
a change and is no step at all. A mutant, with which a run is shown to be able to
fail, stands beside the definition it replaces and is named after it.

### TicketLifecycle and the code

In `task[k]`, `seen` is the status the handler read, `now` its clock,
`row`/`unanswered` what the ORM session loaded, `shown` what the card is about to
be drawn from.

| Action | Code |
|---|---|
| `ResolveModal`, `DropButton`, `ReopenButton`, `SeReply` | the handler's read and its early returns (`resolve.py:131-141`, `drop.py:71-81`, `reopen.py:76-94`, `mark_in_progress_on_reply.py:68-86`) |
| `LinearDone`, `LinearCanceled`, `LinearStarted` | the guard of `_apply_state_change` on the webhook's snapshot (`inbound.py:152-199`) |
| `ReGet` | the second read, in the routed `ResolveTicket` or `DropTicket` |
| `Retire` | `update_status` to RESOLVED or CLOSED: one UPDATE that ignores the present status (`tickets.py:171-179`) |
| `LoadRow`, `FlushRow` | `update_status` to IN_PROGRESS: `session.get`, then a flush of the columns that differ from what was loaded (`tickets.py:157-170`) |
| `SetResolution`, `AppendEvent` | `set_resolution`, `append_status_change` with the status read at the start |
| `FetchCard`, `RenderCard` | `refresh_card`; the gateway swallows a Slack error (`gateway.py:196-201`) |
| `PostReply` | `hold_or_post` when nothing is held; a Slack error is swallowed too |
| `Fail` | the process dies or a database call raises; the handler is gone |

`AWAITING_CUSTOMER` is left out: nothing sets it any more. Direct messages
to CSMs and the Linear pushes at the end of a handler write no state of this
module. `told` and `faulted` are history variables, `runs` is a bound.

### DeployHold and the code

A resolve is `ResolveStart` (the read), `ResolveWrite` (the status),
`QueryDeployed`, then `ReplyNow` or one `AddHold` per PR. A root message in
#engineering is `AnnounceStart`, `UpsertRelease`, `AnnouncePRs`. A thread reply
is `EngineeringReply` (the read of the release), `QueueCommits`, and when it
carries the run link `DeployRelease`, `ListShipped`; then `SelectHeld` and
`MarkShipped` (the SELECT and the UPDATE of `mark_deployed`) and the loop
`NextTicket`, `FetchTicket`, `PostHeld`, `CloseHolds` or `CancelHolds`. `PostNow`
is the button of the nudge message and enters at `FetchTicket`. The job is
`NudgeTick` (the list of due holds), `NudgeNext` (the read of a ticket), `NudgeDM`
(the message, which names the holds of that list; Slack may refuse it) and
`NudgeMark` (`mark_nudged`, which marks every open hold of the ticket, named or
not). `Leave` is a reopen or a drop: it writes the status and leaves the holds
alone. `Age` lets `NUDGE_AFTER` pass. The history variable `raised` remembers of
each hold whether a DM has named it since its row was written, and whether Slack
took that DM.

Recognising an announcement, PR numbers and a run link is parsing: the PR set and
the flag are inputs of `AnnounceStart` and `EngineeringReply`. A root message is
handled once (Slack redelivery of it would only repeat an idempotent upsert).

`NudgePass` remembers in `owed` which holds were due when the pass in flight listed
them (`deploy_hold.py:259`), less those that a new resolve has started afresh since.
`PassServesAll` says of the end of a pass that each of them was named in a DM and is
marked, or waits no more; the job reads each ticket only when it comes to it, so much
may have happened meanwhile. Neither it nor `NudgeNet` speaks of a hold that was
already marked: see the end of section 4.

The status here is only "resolved" or "open"; `TicketLifecycle` has the rest. Its
`PostReply` step is the call into this module.

### LinearMirror and the code

The module composes the lifecycle with Linear. A handler's own part is the read
(its start, or `Get` for one that a webhook routed) and one `Write`;
`TicketLifecycle` takes that write apart. Then come its calls of `LinearSync`,
which are the subject here:

| Action | Code |
|---|---|
| `Submit` ... `ReturnToSe` | the handler's read and early return; `Submit` goes straight to the creation (`mirror_new_ticket`), a lane button skips the write if the lane is right (`lane_handoff.py:103-106`) |
| `Ensure`, `Create`, `Persist` | `_ensure_issue`: `get`, `create_issue`, `set_linear_issue`. A failed creation may have created the issue |
| `Reread`, `Push` | `sync_state` reads the ticket once more; `mark_done_silently` and `ensure_open_for_dev` push a fixed state |
| `NextCall`, `Finished` | the calls that follow: each looks for the issue again, and may create it |
| `MoveIssue` | a person moves or edits an issue; Linear sends its state |
| `Receive`, `Ignore`, `Lose` | the webhook, in any order, repeated or lost; the guards of `_apply_state_change` (`Acts`) on the ticket as `find_by_linear_issue_id` read it |
| `SweepStart`, `SweepNext`, `SweepRead` | `ReconcileLinear.execute`: the list of live tickets, read once, then one ticket after another from that list |
| `Fail` | the process dies or a database call raises |

`LinearSweep` remembers in `calm` whether the sweep in flight has lost nothing and
nobody has written a ticket or an issue beside it. `SweepCatchesUp` says of the end
of such a sweep what `reconcile.py:5` says, "repairs both": a live ticket has an
issue, which is open, and if the sweep read one, the ticket is as far as its issue.
A ticket of the dev lane that the sweep itself mirrors stays New beside an issue in
progress until the next sweep; that is `sweep_advances`, seen from its cause.

The filter on the bot's own actor id is taken to be configured, so its pushes do
not come back as webhooks. The reopen window is taken to be open, Urgent (the
column of an urgent new ticket) counts as triage, and what the calls write beside
the state of the issue (project, assignee, labels, priority) is left out; the
calls themselves are there, since each may create the issue.

### Ownership and the code

| Action | Code |
|---|---|
| `MoveToDev`, `ReturnToSe` | the lane buttons up to their reads (`lane_handoff.py`); a ticket already in the lane skips the write |
| `WriteLane`, `PickDev`, `WriteOwner` | `update_lane`; `list_group_members` and `_pick_dev`, a member of the Linear user map if the group has one (`Picks`); `update_dev_owner` or `update_se_owner` |
| `ReadAssignee`, `PostAssignee` | `sync_assignee`: it reads the row it pushes, and the call may fail; `assign_issue` does nothing for an owner outside the user map (`gateway.py:321-323`) |
| `Tell` | `_tell_customer_threads`, only after a real change of lane |
| `SetSeOwner` | the owner select (`se_owner_actions.py`, `apply_se_owner.py`) |
| `SubmitOoo`, `Upsert`, `ListOpen`, `MoveNext`, `CheckOwner` | `MarkOoo`: validation, the row, then `_move_open_tickets` over a list of tickets and of absences that was read once; `Reroute` and `Pick` of `Availability` are `reroute_if_away` and `pick_se_owner` |
| `MarkBack` | back by hand, or by date |
| `Reassign`, `Receive`, `IgnoreHook` | an assignee change in Linear and its webhook, `_apply_owner_change`; the lane of the snapshot decides the column |
| `Schedule`, `Fire` | `_schedule_owner_dm` and `_fire_owner_dm`: a burst keeps its origin and restarts its timer |
| `Fail`, `Restart` | a handler is lost; the process restarts, and with it the timers |

`owed` counts real moves to the dev lane minus messages about them and `raced`
remembers whether two things ever overlapped: both are history variables. `pick`
by load is any member of the pool, since the load is Linear's. `Mapped` is the
configured map from Slack to Linear users and may leave out anybody; `Outsider` is a
Linear user without a Slack mapping. Linear never shows an owner who is not mapped:
the issue keeps the name it had. `OwnersAgree` therefore asks for one name only where
the bot's owner is one whom Linear could show.

### Intake and the code

| Action | Code |
|---|---|
| `Detect`, `OpenPlain`, `OpenOnThread` | `DetectLogCheck`, `OpenIntakeModal` by command, shortcut or button, and its draft |
| `Submit`, `InApp`, `SubmitNewOrg`, `Slug`, `Upsert` | `on_se_bug_submit`, `from_in_app_webhook`, `create_org_from_intake` |
| `Find`, `Stash`, `Offer` | `_run_pipeline`: the candidate, the pending row, the message with its two buttons |
| `CreateNew`, `Merge` | `CreateNewInstead` and `MergeIntoExisting` on a pending row |
| `Owner`, `Create`, `AddOrg`, `Note` | the owner with the reroute, the ticket, `add_org`, the event |
| `Attach`, `Link`, `Tell` | `attach_source_thread`: whether the thread is on the ticket already, the link that moves it, the acknowledgement |
| `DropDraft`, `Unpend` | the draft, and at the very end the pending row |
| `SweepDraft`, `SweepPending` | `SweepEphemeralState` |
| `LinkThread`, `Retire`, `Absent`, `Fail` | the surroundings |

How alike two reports are is an input (`Topics`): reports of one topic are
candidates for each other.

### PriorityMatrix, Triage and the code

`PriorityMatrix` is `customer_weight`, `renewal_proximity_multiplier`, the
built-in matrix, the lookup in a loaded file and `AssignPriority`, with scores
times 200. `Triage` lets a ticket be logged with any priority of these functions
and then edited:

| Action | Code |
|---|---|
| `SetPriority`, `Reclassify`, `TogglePlatformWide`, `ToggleReplyNeeded`, `SetDeadline`, `AddOrg`, `SetStakeholder` | the read and the early return of each edit; `AddOrg` is the form and the merge |
| `WritePriority`, `WriteType`, `WriteReply`, `WriteDeadline`, `WriteOrg`, `WriteCsm` | its write, one transaction each |
| `Audit` | `append_prio_change`, `append_reclassification` |
| `ReadTicket`, `ReadOrgs`, `PostCard` | `refresh_card`: ticket, organisations and CSMs, message |
| `ReadPriority`, `PushPriority`, `RemoveLabel`, `AddLabel` | `sync_priority`, `sync_type_label` |
| `ReadForCount`, `Suggest` | `MultiCustomerBumpCheck`: the priority first, then the count |

`best` (the highest priority a ticket has had) is a history variable. The
messages that a reclassified ticket sends are left out.

### Reminders and the code

| Action | Code |
|---|---|
| `NagTick`, `NagSend`, `NagMark` | `UrgentNagJob`: the urgent tickets grouped by owner (the configured SE where there is none), one message per owner, a refused one logged and the next one sent, the hour marked in memory after the last |
| `DigestTick`, `DigestSend`, `DigestMark` | `OpenTicketsDigestJob`, marked in the database |
| `ReviewTick`, `ReviewSend`, `ReviewMark`, `Acknowledge`, `Snooze` | `MonthlyMatrixReview` and its two buttons; the mark writes the whole row back |
| `SlaTick` | `SLAStateMachine`, with `compute_state`, `stage_reference_time`, `applicable_stages` |
| `P0Tick` | `P0CandidateScan`, with its flags in memory |
| `Log`, `SetStatus`, `SetLane`, `SetOwner`, `SetDeadline`, `SetPriority`, `Spread` | what people do to tickets meanwhile; `SetOwner` is the owner select, `/ooo` or an assignee chosen in Linear |
| `Restart`, `CloseWindow`, `NextHour` | a restart empties the memory; time passes |

`SlaTick` and `P0Tick` are one step each, since nobody else writes what they
write. Time advances only after each loop that cares for the hour has run in it,
because the loops of `main.py` sleep shorter than the windows they serve; the
nag, whose window is the first five minutes of an hour, has them to itself. After a
restart in those minutes they may end before the nag runs again. The SE's time zone is
UTC. These are assumptions of the model, and the properties say nothing of a process
that is down through a whole window.

`NagOnTheHour` follows pairs of a ticket and its owner (`urgentSince`), so that an
owner who loses or gets a ticket within the window is owed nothing for it; `refused`
and `restarts` count for the present hour and for the owner concerned only. For the
digest, `lost` exempts the window in which it was refused or cut, and no later one.
Of owners, lanes and deadlines only those of the tickets are modelled that a job looks
at: an urgent ticket is logged without a deadline. A target is None where
nothing is promised (no clock runs), and 0 is a target that is missed at once.

## 3. Overlapping and serial behaviours

In `TicketLifecycle`, `DeployHold` and `LinearMirror`, `Spec` lets handlers
overlap in every way, and `SerialSpec` conjoins `NoOverlap`: no
two handlers of one ticket at once (in `DeployHold`, no two handlers at all, and
no reopen during one; in `LinearMirror`, handlers, sweeps and moves of an issue one
at a time, webhooks delivered before the next of them starts, and the lane
buttons clicked only on a live ticket, whose card shows them). `Ownership`,
`Intake` and `Triage` have one `Spec` and a history variable `raced` that turns
true when something starts while something else is in flight; a property about
handlers one at a time has `~raced` as a condition, and a behaviour that has raced
is cut after `MaxRaces` handlers, so that one run has both long behaviours without
races and shorter ones with them. **Nothing in the code keeps handlers apart.** It
is the usual case, since a handler takes under a second, and it is the assumption
under which the comments in the code are right. The properties are split
accordingly:

- without a condition, what a reader of the database can rely on always;
- under `SerialSpec` or `~raced`, what the code intends; a failure there would be
  a plain logic error;
- violation runs, the statements in the source that overlap (or, once, a plain
  sequence of calls) breaks.

`TicketLifecycle!Contract` is `TicketContract` under the refinement mapping
`state <- status, responded <- firstResponseAt, dropped <- closedAt,
answers <- told, clock <- today`; `ContractSpec` is its specification. Every step
of a handler, run one at a time per ticket, is one step of the contract or a
stutter. Two overlapping resolves break it, which is the run `double_post`.

## 4. Runs

| Run | Checks | Shows |
|---|---|---|
| `lifecycle_overlap` | `StampsExplainStatus`, `AuditExplainsStatus`, `ResolvedIsTold` | three handlers in any interleaving, any of them lost |
| `lifecycle_serial` | `LogIsChain`, `CardFollowsStatus`, `ReopenWithinWindow`, `ContractSpec` under `SerialSpec` | four handlers in a row over three days; refinement of `TicketContract` |
| `double_post` | `NoDoublePost` violated | two resolves pass the guard together |
| `hold_nudge` | `ShippedOnlyIfDeployed`, `NudgeNet`, `PassServesAll` under `PassFairSpec` | a ticket with two PRs, a handler and the nudge job in any interleaving: nothing ships early, an overdue hold that is not marked yet gets into a DM, sent or refused, and a pass leaves out none that it listed |
| `hold_serial` | `ToldOrWaiting`, `ReplyAfterAllShipped`, `NoMissedDeploy`, `NoStrandedHold`, `ReplyOnlyWhenResolved` under `SerialSpec` | five handlers in a row with reopens between them |
| `mirror_serial` | `InSync`, `CreateOnce` under `SerialSpec` | ticket and issue agree whenever nothing is in flight and nothing got lost; one issue per ticket |
| `mirror_fair` | `EventuallyMirrored`, `EventuallyReflected`, `SweepCatchesUp` under `SweepFairSpec` | overlap, loss and repetition included, the sweep catches up, and one calm sweep is enough |
| `sweep_advances` | `OnlyPeopleMove` violated under `SerialSpec` | the sweep starts work nobody started |
| `ownership` | `HandoffTold`, `OwnersAgree`, `SeOwnerKept`, `MovedOff`, `SettledIsTold` | lane buttons, owner changes on both sides, absences and the owner message; the customer hears of each move, lane and owners agree (as far as Linear can show the owner), the absentee is left without tickets |
| `intake` | `PendingUntilDone`, `OneOutcome`, `ToldItsTicket`, `OrgsKept` | two reports against Merge, Create anyway, the sweeper and lost handlers: each comes to one end |
| `triage` | `SubtypeFits`, `SuggestedInTime`, `NobodyOvertaken`, `LinearFollows`, `AuditLeadsHere`, `CardFresh` | all edits of a ticket, up to four organisations |
| `reminders` | `NagOnTheHour`, `DueIsTold`, `ReviewOnceAMonth`, `CandidatesTold`, `ClocksOnlyRise` | three days and two months of five loops over two tickets of two owners, with owner changes and other edits, and a restart or a refused message |

**Bounds.** One ticket: handlers of different tickets share no row, and the holds
of two tickets meet only in `mark_deployed`, the release loop and the nudge job,
which treat them one by one. `hold_nudge` has one ticket with two PRs, so that the
DM and the mark can be about different holds; its one handler slot runs beside the
job, and three handlers resolve, reopen, resolve again or release. Three handlers (`MaxRuns`) are enough for each race that is
listed, all of which are between two, with a third to disturb them; the serial
runs have four to six handlers, so that drop, reopen, resolve, reopen (or
announce, resolve, ship, reopen, resolve) fits. `ReopenWindow` is 0 or 1 day and
`MaxDay` one more, so that both sides of the window are reached. Two PRs in
`hold_serial`, because "all of them" needs two; one release thread, since a second
one adds only more ways to list a PR. In `LinearMirror` three moves
(`MaxMoves`) leave room for a move, one back and one more, and `MaxRuns` and
`MaxMoves` end, so that the fair run reaches sweeps that nobody disturbs: the
liveness properties are claims about a system left alone for a while, since
someone who moves an issue back and forth can keep it ahead of every sweep. That
run has one handler slot beside the sweep, three handlers and one loss.

`ownership` has four handlers apart or two that race, two SEs (one to be out and
one to cover) and two developers, one of each in the user map and one outside it, two
changes of assignee in Linear (a change and one back within a burst) and one loss. `intake` has two reports of one topic, so that
the second is put aside for the first, one customer's thread and one internal
thread, two organisations with one name, and one event beside the handlers.
`triage` has four organisations with thresholds 3 and 4 instead of 3 and 5, since
the ticket starts with one and four handlers can add three. `reminders` has two
urgent tickets and two owners, so that one message of a run can be refused and the
other one not; the three hours in which something fires, a month of two days so that
two months begin within the three days, and a start on a Sunday so that a weekend is
reached; two events of the world and one fault. The weights and the matrix of
`PriorityMatrix` are enumerated in full, with the boundary days of each threshold.

`MaxFaults` is 1, or 0 where a violation must not depend on a
loss. The runs do not check deadlock: a behaviour ends when the bound is used up,
and the bot may always be idle. The symmetries are sound because
no definition names a slot, a report, an organisation or, in `Reminders`, a ticket;
people are not permuted in `ownership` and `reminders`, where the user map and the
configured SE tell them apart. The liveness runs use none.

**Fairness.** Only `hold_nudge` and `mirror_fair` need it. asyncio runs every ready handler, so
each slot has weak fairness of its next step; a handler that is lost instead is a
`Fail` step, which stays possible and is bounded. The nudge loop sleeps 15
minutes and catches every exception (`deploy_hold.py:280-286`), hence weak
fairness of `NudgeTick`. The sweep sleeps 10 minutes and catches every exception
too (`reconcile.py:86-92`), and the one around each ticket keeps one failure from
ending the pass, hence weak fairness of `SweepStart`. Weak fairness is enough: nothing but the step itself
disables a handler's step. No fairness is assumed of people, Slack or GitHub. In
`Reminders` a deadline takes the place of fairness: the clock waits for the loops.

### Where the code and its comments disagree

Shown by a run:

1. `resolve.py:163-164`: the guard "stops a second run from double-posting". Two
   resolves that overlap (modal and Linear Done, or webhook and sweep) both post
   (`double_post`).
2. `reconcile.py:11-12`: "a ticket already in sync is a no-op", and
   `lane_handoff.py:26`: "status stays as-is". Move to Dev on a new ticket puts
   its issue into In Progress, as `mapping.py:90-93` wants; the next sweep replays
   that, moves the ticket to in progress and stamps `first_response_at`
   (`sweep_advances`).

Met while reading, and left outside the properties:

- `reopen.py:10-11`: "A `Resolved` ticket has no `closed_at`, so it always
  reopens". A ticket that was dropped before has one, and the window applies
  (`reopen.py:94`).
- `deploy_hold.py:14`: "released only once all of them have shipped". The holds
  are inserted one by one (`deploy_hold.py:116`), and a release in between sees
  only the first. A run link between the query (`deploy_hold.py:111`) and the
  insert is missed until the nudge.
- `InSync` is stated for behaviours without a loss. When the push of a resolve or
  a drop is lost, the ticket is no longer live and no sweep looks at its issue
  again; when the push of a reopen is lost, the next sweep reads Done and resolves
  the ticket again. `sync.py:7-8` says of an outage that "the reconcile sweep
  (Chunk D) repairs any drift later", `reconcile.py:16-18` that it never pushes;
  the code does what the second says.
- `deploy_hold.py:237`: "DM the SE once about a hold still waiting after 3 days".
  `mark_nudged` marks every open hold of the ticket (`deploy_holds.py:177-183`), also
  one that is not due yet, or that a resolve added or restarted after the list: the DM
  does not name it and none follows. A DM that Slack refused is not repeated either
  ("regardless of DM success", `deploy_hold.py:275`). Such a hold waits in silence
  until its PR ships or somebody looks.
- `lane_handoff.py:200`: "the issue will stay with the SE" when no developer of the
  group is in the user map. It stays with whomever Linear shows, who need not be the
  SE owner; and `gateway.py:319-320`, "an unmapped SE owner simply leaves the Linear
  issue unassigned", is so only if it was unassigned before.
- A hold of an earlier resolve on another PR stays open through a reopen and the next
  resolve. If that one replies at once, the old hold replies again when its PR ships.
- An owner change in Linear that is changed back within the burst is silent
  (`inbound.py:274`), as intended; so is one whose first webhook was lost.
- A snooze of the monthly review for 7 days brings it back on the first of a later
  month only, since the job looks at the date first (`monthly_review.py`).
- `matrix.py` says the matrix is reloaded weekly; `reload_if_stale` has no caller.
- `targets.py:146` says RED to AMBER should not happen; it does when a lower
  priority gives a longer target. `ClocksOnlyRise` allows just that.


## 5. Proofs

All hold for every number of tickets, handlers, PRs, releases, organisations and
people, and for every bound. The assumptions are the named `ConstantsAssumption`
of each module: bounds are naturals; a null value is not one of the values it
stands beside; the slot of the nudge job or the sweep is not a handler's; in
`Ownership` the slots are finitely many; in `Triage` the two thresholds of the
suggestion are more than 2 and in order, and the subtypes on offer fit their
types; in `Reminders` there are finitely many hours, from 0 to 23, and each
priority has a target, a natural, for every stage. TLC evaluates each assumption on the instances.

| Theorem | Property | Argument |
|---|---|---|
| `TicketLifecycleProofs!TypeCorrect` | `TypeOK` | inductive by itself, because it also says what a handler in flight has read |
| `StampsAlwaysExplain`, `AuditAlwaysExplains`, `ResolvedAlwaysTold` | as named | `OverlapInv`. The properties speak of a ticket at rest, or of columns that another handler's flush could miss. The invariant adds what a handler in flight still owes: one that loaded an answered row means the stamp is there, one on its way to the event or the reply stands for what is missing |
| `LogAlwaysChain`, `CardAlwaysFollows`, `RevivalInWindow` | as named | `SerialInv`: at most one handler per ticket, what it read is still true (`HandlerKnows`), and the log, the card and the reply trail the status by exactly the steps its `pc` has left (`TicketTrails`) |
| `TicketKeepsContract` | `ContractSpec` | refinement with the mapping of section 3; each handler step is one contract step or a stutter, by `SerialInv` |
| `DeployHoldProofs!TypeCorrect` | `TypeOK` | inductive by itself |
| `NothingShipsEarly` | `ShippedOnlyIfDeployed` | `ShipInv`: a handler between the run link and `mark_deployed` carries only PRs that a deployed thread lists; releases only grow (`ReleasesGrow`) |
| `PassAlwaysServesAll` | `PassServesAll` | `PassInv`, under any overlap: a hold the pass owes is served (named and marked, or waiting no more), or its ticket is still on the list, or the pass is at it and, if the mark comes next, the DM has named it. A served hold stays so (`ServedStays`): only a new resolve makes it wait again, unmarks it or forgets its DM, and then it is not due |
| `NobodyForgotten`, `NothingStranded`, `ToldAfterShipping`, `NoDeployMissed`, `RepliesFindItResolved` | `ToldOrWaiting`, `NoStrandedHold`, `ReplyAfterAllShipped`, `NoMissedDeploy`, `ReplyOnlyWhenResolved` | `SerialInv`: one slot is in charge, what it read of its ticket and its release is still true (`KnowsTicket`, `KnowsRelease`), and `Books`: holds, replies and releases fit together except for what the slot in charge has still to do. The five depend on each other: a reply comes after all PRs because no deploy was missed, and none is missed because every PR of the fix has its row |
| `LinearMirrorProofs!TypeCorrect` | `TypeOK` | inductive by itself, because it says what a handler at each step holds: its ticket, an issue that exists, and for the sweep its list with issues that exist |
| `NeverTwoIssues` | `CreateOnce` | `OnceInv`: every issue of a ticket is the one its row names, except one that the slot in charge is about to persist; the sweep's list still says which tickets have none |
| `AlwaysInSync` | `InSync` | `SyncInv`, on top of `OnceInv`: the issue agrees with the ticket, or the slot in charge is pushing the one or taking over the other, or the webhook that tells is pending. Each kind of handler carries what it knows from its read to its push (`KnowsOf`, `Suits`) |
| `LinearSweepProofs!NeverAnothersIssue` | none | `OwnInv`, under any overlap and loss: a handler between the creation and the last push carries an issue of its own ticket, and the sweep's list names for each ticket an issue of its own. With it two tickets never share an issue |
| `SweepAlwaysCatchesUp` | `SweepCatchesUp` | `SweepInv`: while a sweep is calm, a ticket still on its list is as it was read (`Untouched`), one that it has left has nothing to catch up with (`Caught`), and at the one it is at, each step knows what the rest will write (`AtTicket`). Pushing to one ticket's issue moves no other ticket's, by `OwnInv` |
| `OwnershipProofs!TypeCorrect` | `TypeOK` | inductive by itself |
| `HandoffAlwaysTold` | `HandoffTold` | `MessagesTrail`: what a ticket's customer is owed is at most the number of handlers between the write of the lane and the message. Without a race it is never negative, and at least one while a message is to come. Finite cardinalities (`FiniteSetTheorems`) |
| `SeOwnerAlwaysKept` | `SeOwnerKept` | `HandlersKnow`: without a race, the column that a handler of an assignee change is about to write belongs to the lane its ticket is still in (`Role`, `Alone`) |
| `OwnersAlwaysAgree`, `AbsenteeAlwaysMovedOff`, `SettledAlwaysTold` | `OwnersAgree`, `MovedOff`, `SettledIsTold` | `AgreeInv`: without a race a ticket is settled, or the webhook that settles it is pending, or the one handler at work has yet to push its assignee (`Settled`, `Busy`); what that handler has read is still true (`Knows`); the live tickets an absentee still has are those on the list of the `/ooo` that is moving them (`Moving`). Race or not, the origin of a burst is who held the ticket before it, or nobody (`BurstKnows`) |
| `IntakeProofs!TypeCorrect` | `TypeOK` | inductive by itself |
| `AlwaysPendingUntilDone` | `PendingUntilDone` | `Waiting`: a report that was offered has its pending row or is done, and a handler on the way to removing the row already has the ticket or the merge that ends the report (`Tracked`) |
| `AlwaysOneOutcome`, `AlwaysToldItsTicket`, `OrgsAlwaysKept` | `OneOutcome`, `ToldItsTicket`, `OrgsKept` | `SerialInv`: without a race one slot is in charge, and every other report is at rest: unsent and without an end, or waiting with its pending row, or ended once and without it (`AtRest`). The slot's own report has no end until the ticket or the merge is written, and its row until the last step (`KnowsReport`); its thread is on its ticket before it is told (`KnowsThread`). A form may open meanwhile, on another report. `OrgsKept` needs no more than that the slug found free stays free |
| `TriageProofs!TypeCorrect` | `TypeOK` | inductive by itself |
| `SubtypeAlwaysFits` | `SubtypeFits` | every handler that carries a type carries a subtype of it, and both are one write |
| `AlwaysSuggestedInTime` | `SuggestedInTime` | `CountTrails`: as long as the organisations of a ticket ask for more than was suggested, some handler has yet to count them (`Counted`); `BestKnown`: one about to suggest compares with a priority no better than the ticket's best |
| `LinearAlwaysFollows`, `AuditAlwaysLeads`, `CardAlwaysFresh` | `LinearFollows`, `AuditLeadsHere`, `CardFresh` | `FollowInv`: without a race one slot is in charge; what it read is still true (`Knows`), what its remaining steps will write is all that is missing (`Books`), and what it has read for the card is what the tables say (`Drawn`) |
| `MatrixNeverP0` | none | `LoggedWith` is within 1 to 4: by cases over the built-in cells, and over what the loader makes of a cell of a file |
| `MoreIsNeverLess`, `NobodyEverOvertaken` | none, `NobodyOvertaken` | for any integer of days, not only those beside the thresholds: each of the three factors is monotone, products of naturals are (`Products`), so is the score; then by cases, a higher score is no lower a weight, and no cell of a higher weight has a lower priority |
| `RemindersProofs!TypeCorrect` | `TypeOK` | inductive by itself; the first hour of a set and the next one exist (`FirstHour`) |
| `NagAlwaysOnTheHour`, `DueAlwaysTold`, `ReviewAlwaysOnceAMonth`, `CandidatesAlwaysTold` | `NagOnTheHour`, `DueIsTold`, `ReviewOnceAMonth`, `CandidatesTold` | `Inv`: the marker of a job and its run in flight say what it has told in this hour or month (`DigestKnows`, `ReviewKnows`, `P0Knows`: as long as it lost nothing; `NagKnows` always: each ticket and owner that have been urgent together all hour are on the list of the run in flight, or the owner was reminded or refused himself, or the loop has yet to run since the restart; and an owner was reminded at most once per start). A marker is never of a time to come (`Past`), so a new hour finds none; that a month begins on the first, whatever its length, is a fact of division (`NewMonth`) |
| `ClocksAlwaysRise` | `ClocksOnlyRise` | `ClocksTrail`: a clock's state is at most what its ticket's waiting time and its recorded target give now, and both the time and, without a longer target, the state only rise (`Redder`). Needed, since a clock keeps its row while it does not run |

`TypeOK` of `DeployHold`, `LinearMirror`, `Triage`, `Intake`, `Ownership` and `Reminders` is proved and no run
checks it. The second part of `TicketLifecycleProofs` and `DeployHoldProofs`, and
the second and third of `LinearMirrorProofs`, prove facts of `SerialSpec`, under
the assumption of section 3.

Only model-checked is liveness: `NudgeNet`, `EventuallyMirrored`,
`EventuallyReflected`. `PassServesAll` and `SweepCatchesUp` are their safety
halves, which are proved: what one pass of the loop achieves. Fairness and `ENABLED` are out of the prover's reach.

No module declares a RECURSIVE operator; what is summed or searched is a fold, a
set or a recursive function.

## 6. Not modelled

- **Parsing, layout, wording.** What text is an announcement, a PR link, a run
  link or a request for help, and what a modal or a card looks like. These are
  inputs. So is how alike two reports are (`dedupe.py`).
- **Messages that change no state** and that no property is about: direct messages
  to CSMs, reactions, comms events, the messages of a reclassified ticket,
  forwarded mentions.
- **Outside services.** HTTP, HMAC signing, GraphQL; a call is what it does, or
  that it fails. The summariser is one such call.
- **Linear beyond state, priority, type label and assignee**: the project, the
  organisation labels, and the column Urgent, which counts as triage.
- **Ticket links, the board, the report and articles**: rows that nothing else
  reads, or read-only rendering.
- **The community sweep**: a daily job with a table of its own.
- **The cool-down of the detector** per thread, which only makes it quieter.
- **Configuration and migrations.** That the loops run, and how often, is taken
  from `main.py`.

SQLite is taken to run each transaction atomically and the clock not to run
backwards. Two processes over one database are out of scope (`fly.toml` runs one
machine). In `TicketLifecycle` several customer threads of a ticket are one
addressee; `Intake` has which threads are on which ticket.

## 7. What is left

1. Two tickets in `LinearMirror` and `hold_serial`, and more than one release
   thread: the proofs cover them, no run does.
2. `InSync` with losses. Of live tickets `SweepCatchesUp` says what a sweep leaves
   behind; of retired ones, which no sweep looks at (section 4), the set of states in
   which a ticket and its issue may disagree could be stated.
3. Ticket links and the messages of a reclassified ticket.

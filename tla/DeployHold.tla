----------------------------- MODULE DeployHold -----------------------------
(***************************************************************************)
(* The deploy hold: a resolve that carries a PR of the watched repository  *)
(* keeps its customer reply back until a release thread in #engineering    *)
(* has listed the PR and posted its run link.                              *)
(*                                                                         *)
(* The handlers share five tables and no lock: the ticket, the releases,   *)
(* their PRs, the holds, and the nudge marks on the holds.  Each step of a *)
(* task is one repository or Slack call; what the handler read stays in    *)
(* its task record.  The status of a ticket is only resolved or not:       *)
(* TicketLifecycle has the rest of it.                                     *)
(***************************************************************************)
EXTENDS Naturals, FiniteSets

CONSTANTS
  Tickets,
  PRs,        \* PRs of the watched repository
  Releases,   \* release threads in #engineering
  Tasks,      \* slots of the handlers that Slack and Linear start
  Nudger,     \* the slot of DeployHoldNudgeJob's loop
  MaxRuns,    \* bound: how many handlers a behaviour starts
  MaxFaults,  \* bound: how many handlers or replies a behaviour loses
  None

ASSUME ConstantsAssumption ==
  /\ MaxRuns \in Nat
  /\ MaxFaults \in Nat
  /\ Nudger \notin Tasks
  /\ None \notin Tickets /\ None \notin Releases

VARIABLES
  status,    \* tickets.status
  known,     \* releases: the threads with a row
  deployed,  \* releases.deployed_at: the threads with a run link
  prsOf,     \* release_prs
  hold,      \* deploy_holds: one row per ticket and PR
  due,       \* the holds older than NUDGE_AFTER
  nudged,    \* deploy_holds.nudged_at
  task,      \* the handlers in flight
  runs,      \* bound: handlers started so far
  faults,    \* bound: handlers and replies lost so far
  told,      \* history: replies since the ticket last became resolved
  fix,       \* history: the PRs of the resolve that last made it resolved
  manual,    \* history: has a button posted a reply since that resolve?
  raised     \* history: did a nudge DM list the hold since its row was written?

vars == <<status, known, deployed, prsOf, hold, due, nudged, task, runs, faults,
          told, fix, manual, raised>>
releaseVars == <<known, deployed, prsOf>>
holdVars == <<hold, due, nudged>>
history == <<told, fix, manual, raised>>

Slots == Tasks \cup {Nudger}
Holds == Tickets \X PRs

\* A hold is open while it waits for its PR, and after the PR has shipped
\* until the reply is released; `none` is a row that was never inserted.
HoldStates == {"none", "waiting", "shipped", "released", "cancelled"}
OpenStates == {"waiting", "shipped"}

\* A DM that listed the hold has arrived, or Slack has refused it.
Raised == {"never", "sent", "refused"}

PCs == {"idle", "resolve", "query", "hold", "reply",           \* a resolve
        "upsert", "announce",                                  \* a root message
        "queue", "deploy", "list", "select", "mark",           \* a thread reply
        "tickets", "fetch", "post", "close", "cancel",         \* a release
        "nudge", "nudge_dm", "nudge_mark"}                     \* a nudge tick

\* A handler at step pc of ticket t or release r, with the PRs it is about.
Handler(pc, t, r, prs) ==
  [pc |-> pc, ticket |-> t, release |-> r, prs |-> prs, run |-> FALSE,
   seen |-> "pending", byHand |-> FALSE, queue |-> {}, listed |-> {}]

NoTask == Handler("idle", None, None, {})

TaskRecord == [pc: PCs, ticket: Tickets \cup {None}, release: Releases \cup {None},
               prs: SUBSET PRs, run: BOOLEAN, seen: {"pending", "deployed"},
               byHand: BOOLEAN, queue: SUBSET Tickets, listed: SUBSET Holds]

OfTicket == {"resolve", "query", "hold", "reply", "fetch", "post", "close", "cancel",
             "nudge_dm", "nudge_mark"}
OfRelease == {"upsert", "announce", "queue", "deploy", "list"}

TablesTypeOK ==
  /\ status \in [Tickets -> {"open", "resolved"}]
  /\ known \in SUBSET Releases
  /\ deployed \in SUBSET Releases
  /\ prsOf \in [Releases -> SUBSET PRs]
  /\ hold \in [Holds -> HoldStates]
  /\ due \in SUBSET Holds
  /\ nudged \in SUBSET Holds

TaskTypeOK ==
  /\ task \in [Slots -> TaskRecord]
  /\ \A k \in Slots : /\ task[k].pc \in OfTicket => task[k].ticket \in Tickets
                      /\ task[k].pc \in OfRelease => task[k].release \in Releases

HistoryTypeOK ==
  /\ runs \in Nat
  /\ faults \in Nat
  /\ told \in [Tickets -> Nat]
  /\ fix \in [Tickets -> SUBSET PRs]
  /\ manual \in [Tickets -> BOOLEAN]
  /\ raised \in [Holds -> Raised]

TypeOK == TablesTypeOK /\ TaskTypeOK /\ HistoryTypeOK

Init ==
  /\ status = [t \in Tickets |-> "open"]
  /\ known = {}
  /\ deployed = {}
  /\ prsOf = [r \in Releases |-> {}]
  /\ hold = [h \in Holds |-> "none"]
  /\ due = {}
  /\ nudged = {}
  /\ task = [k \in Slots |-> NoTask]
  /\ runs = 0
  /\ faults = 0
  /\ told = [t \in Tickets |-> 0]
  /\ fix = [t \in Tickets |-> {}]
  /\ manual = [t \in Tickets |-> FALSE]
  /\ raised = [h \in Holds |-> "never"]

-----------------------------------------------------------------------------
(* Helpers.                                                                *)

OpenHolds(t) == {h \in Holds : h[1] = t /\ hold[h] \in OpenStates}
Waiting(t) == {h \in OpenHolds(t) : hold[h] = "waiting"}

\* deployed_prs: the PRs that some release with a run link lists.
DeployedPRs == UNION {prsOf[r] : r \in deployed}

AllIdle == \A k \in Slots : task[k].pc = "idle"

Goto(k, pc) == task' = [task EXCEPT ![k].pc = pc]
Return(k) == task' = [task EXCEPT ![k] = NoTask]

\* A Slack or Linear event starts a handler with what it carries.
Begin(k, record) ==
  /\ k \in Tasks
  /\ task[k].pc = "idle"
  /\ runs < MaxRuns
  /\ runs' = runs + 1
  /\ task' = [task EXCEPT ![k] = record]
  /\ UNCHANGED <<status, releaseVars, holdVars, faults, history>>

\* close_for_ticket: every open hold of the ticket gets the new state.
CloseFor(t, state) ==
  hold' = [h \in Holds |-> IF h \in OpenHolds(t) THEN state ELSE hold[h]]

\* post_resolved.  The Slack gateway swallows an error, so a reply that got
\* lost looks like one that was sent.
Tell(t) ==
  \/ /\ told' = [told EXCEPT ![t] = @ + 1]
     /\ UNCHANGED faults
  \/ /\ faults < MaxFaults
     /\ faults' = faults + 1
     /\ UNCHANGED told

-----------------------------------------------------------------------------
(* A resolve: ResolveTicket.execute down to hold_or_post.                  *)

\* It has read a ticket that is not resolved; prs are the watched PRs of the
\* fix (none for a resolve without a code change).
ResolveStart(k, t, prs) ==
  /\ status[t] # "resolved"
  /\ Begin(k, Handler("resolve", t, None, prs))

\* update_status to RESOLVED, whatever the status is by now.
ResolveWrite(k) ==
  LET t == task[k].ticket IN
  /\ task[k].pc = "resolve"
  /\ status' = [status EXCEPT ![t] = "resolved"]
  /\ told' = [told EXCEPT ![t] = IF status[t] = "resolved" THEN @ ELSE 0]
  /\ manual' = [manual EXCEPT ![t] = IF status[t] = "resolved" THEN @ ELSE FALSE]
  /\ fix' = [fix EXCEPT ![t] = IF status[t] = "resolved" THEN @ ELSE task[k].prs]
  /\ Goto(k, "query")
  /\ UNCHANGED <<releaseVars, holdVars, runs, faults, raised>>

\* hold_or_post: which of the PRs have not shipped yet?
QueryDeployed(k) ==
  LET pending == task[k].prs \ DeployedPRs IN
  /\ task[k].pc = "query"
  /\ task' = [task EXCEPT ![k].prs = pending,
                          ![k].pc = IF pending = {} THEN "reply" ELSE "hold"]
  /\ UNCHANGED <<status, releaseVars, holdVars, runs, faults, history>>

\* post_resolved at once.
ReplyNow(k) ==
  /\ task[k].pc = "reply"
  /\ Tell(task[k].ticket)
  /\ Return(k)
  /\ UNCHANGED <<status, releaseVars, holdVars, runs, fix, manual, raised>>

\* Mutant of AddHold: INSERT OR IGNORE keeps an old row as it is.
AddHoldIgnore(k) ==
  /\ task[k].pc = "hold"
  /\ \E p \in task[k].prs :
       LET h == <<task[k].ticket, p>>  left == task[k].prs \ {p} IN
       /\ hold' = [hold EXCEPT ![h] = IF @ = "none" THEN "waiting" ELSE @]
       /\ IF left = {} THEN Return(k) ELSE task' = [task EXCEPT ![k].prs = left]
  /\ UNCHANGED <<status, releaseVars, due, nudged, runs, faults, history>>

\* holds.add for each pending PR, one transaction each: a fresh row replaces
\* whatever an earlier resolve on the same PR left.
AddHold(k) ==
  /\ task[k].pc = "hold"
  /\ \E p \in task[k].prs :
       LET h == <<task[k].ticket, p>>  left == task[k].prs \ {p} IN
       /\ hold' = [hold EXCEPT ![h] = "waiting"]
       /\ due' = due \ {h}
       /\ nudged' = nudged \ {h}
       /\ raised' = [raised EXCEPT ![h] = "never"]
       /\ IF left = {} THEN Return(k) ELSE task' = [task EXCEPT ![k].prs = left]
  /\ UNCHANGED <<status, releaseVars, runs, faults, told, fix, manual>>

-----------------------------------------------------------------------------
(* #engineering: on_engineering_message.                                   *)

\* A root message announces a release and lists its PRs.
AnnounceStart(k, r, prs) ==
  /\ r \notin known
  /\ \A j \in Slots : task[j].release # r
  /\ Begin(k, Handler("upsert", None, r, prs))

UpsertRelease(k) ==
  /\ task[k].pc = "upsert"
  /\ known' = known \cup {task[k].release}
  /\ Goto(k, "announce")
  /\ UNCHANGED <<status, deployed, prsOf, holdVars, runs, faults, history>>

AnnouncePRs(k) ==
  LET r == task[k].release IN
  /\ task[k].pc = "announce"
  /\ prsOf' = [prsOf EXCEPT ![r] = @ \cup task[k].prs]
  /\ Return(k)
  /\ UNCHANGED <<status, known, deployed, holdVars, runs, faults, history>>

\* A reply in a known thread: it may list more PRs and may carry the run
\* link.  `seen` is deployed_at as releases.get returned it.
EngineeringReply(k, r, prs, run) ==
  /\ r \in known
  /\ Begin(k, [Handler("queue", None, r, prs) EXCEPT
                !.run = run,
                !.seen = IF r \in deployed THEN "deployed" ELSE "pending"])

\* Mutant of QueueCommits: PRs listed after the run link are only stored.
QueueCommitsOnly(k) ==
  LET r == task[k].release IN
  /\ task[k].pc = "queue"
  /\ prsOf' = [prsOf EXCEPT ![r] = @ \cup task[k].prs]
  /\ IF task[k].seen = "pending" /\ task[k].run THEN Goto(k, "deploy") ELSE Return(k)
  /\ UNCHANGED <<status, known, deployed, holdVars, runs, faults, history>>

\* Mutant of QueueCommits: a reply without a run link ships what it lists.
QueueCommitsShip(k) ==
  LET r == task[k].release IN
  /\ task[k].pc = "queue"
  /\ prsOf' = [prsOf EXCEPT ![r] = @ \cup task[k].prs]
  /\ IF task[k].seen = "pending" /\ task[k].run THEN Goto(k, "deploy") ELSE Goto(k, "select")
  /\ UNCHANGED <<status, known, deployed, holdVars, runs, faults, history>>

\* add_prs; then, on the snapshot: a deployed thread ships what the reply
\* lists, another one needs the run link.
QueueCommits(k) ==
  LET r == task[k].release IN
  /\ task[k].pc = "queue"
  /\ prsOf' = [prsOf EXCEPT ![r] = @ \cup task[k].prs]
  /\ IF task[k].seen = "deployed" THEN Goto(k, "select")
     ELSE IF task[k].run THEN Goto(k, "deploy")
     ELSE Return(k)
  /\ UNCHANGED <<status, known, deployed, holdVars, runs, faults, history>>

\* releases.mark_deployed.
DeployRelease(k) ==
  /\ task[k].pc = "deploy"
  /\ deployed' = deployed \cup {task[k].release}
  /\ Goto(k, "list")
  /\ UNCHANGED <<status, known, prsOf, holdVars, runs, faults, history>>

\* releases.list_prs: the PRs the thread has by now.
ListShipped(k) ==
  /\ task[k].pc = "list"
  /\ task' = [task EXCEPT ![k].prs = prsOf[task[k].release], ![k].pc = "select"]
  /\ UNCHANGED <<status, releaseVars, holdVars, runs, faults, history>>

\* holds.mark_deployed, its SELECT: the tickets with an open hold on the PRs.
SelectHeld(k) ==
  /\ task[k].pc = "select"
  /\ task' = [task EXCEPT
                ![k].pc = "mark",
                ![k].queue = {t \in Tickets : \E h \in OpenHolds(t) : h[2] \in task[k].prs}]
  /\ UNCHANGED <<status, releaseVars, holdVars, runs, faults, history>>

\* Its UPDATE: every open hold on the PRs has shipped.
MarkShipped(k) ==
  /\ task[k].pc = "mark"
  /\ hold' = [h \in Holds |-> IF hold[h] = "waiting" /\ h[2] \in task[k].prs
                                THEN "shipped" ELSE hold[h]]
  /\ Goto(k, "tickets")
  /\ UNCHANGED <<status, releaseVars, due, nudged, runs, faults, history>>

-----------------------------------------------------------------------------
(* Releasing a ticket's reply: _release_prs, post_now, _release_ticket.    *)

\* The button on the nudge DM; list_open_for_ticket found an open hold.
PostNow(k, t) ==
  /\ OpenHolds(t) # {}
  /\ Begin(k, [Handler("fetch", t, None, {}) EXCEPT !.byHand = TRUE])

\* Mutant of NextTicket: it does not look at the ticket's other holds.
NextTicketEager(k) ==
  /\ task[k].pc = "tickets"
  /\ \/ /\ task[k].queue = {}
        /\ Return(k)
     \/ \E t \in task[k].queue :
          task' = [task EXCEPT ![k].queue = @ \ {t}, ![k].ticket = t, ![k].pc = "fetch"]
  /\ UNCHANGED <<status, releaseVars, holdVars, runs, faults, history>>

\* The next ticket of the loop; one with a hold still waiting is passed over.
NextTicket(k) ==
  /\ task[k].pc = "tickets"
  /\ \/ /\ task[k].queue = {}
        /\ Return(k)
     \/ \E t \in task[k].queue :
          task' = IF Waiting(t) # {}
                    THEN [task EXCEPT ![k].queue = @ \ {t}]
                    ELSE [task EXCEPT ![k].queue = @ \ {t}, ![k].ticket = t,
                                      ![k].pc = "fetch"]
  /\ UNCHANGED <<status, releaseVars, holdVars, runs, faults, history>>

\* Mutant of FetchTicket: it posts whatever the status.
FetchTicketBlind(k) ==
  /\ task[k].pc = "fetch"
  /\ Goto(k, "post")
  /\ UNCHANGED <<status, releaseVars, holdVars, runs, faults, history>>

\* Mutant of FetchTicket: a ticket that left RESOLVED keeps its holds.
FetchTicketSkips(k) ==
  /\ task[k].pc = "fetch"
  /\ Goto(k, IF status[task[k].ticket] = "resolved" THEN "post" ELSE "tickets")
  /\ UNCHANGED <<status, releaseVars, holdVars, runs, faults, history>>

\* _release_ticket reads the ticket.
FetchTicket(k) ==
  /\ task[k].pc = "fetch"
  /\ Goto(k, IF status[task[k].ticket] = "resolved" THEN "post" ELSE "cancel")
  /\ UNCHANGED <<status, releaseVars, holdVars, runs, faults, history>>

PostHeld(k) ==
  LET t == task[k].ticket IN
  /\ task[k].pc = "post"
  /\ Tell(t)
  /\ manual' = [manual EXCEPT ![t] = @ \/ task[k].byHand]
  /\ Goto(k, "close")
  /\ UNCHANGED <<status, releaseVars, holdVars, runs, fix, raised>>

CloseHolds(k) ==
  /\ task[k].pc = "close"
  /\ CloseFor(task[k].ticket, "released")
  /\ Goto(k, "tickets")
  /\ UNCHANGED <<status, releaseVars, due, nudged, runs, faults, history>>

\* The ticket has left RESOLVED; the nudge job cancels its holds the same way.
CancelHolds(k) ==
  /\ task[k].pc = "cancel"
  /\ CloseFor(task[k].ticket, "cancelled")
  /\ Goto(k, IF k = Nudger THEN "nudge" ELSE "tickets")
  /\ UNCHANGED <<status, releaseVars, due, nudged, runs, faults, history>>

-----------------------------------------------------------------------------
(* The nudge job.                                                          *)

\* list_due_for_nudge: open, not shipped, not nudged, older than NUDGE_AFTER.
DueHolds == {h \in Holds : hold[h] = "waiting" /\ h \in due /\ h \notin nudged}

NudgeTick ==
  /\ task[Nudger].pc = "idle"
  /\ DueHolds # {}
  /\ task' = [task EXCEPT ![Nudger].pc = "nudge",
                          ![Nudger].listed = DueHolds,
                          ![Nudger].queue = {t \in Tickets : \E h \in DueHolds : h[1] = t}]
  /\ UNCHANGED <<status, releaseVars, holdVars, runs, faults, history>>

\* Mutant of NudgeNext: mark_nudged comes before the DM.
NudgeNextMarks(k) ==
  /\ task[k].pc = "nudge"
  /\ \/ /\ task[k].queue = {}
        /\ Return(k)
        /\ UNCHANGED nudged
     \/ \E t \in task[k].queue :
          /\ task' = [task EXCEPT ![k].queue = @ \ {t}, ![k].ticket = t,
                                  ![k].pc = IF status[t] = "resolved" THEN "nudge_dm"
                                                                      ELSE "cancel"]
          /\ nudged' = IF status[t] = "resolved" THEN nudged \cup OpenHolds(t) ELSE nudged
  /\ UNCHANGED <<status, releaseVars, hold, due, runs, faults, history>>

\* Mutant of NudgeNext: at a ticket that is not resolved the pass ends.
NudgeNextStops(k) ==
  /\ task[k].pc = "nudge"
  /\ \/ /\ task[k].queue = {}
        /\ Return(k)
     \/ \E t \in task[k].queue :
          IF status[t] = "resolved"
            THEN task' = [task EXCEPT ![k].queue = @ \ {t}, ![k].ticket = t,
                                      ![k].pc = "nudge_dm"]
            ELSE Return(k)
  /\ UNCHANGED <<status, releaseVars, holdVars, runs, faults, history>>

NudgeNext(k) ==
  /\ task[k].pc = "nudge"
  /\ \/ /\ task[k].queue = {}
        /\ Return(k)
     \/ \E t \in task[k].queue :
          task' = [task EXCEPT ![k].queue = @ \ {t}, ![k].ticket = t,
                               ![k].pc = IF status[t] = "resolved" THEN "nudge_dm"
                                                                   ELSE "cancel"]
  /\ UNCHANGED <<status, releaseVars, holdVars, runs, faults, history>>

\* The DM to the SE names the holds that were due at the tick.  The Slack gateway
\* swallows a refusal.
NudgeDM(k) ==
  LET about == {h \in task[k].listed : h[1] = task[k].ticket} IN
  /\ task[k].pc = "nudge_dm"
  /\ \/ /\ raised' = [h \in Holds |-> IF h \in about THEN "sent" ELSE raised[h]]
        /\ UNCHANGED faults
     \/ /\ faults < MaxFaults
        /\ faults' = faults + 1
        /\ raised' = [h \in Holds |-> IF h \in about THEN "refused" ELSE raised[h]]
  /\ Goto(k, "nudge_mark")
  /\ UNCHANGED <<status, releaseVars, holdVars, runs, told, fix, manual>>

\* mark_nudged, whatever became of the DM: every open hold of the ticket, also one
\* that the DM does not name.
NudgeMark(k) ==
  /\ task[k].pc = "nudge_mark"
  /\ nudged' = nudged \cup OpenHolds(task[k].ticket)
  /\ Goto(k, "nudge")
  /\ UNCHANGED <<status, releaseVars, hold, due, runs, faults, history>>

-----------------------------------------------------------------------------
(* The surroundings.                                                       *)

\* A reopen or a drop writes its status; it leaves the holds alone.
Leave(t) ==
  /\ status[t] = "resolved"
  /\ status' = [status EXCEPT ![t] = "open"]
  /\ UNCHANGED <<releaseVars, holdVars, task, runs, faults, history>>

\* NUDGE_AFTER passes for a hold.
Age(h) ==
  /\ hold[h] = "waiting"
  /\ h \notin due
  /\ due' = due \cup {h}
  /\ UNCHANGED <<status, releaseVars, hold, nudged, task, runs, faults, history>>

\* The process dies, or the handler's next database call raises.
Fail(k) ==
  /\ task[k].pc # "idle"
  /\ faults < MaxFaults
  /\ faults' = faults + 1
  /\ Return(k)
  /\ UNCHANGED <<status, releaseVars, holdVars, runs, history>>

-----------------------------------------------------------------------------
Start(k) ==
  \/ \E t \in Tickets, prs \in SUBSET PRs : ResolveStart(k, t, prs)
  \/ \E r \in Releases, prs \in SUBSET PRs : AnnounceStart(k, r, prs)
  \/ \E r \in Releases, prs \in SUBSET PRs, run \in BOOLEAN : EngineeringReply(k, r, prs, run)
  \/ \E t \in Tickets : PostNow(k, t)

Step(k) ==
  \/ ResolveWrite(k)
  \/ QueryDeployed(k)
  \/ ReplyNow(k)
  \/ AddHold(k)
  \/ UpsertRelease(k)
  \/ AnnouncePRs(k)
  \/ QueueCommits(k)
  \/ DeployRelease(k)
  \/ ListShipped(k)
  \/ SelectHeld(k)
  \/ MarkShipped(k)
  \/ NextTicket(k)
  \/ FetchTicket(k)
  \/ PostHeld(k)
  \/ CloseHolds(k)
  \/ CancelHolds(k)
  \/ NudgeNext(k)
  \/ NudgeDM(k)
  \/ NudgeMark(k)

Next ==
  \/ \E k \in Tasks : Start(k)
  \/ \E k \in Slots : Step(k) \/ Fail(k)
  \/ NudgeTick
  \/ \E t \in Tickets : Leave(t)
  \/ \E h \in Holds : Age(h)

Spec == Init /\ [][Next]_vars

\* The event loop runs every handler to its end, and the nudge loop ticks
\* every 15 minutes whatever an earlier tick did.
Fairness == WF_vars(NudgeTick) /\ \A k \in Slots : WF_vars(Step(k))
FairSpec == Spec /\ Fairness

\* The same system with one handler at a time, and no reopen during one.
NoOverlap ==
  /\ \A j, k \in Slots : task'[j].pc # "idle" /\ task'[k].pc # "idle" => j = k
  /\ (\E t \in Tickets : status[t] = "resolved" /\ status'[t] = "open") => AllIdle

SerialSpec == Init /\ [][Next /\ NoOverlap]_vars

-----------------------------------------------------------------------------
(* What holds whatever handlers overlap.                                   *)

\* A hold is marked shipped only for a PR that a thread with a run link lists:
\* neither a snapshot of the release that has gone stale nor a reply that only
\* queues commits ships anything early.
ShippedOnlyIfDeployed ==
  \A h \in Holds : hold[h] = "shipped" => h[2] \in DeployedPRs

\* The safety net, as far as it reaches: a hold that is past NUDGE_AFTER and unmarked
\* when the nudge job rests is put into a DM to its SE, unless it stops waiting or a new
\* resolve restarts it first; whatever raced with the job, and whichever pass of it was
\* lost, even between its list and its DM.
NudgeNet ==
  \A h \in Holds :
    h \in DueHolds /\ task[Nudger].pc = "idle"
      ~> hold[h] # "waiting" \/ h \notin due \/ raised[h] # "never"

-----------------------------------------------------------------------------
(* What holds with one handler at a time.                                  *)

\* Nobody is forgotten: a resolved ticket has been answered, or waits for a
\* PR; no cancelled, released or stale row of an earlier resolve hides it.
ToldOrWaiting ==
  AllIdle /\ faults = 0 =>
    \A t \in Tickets : status[t] = "resolved" => told[t] > 0 \/ Waiting(t) # {}

\* Nothing is stranded: a hold that has shipped stays open only beside one that
\* still waits.  The nudge job passes over a shipped hold, and its thread is
\* marked deployed only once.
NoStrandedHold ==
  AllIdle /\ faults = 0 => \A t \in Tickets : OpenHolds(t) # {} => Waiting(t) # {}

\* No reply before the fix is live: while nothing was lost, every PR of the
\* latest resolve has shipped, unless a human pressed the button.
ReplyAfterAllShipped ==
  \A t \in Tickets :
    faults = 0 /\ told[t] > 0 /\ ~manual[t] => fix[t] \subseteq DeployedPRs

\* A reply is posted only to a ticket that is resolved at that time.
ReplyOnlyWhenResolved ==
  [][\A t \in Tickets : told'[t] > told[t] => status[t] = "resolved"]_vars

\* deploy_hold.py: the reply "is *held* until that PR is seen in a release
\* thread in #engineering that has its GitHub Actions run link posted"; once
\* every handler is done no hold waits for a PR such a thread lists.
NoMissedDeploy ==
  AllIdle /\ faults = 0 =>
    \A h \in Holds : hold[h] = "waiting" => h[2] \notin DeployedPRs
=============================================================================

------------------------------- MODULE Intake -------------------------------
(***************************************************************************)
(* From a report to a ticket.                                              *)
(*                                                                         *)
(* Somebody opens the intake form, on a Slack thread or without one, and   *)
(* sends it; the product sends reports of its own.  A report that looks    *)
(* like a live ticket is put aside until                                   *)
(* its sender clicks Merge or Create anyway, or the sweeper drops it;      *)
(* otherwise it becomes a ticket.  The thread it came from follows the     *)
(* ticket, and a customer's thread is told its number.  A form can bring   *)
(* its own new organisation.  Handlers overlap, and may be lost.           *)
(*                                                                         *)
(* Priority and type of a ticket are Triage's, texts are left out, how     *)
(* alike two reports are is their topic, and the issue in Linear is        *)
(* LinearMirror's.                                                         *)
(***************************************************************************)
EXTENDS Availability, Naturals, Sequences, FiniteSets

CONSTANTS
  Reports,
  Topics,
  Threads,       \* a thread stands for its channel as well
  Internal,      \* the threads of the internal support channels
  SeUser,        \* the configured SE, whom urgent tickets go to
  MaxOrgs,       \* bound: organisations whose slugs clash
  Tasks,         \* slots of the handlers that Slack starts
  MaxRuns,       \* bound: how many handlers a behaviour starts
  MaxRaces,      \* bound: how many, once they have raced
  MaxWorld,      \* bound: absences, retirements and moved threads
  MaxFaults      \* bound: how many handlers or messages get lost

ASSUME ConstantsAssumption ==
  /\ MaxOrgs \in Nat \ {0}
  /\ MaxRuns \in Nat /\ MaxRaces \in Nat /\ MaxWorld \in Nat /\ MaxFaults \in Nat
  /\ Internal \subseteq Threads
  /\ SeUser \in SEs
  /\ None \notin SEs \cup Reports \cup Threads /\ Present \notin SEs \cup {None}

VARIABLES
  form,      \* what the sender sees of a report's form: "none", "open" or "sent"
  about,     \* the report's topic and thread
  drafts,    \* draft_form_sessions
  offers,    \* threads with a button of the detector out
  orgs,      \* the organisations' channels, by slug
  tickets,   \* the tickets, oldest first
  pending,   \* pending_dedupe_choice: the candidate's number and the org, by report
  offered,   \* reports whose Merge and Create anyway buttons are out
  link,      \* ticket_support_threads; 0 is no ticket
  told,      \* the number a thread was told last
  merges,    \* how often a report was merged
  expired,   \* reports the sweeper dropped
  absence,   \* se_availability
  task,      \* the handlers in flight
  raced,     \* did anything ever start before everything else was done
  runs, world, faults  \* bounds

threadVars == <<offers, link, told>>
reportVars == <<form, about, drafts, expired>>
vars == <<reportVars, threadVars, orgs, tickets, pending, offered, merges, absence, task, raced,
          runs, world, faults>>

OrgIds == 1 .. MaxOrgs
NotPending == [candidate |-> 0, org |-> 1]

Ticket == [report: Reports, orgs: SUBSET OrgIds, live: BOOLEAN, owner: SEs \cup {None}]

PCs == {"idle", "slug", "upsert", "find", "stash", "offer", "owner", "create", "org", "note",
        "attach", "link", "tell", "draft", "unpend"}
Kinds == {"submit", "new_org", "create_new", "merge"}

NoTask == [pc |-> "idle", kind |-> None, report |-> None, org |-> 1, ticket |-> 0,
           owner |-> None, news |-> FALSE, channel |-> None]

TaskRecord == [pc: PCs, kind: Kinds \cup {None}, report: Reports \cup {None}, org: OrgIds,
               ticket: Nat, owner: SEs \cup {None}, news: BOOLEAN,
               channel: Threads \cup {None}]

\* A handler past its start has a report; from "org" on it has a ticket.
SlotOK(r, n) ==
  /\ r \in TaskRecord
  /\ r.pc # "idle" => r.report \in Reports /\ r.kind \in Kinds
  /\ r.pc \in {"stash", "org", "note", "attach", "link", "tell"} => r.ticket \in 1 .. n

TypeOK ==
  /\ form \in [Reports -> {"none", "open", "sent"}]
  /\ about \in [Reports -> [topic: Topics, thread: Threads \cup {None}]]
  /\ drafts \in SUBSET Reports /\ expired \in SUBSET Reports /\ offered \in SUBSET Reports
  /\ offers \in SUBSET Threads
  /\ orgs \in [OrgIds -> Threads \cup {None}]
  /\ tickets \in Seq(Ticket)
  /\ pending \in [Reports -> [candidate: 0 .. Len(tickets), org: OrgIds]]
  /\ link \in [Threads -> 0 .. Len(tickets)] /\ told \in [Threads -> 0 .. Len(tickets)]
  /\ merges \in [Reports -> Nat]
  /\ absence \in [SEs -> SEs \cup {None, Present}]
  /\ task \in [Tasks -> TaskRecord]
  /\ \A k \in Tasks : SlotOK(task[k], Len(tickets))
  /\ raced \in BOOLEAN /\ runs \in Nat /\ world \in Nat /\ faults \in Nat

Init ==
  /\ form = [r \in Reports |-> "none"]
  /\ about \in [Reports -> [topic: Topics, thread: {None}]]
  /\ drafts = {} /\ expired = {} /\ offered = {} /\ offers = {}
  /\ \E c \in Threads \ Internal : orgs = [o \in OrgIds |-> IF o = 1 THEN c ELSE None]
  /\ tickets = <<>>
  /\ pending = [r \in Reports |-> NotPending]
  /\ link = [h \in Threads |-> 0] /\ told = [h \in Threads |-> 0]
  /\ merges = [r \in Reports |-> 0]
  /\ absence = [s \in SEs |-> Present]
  /\ task = [k \in Tasks |-> NoTask]
  /\ raced = FALSE /\ runs = 0 /\ world = 0 /\ faults = 0

-----------------------------------------------------------------------------
(* Helpers.                                                                *)

Idle == \A k \in Tasks : task[k].pc = "idle"
Thread(i) == about[tickets[i].report].thread

\* find_by_slack_link: the tickets of a thread; the query fails on a second one.
Logged(h) == {i \in DOMAIN tickets : Thread(i) = h}

\* FindDedupeCandidate, as far as a topic tells: the live tickets like the report.
Candidates(r) ==
  {i \in DOMAIN tickets : tickets[i].live /\ about[tickets[i].report].topic = about[r].topic}

\* find_by_slack_channel.
Mapped(h) == \E o \in OrgIds : orgs[o] = h

\* A submission or a button starts a handler.
Begin(k, r) ==
  /\ task[k].pc = "idle"
  /\ raced' = (raced \/ ~Idle)
  /\ runs < IF raced' THEN MaxRaces ELSE MaxRuns
  /\ runs' = runs + 1
  /\ task' = [task EXCEPT ![k] = r]

Goto(k, pc) == task' = [task EXCEPT ![k].pc = pc]

Outage ==
  /\ faults < MaxFaults
  /\ faults' = faults + 1

\* Something happens beside the handlers.
Elsewhere ==
  /\ world < MaxWorld
  /\ world' = world + 1
  /\ raced' = (raced \/ ~Idle)
  /\ UNCHANGED <<task, runs, faults>>

-----------------------------------------------------------------------------
(* The form.                                                               *)

\* DetectLogCheck offers nothing for a thread with a live ticket, and fails for one
\* with two tickets.
Offerable(h) == \A i \in Logged(h) : Logged(h) = {i} /\ ~tickets[i].live

\* A message or a mention in a thread.
Detect(h) ==
  /\ Offerable(h)
  /\ h \notin offers
  /\ Elsewhere
  /\ offers' = offers \cup {h}
  /\ UNCHANGED <<reportVars, orgs, tickets, pending, offered, link, told, merges, absence>>

\* OpenIntakeModal: by /log without a thread, by the shortcut on a message, or by
\* a button of the detector.
OpenPlain(r) ==
  /\ form[r] = "none"
  /\ form' = [form EXCEPT ![r] = "open"]
  /\ drafts' = drafts \cup {r}
  /\ UNCHANGED <<about, expired, threadVars, orgs, tickets, pending, offered, merges, absence,
                 task, raced, runs, world, faults>>

OpenOnThread(r, h) ==
  /\ form[r] = "none"
  /\ h \in Internal \/ Mapped(h) \/ h \in offers
  /\ form' = [form EXCEPT ![r] = "open"]
  /\ about' = [about EXCEPT ![r].thread = h]
  /\ drafts' = drafts \cup {r}
  /\ UNCHANGED <<expired, threadVars, orgs, tickets, pending, offered, merges, absence, task,
                 raced, runs, world, faults>>

\* on_se_bug_submit with an organisation of the list.
Submit(k, r, o) ==
  /\ form[r] = "open"
  /\ orgs[o] # None
  /\ Begin(k, [NoTask EXCEPT !.pc = "find", !.kind = "submit", !.report = r, !.org = o])
  /\ form' = [form EXCEPT ![r] = "sent"]
  /\ UNCHANGED <<about, drafts, expired, threadVars, orgs, tickets, pending, offered, merges,
                 absence, world, faults>>

\* from_in_app_webhook: a report without a form or a thread.
InApp(k, r, o) ==
  /\ form[r] = "none"
  /\ orgs[o] # None
  /\ Begin(k, [NoTask EXCEPT !.pc = "find", !.kind = "submit", !.report = r, !.org = o])
  /\ form' = [form EXCEPT ![r] = "sent"]
  /\ UNCHANGED <<about, drafts, expired, threadVars, orgs, tickets, pending, offered, merges,
                 absence, world, faults>>

\* The form brings a new organisation, for a channel that has none yet.
SubmitNewOrg(k, r, c) ==
  /\ form[r] = "open"
  /\ ~Mapped(c)
  /\ Begin(k, [NoTask EXCEPT !.pc = "slug", !.kind = "new_org", !.report = r, !.channel = c])
  /\ UNCHANGED <<reportVars, threadVars, orgs, tickets, pending, offered, merges, absence, world,
                 faults>>

\* Mutant of Slug: a clash of names is not looked for.
SlugFirst(k) ==
  /\ task[k].pc = "slug"
  /\ task' = [task EXCEPT ![k].pc = "upsert", ![k].org = 1]
  /\ UNCHANGED <<reportVars, threadVars, orgs, tickets, pending, offered, merges, absence, raced,
                 runs, world, faults>>

\* create_org_from_intake looks for the first free slug.
Slug(k) ==
  /\ task[k].pc = "slug"
  /\ \E o \in OrgIds :
       /\ orgs[o] = None /\ \A p \in 1 .. (o - 1) : orgs[p] # None
       /\ task' = [task EXCEPT ![k].pc = "upsert", ![k].org = o]
  /\ UNCHANGED <<reportVars, threadVars, orgs, tickets, pending, offered, merges, absence, raced,
                 runs, world, faults>>

\* It writes the row; a channel that has got another organisation by now is
\* refused by the database, and the form stays open.
Upsert(k) ==
  LET r == task[k].report  o == task[k].org  c == task[k].channel IN
  /\ task[k].pc = "upsert"
  /\ IF \E p \in OrgIds \ {o} : orgs[p] = c
       THEN /\ task' = [task EXCEPT ![k] = NoTask]
            /\ UNCHANGED <<form, orgs>>
       ELSE /\ orgs' = [orgs EXCEPT ![o] = c]
            /\ form' = [form EXCEPT ![r] = "sent"]
            /\ Goto(k, "find")
  /\ UNCHANGED <<about, drafts, expired, threadVars, tickets, pending, offered, merges, absence,
                 raced, runs, world, faults>>

-----------------------------------------------------------------------------
(* Set aside, or made a ticket.                                            *)

\* _run_pipeline asks for a candidate.
Find(k) ==
  LET found == Candidates(task[k].report) IN
  /\ task[k].pc = "find"
  /\ IF found = {} THEN Goto(k, "owner")
     ELSE \E i \in found : task' = [task EXCEPT ![k].pc = "stash", ![k].ticket = i]
  /\ UNCHANGED <<reportVars, threadVars, orgs, tickets, pending, offered, merges, absence, raced,
                 runs, world, faults>>

\* OfferDedupeChoice: the row first, then the message with the buttons.
Stash(k) ==
  /\ task[k].pc = "stash"
  /\ pending' = [pending EXCEPT ![task[k].report] =
                   [candidate |-> task[k].ticket, org |-> task[k].org]]
  /\ Goto(k, "offer")
  /\ UNCHANGED <<reportVars, threadVars, orgs, tickets, offered, merges, absence, raced, runs,
                 world, faults>>

\* The message may be refused; nobody sends it again.
Offer(k) ==
  /\ task[k].pc = "offer"
  /\ \/ offered' = offered \cup {task[k].report} /\ UNCHANGED faults
     \/ Outage /\ UNCHANGED offered
  /\ task' = [task EXCEPT ![k] = NoTask]
  /\ UNCHANGED <<reportVars, threadVars, orgs, tickets, pending, merges, absence, raced, runs,
                 world>>

\* A click on a row that is gone does nothing.
Clickable(r) == r \in offered /\ pending[r].candidate # 0

CreateNew(k, r) ==
  /\ Clickable(r)
  /\ Begin(k, [NoTask EXCEPT !.pc = "owner", !.kind = "create_new", !.report = r,
                 !.org = pending[r].org])
  /\ UNCHANGED <<reportVars, threadVars, orgs, tickets, pending, offered, merges, absence, world,
                 faults>>

\* Mutant of Merge: the row is dropped by the click.
MergeDrops(k, r) ==
  /\ Clickable(r)
  /\ Begin(k, [NoTask EXCEPT !.pc = "org", !.kind = "merge", !.report = r,
                 !.org = pending[r].org, !.ticket = pending[r].candidate])
  /\ pending' = [pending EXCEPT ![r] = NotPending]
  /\ UNCHANGED <<reportVars, threadVars, orgs, tickets, offered, merges, absence, world, faults>>

Merge(k, r) ==
  /\ Clickable(r)
  /\ Begin(k, [NoTask EXCEPT !.pc = "org", !.kind = "merge", !.report = r,
                 !.org = pending[r].org, !.ticket = pending[r].candidate])
  /\ UNCHANGED <<reportVars, threadVars, orgs, tickets, pending, offered, merges, absence, world,
                 faults>>

\* The owner a ticket comes with: a pick for most of them or, when all are out,
\* the configured SE; that SE for an urgent one; nobody for a call for help.  Then
\* whoever is out is replaced.
Stamped == {SeUser, None} \cup (Pick(absence) \ {None})

Owner(k) ==
  /\ task[k].pc = "owner"
  /\ \E stamped \in Stamped : \E o \in Reroute(stamped, absence) :
       task' = [task EXCEPT ![k].pc = "create", ![k].owner = o]
  /\ UNCHANGED <<reportVars, threadVars, orgs, tickets, pending, offered, merges, absence, raced,
                 runs, world, faults>>

Create(k) ==
  /\ task[k].pc = "create"
  /\ tickets' = Append(tickets, [report |-> task[k].report, orgs |-> {}, live |-> TRUE,
                                 owner |-> task[k].owner])
  /\ task' = [task EXCEPT ![k].pc = "org", ![k].ticket = Len(tickets) + 1]
  /\ UNCHANGED <<reportVars, threadVars, orgs, pending, offered, merges, absence, raced, runs,
                 world, faults>>

\* add_org, a no-op for one that is there.
AddOrg(k) ==
  /\ task[k].pc = "org"
  /\ tickets' = [tickets EXCEPT ![task[k].ticket].orgs = @ \cup {task[k].org}]
  /\ Goto(k, "note")
  /\ UNCHANGED <<reportVars, threadVars, orgs, pending, offered, merges, absence, raced, runs,
                 world, faults>>

\* The event: a new ticket, or the context that was merged in.
Note(k) ==
  /\ task[k].pc = "note"
  /\ merges' = [merges EXCEPT ![task[k].report] =
                  IF task[k].kind = "merge" THEN @ + 1 ELSE @]
  /\ Goto(k, "attach")
  /\ UNCHANGED <<reportVars, threadVars, orgs, tickets, pending, offered, absence, raced, runs,
                 world, faults>>

\* Mutant of Attach: any earlier acknowledgement will do.
AttachOnce(k) ==
  LET h == about[task[k].report].thread IN
  /\ task[k].pc = "attach"
  /\ task' = IF h \in Threads /\ (h \in Internal \/ Mapped(h))
               THEN [task EXCEPT ![k].pc = "link", ![k].news = h \notin Internal /\ link[h] = 0]
               ELSE [task EXCEPT ![k].pc = "draft"]
  /\ UNCHANGED <<reportVars, threadVars, orgs, tickets, pending, offered, merges, absence, raced,
                 runs, world, faults>>

\* attach_source_thread: a thread of an internal channel, or of a customer's; for
\* the customer it reads whether the thread is on this ticket already.
Attach(k) ==
  LET h == about[task[k].report].thread IN
  /\ task[k].pc = "attach"
  /\ task' = IF h \in Threads /\ (h \in Internal \/ Mapped(h))
               THEN [task EXCEPT ![k].pc = "link",
                       ![k].news = h \notin Internal /\ link[h] # task[k].ticket]
               ELSE [task EXCEPT ![k].pc = "draft"]
  /\ UNCHANGED <<reportVars, threadVars, orgs, tickets, pending, offered, merges, absence, raced,
                 runs, world, faults>>

\* link_support_thread, which moves the thread here if it was elsewhere.
Link(k) ==
  /\ task[k].pc = "link"
  /\ link' = [link EXCEPT ![about[task[k].report].thread] = task[k].ticket]
  /\ Goto(k, IF task[k].news THEN "tell" ELSE "draft")
  /\ UNCHANGED <<reportVars, offers, told, orgs, tickets, pending, offered, merges, absence,
                 raced, runs, world, faults>>

\* The acknowledgement; Slack may refuse it.
Tell(k) ==
  /\ task[k].pc = "tell"
  /\ \/ /\ told' = [told EXCEPT ![about[task[k].report].thread] = task[k].ticket]
        /\ UNCHANGED faults
     \/ Outage /\ UNCHANGED told
  /\ Goto(k, "draft")
  /\ UNCHANGED <<reportVars, offers, link, orgs, tickets, pending, offered, merges, absence,
                 raced, runs, world>>

\* Mutant of DropDraft: Create anyway leaves its row behind.
DropDraftOnly(k) ==
  LET kind == task[k].kind IN
  /\ task[k].pc = "draft"
  /\ drafts' = IF kind = "merge" THEN drafts ELSE drafts \ {task[k].report}
  /\ task' = [task EXCEPT ![k] = IF kind = "merge" THEN [task[k] EXCEPT !.pc = "unpend"]
                                 ELSE NoTask]
  /\ UNCHANGED <<form, about, expired, threadVars, orgs, tickets, pending, offered, merges,
                 absence, raced, runs, world, faults>>

\* A ticket that was created uses its draft up; a merge leaves it to the sweeper.
DropDraft(k) ==
  LET kind == task[k].kind IN
  /\ task[k].pc = "draft"
  /\ drafts' = IF kind = "merge" THEN drafts ELSE drafts \ {task[k].report}
  /\ task' = [task EXCEPT ![k] = IF kind \in {"merge", "create_new"}
                                   THEN [task[k] EXCEPT !.pc = "unpend"] ELSE NoTask]
  /\ UNCHANGED <<form, about, expired, threadVars, orgs, tickets, pending, offered, merges,
                 absence, raced, runs, world, faults>>

\* The buttons' row goes last.
Unpend(k) ==
  /\ task[k].pc = "unpend"
  /\ pending' = [pending EXCEPT ![task[k].report] = NotPending]
  /\ task' = [task EXCEPT ![k] = NoTask]
  /\ UNCHANGED <<reportVars, threadVars, orgs, tickets, offered, merges, absence, raced, runs,
                 world, faults>>

-----------------------------------------------------------------------------
(* The surroundings.                                                       *)

\* SweepEphemeralState: drafts after 30 minutes, pending choices after a week.
SweepDraft(r) ==
  /\ r \in drafts
  /\ Elsewhere
  /\ drafts' = drafts \ {r}
  /\ UNCHANGED <<form, about, expired, threadVars, orgs, tickets, pending, offered, merges,
                 absence>>

SweepPending(r) ==
  /\ pending[r].candidate # 0
  /\ Elsewhere
  /\ pending' = [pending EXCEPT ![r] = NotPending]
  /\ expired' = expired \cup {r}
  /\ UNCHANGED <<form, about, drafts, threadVars, orgs, tickets, offered, merges, absence>>

\* SubmitLinkThread: somebody puts an internal thread on a ticket.
LinkThread(h, i) ==
  /\ link[h] # i
  /\ Elsewhere
  /\ link' = [link EXCEPT ![h] = i]
  /\ UNCHANGED <<reportVars, offers, told, orgs, tickets, pending, offered, merges, absence>>

\* The ticket is resolved or dropped.
Retire(i) ==
  /\ tickets[i].live
  /\ Elsewhere
  /\ tickets' = [tickets EXCEPT ![i].live = FALSE]
  /\ UNCHANGED <<reportVars, threadVars, orgs, pending, offered, merges, absence>>

\* /ooo, and back again.
Absent(s, c) ==
  /\ absence[s] # c
  /\ c # s
  /\ c \in SEs => absence[c] = Present
  /\ Elsewhere
  /\ absence' = [absence EXCEPT ![s] = c]
  /\ UNCHANGED <<reportVars, threadVars, orgs, tickets, pending, offered, merges>>

\* A database call raises, or the process restarts.
Fail(k) ==
  /\ task[k].pc # "idle"
  /\ Outage
  /\ task' = [task EXCEPT ![k] = NoTask]
  /\ UNCHANGED <<reportVars, threadVars, orgs, tickets, pending, offered, merges, absence, raced,
                 runs, world>>

-----------------------------------------------------------------------------
Step(k) ==
  \/ Slug(k) \/ Upsert(k) \/ Find(k) \/ Stash(k) \/ Offer(k)
  \/ Owner(k) \/ Create(k) \/ AddOrg(k) \/ Note(k)
  \/ Attach(k) \/ Link(k) \/ Tell(k) \/ DropDraft(k) \/ Unpend(k)

Click(k, r) ==
  \/ \E o \in OrgIds : Submit(k, r, o)
  \/ \E o \in OrgIds : InApp(k, r, o)
  \/ \E c \in Threads : SubmitNewOrg(k, r, c)
  \/ CreateNew(k, r)
  \/ Merge(k, r)

World ==
  \/ \E h \in Threads : Detect(h)
  \/ \E r \in Reports : OpenPlain(r) \/ \E h \in Threads : OpenOnThread(r, h)
  \/ \E r \in Reports : SweepDraft(r) \/ SweepPending(r)
  \/ \E h \in Internal, i \in DOMAIN tickets : LinkThread(h, i)
  \/ \E i \in DOMAIN tickets : Retire(i)
  \/ \E s \in SEs, c \in SEs \cup {None, Present} : Absent(s, c)

Next ==
  \/ \E k \in Tasks : Step(k) \/ Fail(k) \/ \E r \in Reports : Click(k, r)
  \/ World

Spec == Init /\ [][Next]_vars

-----------------------------------------------------------------------------
(* What holds however handlers overlap and whatever gets lost.             *)

Made(r) == {i \in DOMAIN tickets : tickets[i].report = r}

\* A report that was put aside stays until it is a ticket, is merged, or a week
\* has passed: a click that comes to nothing can be made again.
PendingUntilDone ==
  \A r \in Reports :
    form[r] = "sent" /\ r \in offered /\ pending[r].candidate = 0 =>
      Made(r) # {} \/ merges[r] > 0 \/ r \in expired

-----------------------------------------------------------------------------
(* What holds when handlers come one at a time.                            *)

\* Every report that was sent comes to one end: a ticket, a merge, or the sweeper;
\* until then it is waiting.
Outcomes(r) == Cardinality(Made(r)) + merges[r] + (IF r \in expired THEN 1 ELSE 0)
OneOutcome ==
  ~raced /\ faults = 0 =>
    \A r \in Reports :
      /\ Outcomes(r) <= 1
      /\ Idle /\ form[r] = "sent" => (Outcomes(r) = 1 <=> pending[r].candidate = 0)

\* support_threads.py: a customer's thread was last told the number of the ticket
\* it is on, which is where it gets its "resolved".
ToldItsTicket ==
  ~raced /\ Idle /\ faults = 0 => \A h \in Threads \ Internal : told[h] = link[h]

\* submit_ticket_form.py: "a name clash can't silently overwrite an unrelated org".
OrgsKept ==
  [][\A o \in OrgIds : ~raced' /\ orgs[o] # None => orgs'[o] = orgs[o]]_vars
=============================================================================

---------------------------- MODULE IntakeProofs ----------------------------
(***************************************************************************)
(* Theorems about Intake for any reports, threads and handlers.            *)
(***************************************************************************)
EXTENDS Intake, FiniteSetTheorems, TLAPS

\* The tables that depend on the tickets, the others, and the handlers.
PendingRow(n) == [candidate: 0 .. n, org: OrgIds]
NumbersOK ==
  /\ tickets \in Seq(Ticket)
  /\ pending \in [Reports -> PendingRow(Len(tickets))]
  /\ link \in [Threads -> 0 .. Len(tickets)] /\ told \in [Threads -> 0 .. Len(tickets)]
TablesOK ==
  /\ form \in [Reports -> {"none", "open", "sent"}]
  /\ about \in [Reports -> [topic: Topics, thread: Threads \cup {None}]]
  /\ drafts \in SUBSET Reports /\ expired \in SUBSET Reports /\ offered \in SUBSET Reports
  /\ offers \in SUBSET Threads
  /\ orgs \in [OrgIds -> Threads \cup {None}]
  /\ merges \in [Reports -> Nat]
  /\ absence \in [SEs -> SEs \cup {None, Present}]
TasksOK ==
  /\ task \in [Tasks -> TaskRecord]
  /\ \A k \in Tasks : SlotOK(task[k], Len(tickets))
BoundsOK == raced \in BOOLEAN /\ runs \in Nat /\ world \in Nat /\ faults \in Nat

LEMMA TypeParts == TypeOK <=> NumbersOK /\ TablesOK /\ TasksOK /\ BoundsOK
BY DEF TypeOK, NumbersOK, PendingRow, TablesOK, TasksOK, BoundsOK

\* A report has come to an end.
Done(r) == Made(r) # {} \/ merges[r] > 0 \/ r \in expired

\* A handler on its way knows that its report waits, or has come to an end.
Tracked(r) ==
  /\ r.pc = "offer" => pending[r.report].candidate # 0 \/ Done(r.report)
  /\ r.pc \in {"org", "note", "attach", "link", "tell", "draft", "unpend"} /\ r.kind # "merge" =>
       Made(r.report) # {}
  /\ r.pc \in {"attach", "link", "tell", "draft", "unpend"} /\ r.kind = "merge" =>
       merges[r.report] > 0

Waiting ==
  /\ \A r \in offered : pending[r].candidate # 0 \/ Done(r)
  /\ \A k \in Tasks : Tracked(task[k])

Inv == TypeOK /\ Waiting

-----------------------------------------------------------------------------
LEMMA OneIsOrg == 1 \in OrgIds
BY ConstantsAssumption DEF OrgIds

LEMMA NoTaskTyped ==
  /\ NoTask \in TaskRecord /\ NoTask.pc = "idle"
  /\ \A n : SlotOK(NoTask, n)
<1>1. NoTask \in TaskRecord /\ NoTask.pc = "idle"
  BY OneIsOrg DEF NoTask, TaskRecord, PCs
<1>q. QED
  BY <1>1 DEF SlotOK

LEMMA RerouteTyped ==
  ASSUME NEW away \in [SEs -> SEs \cup {None, Present}], NEW owner \in SEs \cup {None}
  PROVE  Reroute(owner, away) \subseteq SEs \cup {None}
<1>1. Pick(away) \subseteq SEs \cup {None}
  BY DEF Pick, LeastLoaded
<1>q. QED
  BY <1>1, ConstantsAssumption DEF Reroute

LEMMA InitInv == Init => Inv
<1>1. SUFFICES ASSUME Init PROVE Inv
  OBVIOUS
<1>2. tickets \in Seq(Ticket) /\ Len(tickets) = 0
  BY <1>1 DEF Init
<1>3. NotPending \in PendingRow(0)
  BY OneIsOrg DEF NotPending, PendingRow
<1>4. NumbersOK
  BY <1>1, <1>2, <1>3 DEF Init, NumbersOK
<1>5. TablesOK
  BY <1>1, ConstantsAssumption DEF Init, TablesOK
<1>6. TasksOK /\ BoundsOK
  BY <1>1, NoTaskTyped DEF Init, TasksOK, BoundsOK
<1>7. Waiting
  BY <1>1, NoTaskTyped DEF Init, Waiting, Tracked
<1>q. QED
  BY <1>4, <1>5, <1>6, <1>7, TypeParts DEF Inv

-----------------------------------------------------------------------------
(* Tickets are only added, and what came to an end stays there.            *)

Grown ==
  /\ tickets' \in Seq(Ticket) /\ Len(tickets) \in Nat /\ Len(tickets') \in Nat
  /\ Len(tickets) <= Len(tickets')
  /\ \A i \in 1 .. Len(tickets) : tickets'[i].report = tickets[i].report

LEMMA TicketsUnchanged == NumbersOK /\ tickets' = tickets => Grown
BY DEF NumbersOK, Grown

LEMMA TicketChanged ==
  ASSUME NumbersOK, NEW i \in 1 .. Len(tickets), NEW rec \in Ticket,
         rec.report = tickets[i].report, tickets' = [tickets EXCEPT ![i] = rec]
  PROVE  Grown
BY DEF NumbersOK, Grown

LEMMA TicketAdded ==
  ASSUME NumbersOK, NEW rec \in Ticket, tickets' = Append(tickets, rec)
  PROVE  Grown /\ Len(tickets') = Len(tickets) + 1 /\ tickets'[Len(tickets) + 1] = rec
BY DEF NumbersOK, Grown

LEMMA MadeKept ==
  ASSUME NumbersOK, Grown, NEW r, Made(r) # {}
  PROVE  Made(r)' # {}
<1>1. PICK i \in 1 .. Len(tickets) : tickets[i].report = r
  BY DEF Made, NumbersOK
<1>2. i \in 1 .. Len(tickets') /\ tickets'[i].report = r
  BY <1>1 DEF Grown
<1>q. QED
  BY <1>2 DEF Made, Grown

LEMMA NumbersKept ==
  ASSUME NumbersOK, Grown, NEW p \in [Reports -> PendingRow(Len(tickets'))],
         NEW l \in [Threads -> 0 .. Len(tickets')], NEW d \in [Threads -> 0 .. Len(tickets')],
         pending' = p, link' = l, told' = d
  PROVE  NumbersOK'
BY DEF NumbersOK, Grown

LEMMA RowsKept ==
  ASSUME NumbersOK, Grown
  PROVE  /\ pending \in [Reports -> PendingRow(Len(tickets'))]
         /\ link \in [Threads -> 0 .. Len(tickets')] /\ told \in [Threads -> 0 .. Len(tickets')]
BY DEF NumbersOK, Grown, PendingRow

\* A slot that gets a good record stays good, and so do the others.
LEMMA SlotWritten ==
  ASSUME TasksOK, Grown, NEW k \in Tasks, NEW rec, SlotOK(rec, Len(tickets')),
         task' = [task EXCEPT ![k] = rec]
  PROVE  TasksOK' /\ task'[k] = rec /\ \A j \in Tasks \ {k} : task'[j] = task[j]
BY DEF TasksOK, SlotOK, Grown

-----------------------------------------------------------------------------
(* What each action writes.                                                *)

LEMMA StepGrown ==
  ASSUME TypeOK, NEW k \in Tasks, Step(k) \/ Fail(k)
  PROVE  Grown
<1>1. /\ NumbersOK /\ task[k] \in TaskRecord /\ SlotOK(task[k], Len(tickets))
  BY TypeParts DEF TasksOK
<1>2. CASE tickets' = tickets
  BY <1>1, <1>2, TicketsUnchanged
<1>3. CASE Create(k)
  <2>1. PICK rec : /\ rec = [report |-> task[k].report, orgs |-> {}, live |-> TRUE,
                             owner |-> task[k].owner]
                   /\ tickets' = Append(tickets, rec)
    BY <1>3 DEF Create
  <2>2. rec \in Ticket
    BY <1>1, <1>3, <2>1 DEF Create, SlotOK, TaskRecord, Ticket
  <2>q. QED
    BY <1>1, <2>1, <2>2, TicketAdded
<1>4. CASE AddOrg(k)
  <2>1. PICK i \in 1 .. Len(tickets) : i = task[k].ticket
    BY <1>1, <1>4 DEF AddOrg, SlotOK
  <2>2. PICK rec : rec = [tickets[i] EXCEPT !.orgs = @ \cup {task[k].org}]
    OBVIOUS
  <2>3. tickets[i] \in Ticket /\ task[k].org \in OrgIds
    BY <1>1, <2>1 DEF NumbersOK, TaskRecord
  <2>4. rec \in Ticket /\ rec.report = tickets[i].report
    BY <2>2, <2>3 DEF Ticket
  <2>5. tickets' = [tickets EXCEPT ![i] = rec]
    BY <1>4, <2>1, <2>2 DEF AddOrg
  <2>q. QED
    BY <1>1, <2>4, <2>5, TicketChanged
<1>q. QED
  BY <1>2, <1>3, <1>4 DEF Step, Fail, Slug, Upsert, Find, Stash, Offer, Owner, Note, Attach, Link,
     Tell, DropDraft, Unpend

LEMMA WorldGrown ==
  ASSUME TypeOK, World \/ UNCHANGED vars \/ \E k \in Tasks, r \in Reports : Click(k, r)
  PROVE  Grown
<1>1. NumbersOK
  BY TypeParts
<1>2. CASE tickets' = tickets
  BY <1>1, <1>2, TicketsUnchanged
<1>3. CASE \E i \in DOMAIN tickets : Retire(i)
  <2>1. PICK i \in 1 .. Len(tickets) : tickets' = [tickets EXCEPT ![i].live = FALSE]
    <3>1. PICK i \in DOMAIN tickets : Retire(i)
      BY <1>3
    <3>2. i \in 1 .. Len(tickets)
      BY <1>1 DEF NumbersOK
    <3>q. QED
      BY <3>1, <3>2 DEF Retire
  <2>2. PICK rec : rec = [tickets[i] EXCEPT !.live = FALSE]
    OBVIOUS
  <2>3. tickets[i] \in Ticket
    BY <1>1 DEF NumbersOK
  <2>4. rec \in Ticket /\ rec.report = tickets[i].report
    BY <2>2, <2>3 DEF Ticket
  <2>5. tickets' = [tickets EXCEPT ![i] = rec]
    BY <2>1, <2>2
  <2>q. QED
    BY <1>1, <2>4, <2>5, TicketChanged
<1>q. QED
  BY <1>2, <1>3 DEF World, vars, Click, Submit, InApp, SubmitNewOrg, CreateNew, Merge, Detect,
     OpenPlain, OpenOnThread, SweepDraft, SweepPending, LinkThread, Absent

LEMMA StepTables ==
  ASSUME TypeOK, NEW k \in Tasks, Step(k) \/ Fail(k)
  PROVE  TablesOK' /\ BoundsOK'
<1>1. /\ TablesOK /\ BoundsOK /\ task[k] \in TaskRecord
      /\ task[k].pc # "idle" => task[k].report \in Reports
      /\ task[k].org \in OrgIds /\ task[k].channel \in Threads \cup {None}
  BY TypeParts DEF TasksOK, SlotOK, TaskRecord
<1>2. BoundsOK'
  <2>1. raced' = raced /\ runs' = runs /\ world' = world /\ (faults' = faults \/ Outage)
    BY DEF Step, Fail, Slug, Upsert, Find, Stash, Offer, Owner, Create, AddOrg, Note, Attach, Link,
       Tell, DropDraft, Unpend
  <2>q. QED
    BY <1>1, <2>1 DEF BoundsOK, Outage
<1>3. CASE Upsert(k)
  BY <1>1, <1>2, <1>3 DEF Upsert, TablesOK, threadVars
<1>4. CASE Offer(k)
  BY <1>1, <1>2, <1>4 DEF Offer, TablesOK, reportVars, threadVars
<1>5. CASE Note(k)
  BY <1>1, <1>2, <1>5 DEF Note, TablesOK, reportVars, threadVars
<1>6. CASE DropDraft(k)
  BY <1>1, <1>2, <1>6 DEF DropDraft, TablesOK, threadVars
<1>7. CASE ~(Upsert(k) \/ Offer(k) \/ Note(k) \/ DropDraft(k))
  <2>1. UNCHANGED <<form, about, drafts, expired, offered, offers, orgs, merges, absence>>
    BY <1>7 DEF Step, Fail, Slug, Find, Stash, Owner, Create, AddOrg, Attach, Link, Tell, Unpend,
       reportVars, threadVars
  <2>q. QED
    BY <1>1, <1>2, <2>1 DEF TablesOK
<1>q. QED
  BY <1>3, <1>4, <1>5, <1>6, <1>7

LEMMA WorldTables ==
  ASSUME TypeOK, World \/ UNCHANGED vars \/ \E k \in Tasks, r \in Reports : Click(k, r)
  PROVE  TablesOK' /\ BoundsOK'
<1>1. TablesOK /\ BoundsOK
  BY TypeParts
<1>2. BoundsOK'
  <2>1. \/ UNCHANGED <<raced, runs, world, faults>>
        \/ Elsewhere
        \/ \E k \in Tasks : \E rec : Begin(k, rec) /\ UNCHANGED <<world, faults>>
    BY DEF World, vars, Click, Submit, InApp, SubmitNewOrg, CreateNew, Merge, Detect, OpenPlain,
       OpenOnThread, SweepDraft, SweepPending, LinkThread, Retire, Absent
  <2>q. QED
    <3>1. CASE UNCHANGED <<raced, runs, world, faults>>
      BY <1>1, <3>1 DEF BoundsOK
    <3>2. CASE Elsewhere
      BY <1>1, <3>2 DEF BoundsOK, Elsewhere, Idle
    <3>3. CASE \E k \in Tasks : \E rec : Begin(k, rec) /\ UNCHANGED <<world, faults>>
      BY <1>1, <3>3 DEF BoundsOK, Begin, Idle
    <3>q. QED
      BY <2>1, <3>1, <3>2, <3>3
<1>3. CASE \E k \in Tasks, r \in Reports : Click(k, r)
  <2>1. PICK r \in Reports : form' \in {form, [form EXCEPT ![r] = "sent"]}
    BY <1>3 DEF Click, Submit, InApp, SubmitNewOrg, CreateNew, Merge, reportVars
  <2>2. UNCHANGED <<about, drafts, expired, offered, offers, orgs, merges, absence>>
    BY <1>3 DEF Click, Submit, InApp, SubmitNewOrg, CreateNew, Merge, reportVars, threadVars
  <2>q. QED
    BY <1>1, <1>2, <2>1, <2>2 DEF TablesOK
<1>4. CASE World
  <2>1. CASE \E r \in Reports : OpenPlain(r) \/ SweepDraft(r) \/ SweepPending(r)
    BY <1>1, <1>2, <2>1 DEF OpenPlain, SweepDraft, SweepPending, TablesOK, threadVars
  <2>2. CASE \E r \in Reports, h \in Threads : OpenOnThread(r, h)
    BY <1>1, <1>2, <2>2 DEF OpenOnThread, TablesOK, threadVars
  <2>3. CASE \E h \in Threads : Detect(h)
    BY <1>1, <1>2, <2>3 DEF Detect, TablesOK, reportVars
  <2>4. CASE \E s \in SEs, c \in SEs \cup {None, Present} : Absent(s, c)
    BY <1>1, <1>2, <2>4 DEF Absent, TablesOK, reportVars, threadVars
  <2>5. CASE \/ \E h \in Internal, i \in DOMAIN tickets : LinkThread(h, i)
             \/ \E i \in DOMAIN tickets : Retire(i)
    BY <1>1, <1>2, <2>5 DEF LinkThread, Retire, TablesOK, reportVars, threadVars
  <2>q. QED
    BY <1>4, <2>1, <2>2, <2>3, <2>4, <2>5 DEF World
<1>5. CASE UNCHANGED vars
  BY <1>1, <1>2, <1>5 DEF vars, TablesOK, reportVars, threadVars
<1>q. QED
  BY <1>3, <1>4, <1>5

LEMMA StepNumbers ==
  ASSUME TypeOK, NEW k \in Tasks, Step(k) \/ Fail(k)
  PROVE  NumbersOK'
<1>1. /\ NumbersOK /\ TablesOK /\ task[k] \in TaskRecord /\ SlotOK(task[k], Len(tickets))
      /\ task[k].pc # "idle" => task[k].report \in Reports
  BY TypeParts DEF TasksOK, SlotOK
<1>2. /\ Grown
      /\ pending \in [Reports -> PendingRow(Len(tickets'))]
      /\ link \in [Threads -> 0 .. Len(tickets')] /\ told \in [Threads -> 0 .. Len(tickets')]
  BY <1>1, StepGrown, RowsKept
<1>3. CASE Stash(k)
  <2>1. PICK rec : rec = [candidate |-> task[k].ticket, org |-> task[k].org]
    OBVIOUS
  <2>2. task[k].ticket \in 1 .. Len(tickets) /\ task[k].org \in OrgIds
    BY <1>1, <1>3 DEF Stash, SlotOK, TaskRecord
  <2>3. rec \in PendingRow(Len(tickets))
    BY <1>1, <2>1, <2>2 DEF PendingRow, NumbersOK
  <2>4. pending' = [pending EXCEPT ![task[k].report] = rec] /\ UNCHANGED <<tickets, link, told>>
    BY <1>3, <2>1 DEF Stash, threadVars
  <2>q. QED
    BY <1>1, <2>3, <2>4 DEF NumbersOK
<1>4. CASE Unpend(k)
  <2>1. NotPending \in PendingRow(Len(tickets))
    BY <1>1, OneIsOrg DEF NotPending, PendingRow, NumbersOK
  <2>2. pending' = [pending EXCEPT ![task[k].report] = NotPending]
        /\ UNCHANGED <<tickets, link, told>>
    BY <1>4 DEF Unpend, threadVars
  <2>q. QED
    BY <1>1, <2>1, <2>2 DEF NumbersOK
<1>5. CASE Link(k) \/ Tell(k)
  <2>1. task[k].ticket \in 0 .. Len(tickets)
    BY <1>1, <1>5 DEF Link, Tell, SlotOK
  <2>2. /\ link' \in {link, [link EXCEPT ![about[task[k].report].thread] = task[k].ticket]}
        /\ told' \in {told, [told EXCEPT ![about[task[k].report].thread] = task[k].ticket]}
        /\ UNCHANGED <<tickets, pending>>
    BY <1>5 DEF Link, Tell
  <2>q. QED
    BY <1>1, <2>1, <2>2 DEF NumbersOK
<1>6. CASE ~(Stash(k) \/ Unpend(k) \/ Link(k) \/ Tell(k))
  <2>1. UNCHANGED <<pending, link, told>>
    BY <1>6 DEF Step, Fail, Slug, Upsert, Find, Offer, Owner, Create, AddOrg, Note, Attach,
       DropDraft, threadVars
  <2>q. QED
    BY <1>1, <1>2, <2>1 DEF NumbersOK, Grown
<1>q. QED
  BY <1>3, <1>4, <1>5, <1>6

LEMMA WorldNumbers ==
  ASSUME TypeOK, World \/ UNCHANGED vars \/ \E k \in Tasks, r \in Reports : Click(k, r)
  PROVE  NumbersOK'
<1>1. NumbersOK
  BY TypeParts
<1>2. /\ Grown
      /\ pending \in [Reports -> PendingRow(Len(tickets'))]
      /\ link \in [Threads -> 0 .. Len(tickets')] /\ told \in [Threads -> 0 .. Len(tickets')]
  BY <1>1, WorldGrown, RowsKept
<1>3. CASE \E r \in Reports : SweepPending(r)
  <2>1. NotPending \in PendingRow(Len(tickets))
    BY <1>1, OneIsOrg DEF NotPending, PendingRow, NumbersOK
  <2>2. PICK r \in Reports : /\ pending' = [pending EXCEPT ![r] = NotPending]
                             /\ UNCHANGED <<tickets, link, told>>
    BY <1>3 DEF SweepPending, threadVars
  <2>q. QED
    BY <1>1, <2>1, <2>2 DEF NumbersOK
<1>4. CASE \E h \in Internal, i \in DOMAIN tickets : LinkThread(h, i)
  <2>1. PICK h \in Threads, i \in DOMAIN tickets : LinkThread(h, i)
    BY <1>4, ConstantsAssumption
  <2>2. i \in 0 .. Len(tickets)
    BY <1>1 DEF NumbersOK
  <2>3. link' = [link EXCEPT ![h] = i] /\ UNCHANGED <<tickets, pending, told>>
    BY <2>1 DEF LinkThread
  <2>q. QED
    BY <1>1, <2>2, <2>3 DEF NumbersOK
<1>5. CASE /\ ~\E r \in Reports : SweepPending(r)
           /\ ~\E h \in Internal, i \in DOMAIN tickets : LinkThread(h, i)
  <2>1. UNCHANGED <<pending, link, told>>
    BY <1>5 DEF World, vars, Click, Submit, InApp, SubmitNewOrg, CreateNew, Merge, Detect,
       OpenPlain, OpenOnThread, SweepDraft, Retire, Absent, threadVars
  <2>q. QED
    BY <1>1, <1>2, <2>1 DEF NumbersOK, Grown
<1>q. QED
  BY <1>3, <1>4, <1>5

-----------------------------------------------------------------------------
(* A report that was put aside waits until it comes to an end.             *)

LEMMA WaitingKept ==
  ASSUME Inv, Grown,
         \A r \in Reports : merges[r] > 0 => merges'[r] > 0,
         expired \subseteq expired',
         \A r \in Reports : pending[r].candidate # 0 => pending'[r].candidate # 0 \/ Done(r)',
         \A r \in offered' : r \in offered \/ pending'[r].candidate # 0 \/ Done(r)',
         \A j \in Tasks : task'[j] = task[j] \/ Tracked(task[j])'
  PROVE  Waiting'
<1>1. /\ NumbersOK /\ Waiting /\ offered \subseteq Reports
      /\ \A j \in Tasks : task[j].pc # "idle" => task[j].report \in Reports
  BY TypeParts DEF Inv, TablesOK, TasksOK, SlotOK
<1>2. \A r \in Reports : Done(r) => Done(r)'
  BY <1>1, MadeKept DEF Done
<1>3. \A r \in Reports : pending[r].candidate # 0 \/ Done(r) => pending'[r].candidate # 0 \/ Done(r)'
  BY <1>2
<1>4. \A r \in offered' : pending'[r].candidate # 0 \/ Done(r)'
  BY <1>1, <1>3 DEF Waiting
<1>5. ASSUME NEW j \in Tasks, task'[j] = task[j]
      PROVE  Tracked(task[j])'
  <2>1. CASE task[j].pc = "idle"
    BY <1>5, <2>1 DEF Tracked
  <2>2. CASE task[j].pc # "idle"
    <3>1. Tracked(task[j]) /\ task[j].report \in Reports
      BY <1>1, <2>2 DEF Waiting
    <3>q. QED
      BY <1>1, <1>3, <1>5, <3>1, MadeKept DEF Tracked
  <2>q. QED
    BY <2>1, <2>2
<1>q. QED
  BY <1>4, <1>5 DEF Waiting

\* The record a step leaves in its slot.
LEMMA StepRecord ==
  ASSUME Inv, NEW k \in Tasks, Step(k) \/ Fail(k)
  PROVE  \E rec : /\ task' = [task EXCEPT ![k] = rec]
                  /\ SlotOK(rec, Len(tickets')) /\ Tracked(rec)'
<1>1. /\ NumbersOK /\ NumbersOK' /\ Grown /\ task[k] \in TaskRecord /\ Waiting /\ TablesOK
      /\ SlotOK(task[k], Len(tickets)) /\ Tracked(task[k])
      /\ task[k].pc # "idle" => task[k].report \in Reports /\ task[k].kind \in Kinds
  BY TypeParts, StepGrown, StepNumbers DEF Inv, TasksOK, SlotOK, Waiting
<1>2. SlotOK(NoTask, Len(tickets')) /\ Tracked(NoTask)'
  BY NoTaskTyped DEF Tracked
<1>3. CASE Slug(k)
  <2>1. PICK o \in OrgIds : task' = [task EXCEPT ![k].pc = "upsert", ![k].org = o]
    BY <1>3 DEF Slug
  <2>2. PICK rec : rec = [task[k] EXCEPT !.pc = "upsert", !.org = o]
    OBVIOUS
  <2>3. rec \in TaskRecord /\ rec.pc = "upsert" /\ rec.report \in Reports /\ rec.kind \in Kinds
    BY <1>1, <1>3, <2>2 DEF Slug, TaskRecord, PCs
  <2>q. QED
    BY <1>1, <2>1, <2>2, <2>3 DEF SlotOK, Tracked, TasksOK
<1>4. CASE Upsert(k)
  <2>1. PICK rec : rec = [task[k] EXCEPT !.pc = "find"]
    OBVIOUS
  <2>2. rec \in TaskRecord /\ rec.pc = "find" /\ rec.report \in Reports /\ rec.kind \in Kinds
    BY <1>1, <1>4, <2>1 DEF Upsert, TaskRecord, PCs
  <2>3. task' \in {[task EXCEPT ![k] = NoTask], [task EXCEPT ![k] = rec]}
    BY <1>4, <2>1 DEF Upsert, Goto
  <2>4. SlotOK(rec, Len(tickets')) /\ Tracked(rec)'
    BY <2>2 DEF SlotOK, Tracked
  <2>q. QED
    BY <1>2, <2>3, <2>4
<1>5. CASE Find(k)
  <2>1. tickets' = tickets
    BY <1>5 DEF Find
  <2>2. CASE Goto(k, "owner")
    <3>1. PICK rec : rec = [task[k] EXCEPT !.pc = "owner"]
      OBVIOUS
    <3>2. rec \in TaskRecord /\ rec.pc = "owner" /\ rec.report \in Reports /\ rec.kind \in Kinds
      BY <1>1, <1>5, <3>1 DEF Find, TaskRecord, PCs
    <3>3. SlotOK(rec, Len(tickets')) /\ Tracked(rec)'
      BY <3>2 DEF SlotOK, Tracked
    <3>q. QED
      BY <2>2, <3>1, <3>3 DEF Goto
  <2>3. CASE \E i \in Candidates(task[k].report) :
               task' = [task EXCEPT ![k].pc = "stash", ![k].ticket = i]
    <3>1. PICK i \in 1 .. Len(tickets) :
            task' = [task EXCEPT ![k].pc = "stash", ![k].ticket = i]
      <4>1. Candidates(task[k].report) \subseteq 1 .. Len(tickets)
        BY <1>1 DEF Candidates, NumbersOK
      <4>q. QED
        BY <2>3, <4>1
    <3>2. PICK rec : rec = [task[k] EXCEPT !.pc = "stash", !.ticket = i]
      OBVIOUS
    <3>3. i \in Nat
      BY <1>1 DEF Grown
    <3>4. /\ rec \in TaskRecord /\ rec.pc = "stash" /\ rec.report \in Reports
          /\ rec.kind \in Kinds /\ rec.ticket = i
      BY <1>1, <1>5, <3>2, <3>3 DEF Find, TaskRecord, PCs
    <3>5. SlotOK(rec, Len(tickets')) /\ Tracked(rec)'
      BY <2>1, <3>4 DEF SlotOK, Tracked
    <3>q. QED
      BY <3>1, <3>2, <3>5
  <2>q. QED
    BY <1>5, <2>2, <2>3 DEF Find
<1>6. CASE Stash(k)
  <2>1. PICK rec : rec = [task[k] EXCEPT !.pc = "offer"]
    OBVIOUS
  <2>2. /\ rec \in TaskRecord /\ rec.pc = "offer" /\ rec.report \in Reports /\ rec.kind \in Kinds
        /\ rec.report = task[k].report
    BY <1>1, <1>6, <2>1 DEF Stash, TaskRecord, PCs
  <2>3. pending'[rec.report].candidate # 0
    <3>1. task[k].ticket \in 1 .. Len(tickets)
      BY <1>1, <1>6 DEF Stash, SlotOK
    <3>2. PICK row : row = [candidate |-> task[k].ticket, org |-> task[k].org]
      OBVIOUS
    <3>3. pending' = [pending EXCEPT ![task[k].report] = row] /\ row.candidate # 0
      BY <1>1, <1>6, <3>1, <3>2 DEF Stash, NumbersOK
    <3>q. QED
      BY <1>1, <2>2, <3>3 DEF NumbersOK
  <2>4. SlotOK(rec, Len(tickets')) /\ Tracked(rec)'
    BY <2>2, <2>3 DEF SlotOK, Tracked
  <2>q. QED
    BY <1>6, <2>1, <2>4 DEF Stash, Goto
<1>7. CASE Offer(k) \/ Unpend(k) \/ Fail(k)
  BY <1>2, <1>7 DEF Offer, Unpend, Fail
<1>8. CASE Owner(k)
  <2>1. PICK o \in SEs \cup {None} : task' = [task EXCEPT ![k].pc = "create", ![k].owner = o]
    <3>1. Stamped \subseteq SEs \cup {None}
      BY ConstantsAssumption DEF Stamped, Pick, LeastLoaded
    <3>q. QED
      BY <1>1, <1>8, <3>1, RerouteTyped DEF Owner, TablesOK
  <2>2. PICK rec : rec = [task[k] EXCEPT !.pc = "create", !.owner = o]
    OBVIOUS
  <2>3. rec \in TaskRecord /\ rec.pc = "create" /\ rec.report \in Reports /\ rec.kind \in Kinds
    BY <1>1, <1>8, <2>2 DEF Owner, TaskRecord, PCs
  <2>4. SlotOK(rec, Len(tickets')) /\ Tracked(rec)'
    BY <2>3 DEF SlotOK, Tracked
  <2>q. QED
    BY <2>1, <2>2, <2>4
<1>9. CASE Create(k)
  <2>1. PICK new : /\ new = [report |-> task[k].report, orgs |-> {}, live |-> TRUE,
                             owner |-> task[k].owner]
                   /\ tickets' = Append(tickets, new)
    BY <1>9 DEF Create
  <2>2. new \in Ticket /\ new.report = task[k].report
    BY <1>1, <1>9, <2>1 DEF Create, TaskRecord, Ticket
  <2>3. Len(tickets') = Len(tickets) + 1 /\ tickets'[Len(tickets) + 1] = new
    BY <1>1, <2>1, <2>2, TicketAdded
  <2>4. PICK rec : rec = [task[k] EXCEPT !.pc = "org", !.ticket = Len(tickets) + 1]
    OBVIOUS
  <2>5. /\ rec \in TaskRecord /\ rec.pc = "org" /\ rec.report \in Reports /\ rec.kind \in Kinds
        /\ rec.report = task[k].report /\ rec.ticket = Len(tickets')
    BY <1>1, <1>9, <2>3, <2>4 DEF Create, TaskRecord, PCs, Grown
  <2>6. Made(rec.report)' # {}
    <3>1. PICK i \in DOMAIN tickets' : tickets'[i] = new
      BY <1>1, <2>3 DEF Grown
    <3>q. QED
      BY <2>2, <2>5, <3>1 DEF Made
  <2>7. Len(tickets') \in 1 .. Len(tickets')
    BY <1>1, <2>3 DEF Grown
  <2>8. SlotOK(rec, Len(tickets')) /\ Tracked(rec)'
    BY <2>5, <2>6, <2>7 DEF SlotOK, Tracked
  <2>q. QED
    BY <1>9, <2>4, <2>8 DEF Create
<1>10. CASE AddOrg(k)
  <2>1. PICK rec : rec = [task[k] EXCEPT !.pc = "note"]
    OBVIOUS
  <2>2. /\ rec \in TaskRecord /\ rec.pc = "note" /\ rec.report \in Reports /\ rec.kind \in Kinds
        /\ rec.report = task[k].report /\ rec.kind = task[k].kind
        /\ rec.ticket \in 1 .. Len(tickets)
    BY <1>1, <1>10, <2>1 DEF AddOrg, TaskRecord, PCs, SlotOK
  <2>3. rec.ticket \in 1 .. Len(tickets')
    BY <1>1, <2>2 DEF Grown
  <2>4. rec.kind # "merge" => Made(rec.report)' # {}
    BY <1>1, <1>10, <2>2, MadeKept DEF AddOrg, Tracked
  <2>5. SlotOK(rec, Len(tickets')) /\ Tracked(rec)'
    BY <2>2, <2>3, <2>4 DEF SlotOK, Tracked
  <2>q. QED
    BY <1>10, <2>1, <2>5 DEF AddOrg, Goto
<1>11. CASE Note(k)
  <2>1. PICK rec : rec = [task[k] EXCEPT !.pc = "attach"]
    OBVIOUS
  <2>2. /\ rec \in TaskRecord /\ rec.pc = "attach" /\ rec.report \in Reports /\ rec.kind \in Kinds
        /\ rec.report = task[k].report /\ rec.kind = task[k].kind
        /\ rec.ticket \in 1 .. Len(tickets)
    BY <1>1, <1>11, <2>1 DEF Note, TaskRecord, PCs, SlotOK
  <2>3. tickets' = tickets
    BY <1>11 DEF Note
  <2>4. rec.kind = "merge" => merges'[rec.report] > 0
    BY <1>1, <1>11, <2>2 DEF Note, TablesOK
  <2>5. rec.kind # "merge" => Made(rec.report)' # {}
    BY <1>1, <1>11, <2>2, MadeKept DEF Note, Tracked
  <2>6. SlotOK(rec, Len(tickets')) /\ Tracked(rec)'
    BY <2>2, <2>3, <2>4, <2>5 DEF SlotOK, Tracked
  <2>q. QED
    BY <1>11, <2>1, <2>6 DEF Note, Goto
<1>12. CASE Attach(k) \/ Link(k) \/ Tell(k) \/ DropDraft(k)
  <2>1. tickets' = tickets /\ merges' = merges
    BY <1>12 DEF Attach, Link, Tell, DropDraft
  <2>2. \/ task' = [task EXCEPT ![k] = NoTask]
        \/ \E pc \in PCs, news \in BOOLEAN :
             /\ task' = [task EXCEPT ![k] = [task[k] EXCEPT !.pc = pc, !.news = news]]
             /\ pc \in {"link", "tell", "draft", "unpend"}
             /\ pc \in {"link", "tell"} => task[k].ticket \in 1 .. Len(tickets)
    <3>1. task[k].news \in BOOLEAN
      BY <1>1 DEF TaskRecord
    <3>2. CASE Attach(k)
      <4>1. task[k].ticket \in 1 .. Len(tickets)
        BY <1>1, <3>2 DEF Attach, SlotOK
      <4>2. \E pc \in {"link", "draft"}, news \in BOOLEAN :
              task' = [task EXCEPT ![k] = [task[k] EXCEPT !.pc = pc, !.news = news]]
        BY <3>1, <3>2, <1>1 DEF Attach, TaskRecord
      <4>q. QED
        BY <4>1, <4>2 DEF PCs
    <3>3. CASE Link(k) \/ Tell(k)
      <4>1. task[k].ticket \in 1 .. Len(tickets)
        BY <1>1, <3>3 DEF Link, Tell, SlotOK
      <4>2. \E pc \in {"tell", "draft"} :
              task' = [task EXCEPT ![k] = [task[k] EXCEPT !.pc = pc, !.news = task[k].news]]
        BY <3>1, <3>3, <1>1 DEF Link, Tell, Goto, TaskRecord
      <4>q. QED
        BY <3>1, <4>1, <4>2 DEF PCs
    <3>4. CASE DropDraft(k)
      BY <1>1, <3>1, <3>4 DEF DropDraft, TaskRecord, PCs
    <3>q. QED
      BY <1>12, <3>2, <3>3, <3>4
  <2>3. CASE \E pc \in PCs, news \in BOOLEAN :
               /\ task' = [task EXCEPT ![k] = [task[k] EXCEPT !.pc = pc, !.news = news]]
               /\ pc \in {"link", "tell", "draft", "unpend"}
               /\ pc \in {"link", "tell"} => task[k].ticket \in 1 .. Len(tickets)
    <3>1. PICK pc \in PCs, news \in BOOLEAN :
            /\ task' = [task EXCEPT ![k] = [task[k] EXCEPT !.pc = pc, !.news = news]]
            /\ pc \in {"link", "tell", "draft", "unpend"}
            /\ pc \in {"link", "tell"} => task[k].ticket \in 1 .. Len(tickets)
      BY <2>3
    <3>2. PICK rec : rec = [task[k] EXCEPT !.pc = pc, !.news = news]
      OBVIOUS
    <3>3. /\ rec \in TaskRecord /\ rec.pc = pc /\ rec.report \in Reports /\ rec.kind \in Kinds
          /\ rec.report = task[k].report /\ rec.kind = task[k].kind
          /\ rec.ticket = task[k].ticket
      BY <1>1, <1>12, <3>2 DEF TaskRecord, Attach, Link, Tell, DropDraft
    <3>4. SlotOK(rec, Len(tickets'))
      BY <2>1, <3>1, <3>3 DEF SlotOK
    <3>5. /\ rec.kind = "merge" => merges'[rec.report] > 0
          /\ rec.kind # "merge" => Made(rec.report)' # {}
      BY <1>1, <1>12, <2>1, <3>3, MadeKept DEF Tracked, Attach, Link, Tell, DropDraft
    <3>6. Tracked(rec)'
      BY <3>1, <3>3, <3>5 DEF Tracked
    <3>q. QED
      BY <3>1, <3>2, <3>4, <3>6
  <2>q. QED
    BY <1>2, <2>2, <2>3
<1>q. QED
  BY <1>3, <1>4, <1>5, <1>6, <1>7, <1>8, <1>9, <1>10, <1>11, <1>12 DEF Step

LEMMA StepInv ==
  ASSUME Inv, NEW k \in Tasks, Step(k) \/ Fail(k)
  PROVE  Inv'
<1>1. /\ TypeOK /\ NumbersOK /\ TablesOK /\ TasksOK /\ Waiting /\ SlotOK(task[k], Len(tickets))
      /\ NumbersOK' /\ TablesOK' /\ BoundsOK' /\ Grown
  BY TypeParts, StepGrown, StepNumbers, StepTables DEF Inv, TasksOK
<1>2. PICK rec : /\ task' = [task EXCEPT ![k] = rec]
                 /\ SlotOK(rec, Len(tickets')) /\ Tracked(rec)'
  BY StepRecord
<1>3. TasksOK' /\ task'[k] = rec /\ \A j \in Tasks \ {k} : task'[j] = task[j]
  BY <1>1, <1>2, SlotWritten
<1>4. Tracked(task[k])'
  BY <1>2, <1>3
<1>5. \A r \in Reports : merges[r] > 0 => merges'[r] > 0
  <2>1. CASE Note(k)
    BY <1>1, <2>1 DEF Note, TablesOK
  <2>2. CASE ~Note(k)
    <3>1. merges' = merges
      BY <2>2 DEF Step, Fail, Slug, Upsert, Find, Stash, Offer, Owner, Create, AddOrg, Attach, Link,
         Tell, DropDraft, Unpend
    <3>q. QED
      BY <3>1
  <2>q. QED
    BY <2>1, <2>2
<1>6. expired' = expired
  BY DEF Step, Fail, Slug, Upsert, Find, Stash, Offer, Owner, Create, AddOrg, Note, Attach, Link,
     Tell, DropDraft, Unpend, reportVars
<1>7. \A r \in Reports : Done(r) => Done(r)'
  BY <1>1, <1>5, <1>6, MadeKept DEF Done
<1>8. \A r \in Reports : pending[r].candidate # 0 => pending'[r].candidate # 0 \/ Done(r)'
  <2>1. CASE Stash(k)
    <3>1. task[k].ticket \in 1 .. Len(tickets)
      BY <1>1, <2>1 DEF Stash, SlotOK
    <3>2. PICK row : row = [candidate |-> task[k].ticket, org |-> task[k].org]
      OBVIOUS
    <3>3. pending' = [pending EXCEPT ![task[k].report] = row] /\ row.candidate # 0
      BY <1>1, <2>1, <3>1, <3>2 DEF Stash, NumbersOK
    <3>q. QED
      BY <1>1, <3>3 DEF NumbersOK
  <2>2. CASE Unpend(k)
    <3>1. Done(task[k].report) /\ task[k].report \in Reports
      BY <1>1, <2>2 DEF Unpend, Waiting, Tracked, Done, SlotOK
    <3>2. pending' = [pending EXCEPT ![task[k].report] = NotPending]
      BY <2>2 DEF Unpend
    <3>q. QED
      BY <1>1, <1>7, <3>1, <3>2 DEF NumbersOK
  <2>3. CASE ~Stash(k) /\ ~Unpend(k)
    <3>1. pending' = pending
      BY <2>3 DEF Step, Fail, Slug, Upsert, Find, Offer, Owner, Create, AddOrg, Note, Attach, Link,
         Tell, DropDraft
    <3>q. QED
      BY <3>1
  <2>q. QED
    BY <2>1, <2>2, <2>3
<1>9. \A r \in offered' : r \in offered \/ pending'[r].candidate # 0 \/ Done(r)'
  <2>1. CASE Offer(k)
    <3>1. /\ task[k].report \in Reports
          /\ pending[task[k].report].candidate # 0 \/ Done(task[k].report)
      BY <1>1, <2>1 DEF Offer, Waiting, Tracked, SlotOK
    <3>2. offered' \subseteq offered \cup {task[k].report}
      BY <2>1 DEF Offer
    <3>q. QED
      BY <1>7, <1>8, <3>1, <3>2
  <2>2. CASE ~Offer(k)
    BY <2>2 DEF Step, Fail, Slug, Upsert, Find, Stash, Owner, Create, AddOrg, Note, Attach, Link,
       Tell, DropDraft, Unpend
  <2>q. QED
    BY <2>1, <2>2
<1>10. Waiting'
  BY <1>1, <1>3, <1>4, <1>5, <1>6, <1>8, <1>9, WaitingKept
<1>q. QED
  BY <1>1, <1>3, <1>10, TypeParts DEF Inv, TypeOK, NumbersOK, PendingRow, TablesOK, TasksOK, BoundsOK

LEMMA ClickInv ==
  ASSUME Inv, NEW k \in Tasks, NEW r \in Reports, Click(k, r)
  PROVE  Inv'
<1>1. /\ TypeOK /\ NumbersOK /\ TablesOK /\ TasksOK /\ Waiting
      /\ NumbersOK' /\ TablesOK' /\ BoundsOK' /\ Grown
  BY TypeParts, WorldGrown, WorldNumbers, WorldTables DEF Inv
<1>2. PICK rec : /\ task' = [task EXCEPT ![k] = rec] /\ SlotOK(rec, Len(tickets))
                 /\ rec.pc \in {"find", "slug", "owner", "org"} /\ (rec.pc = "org" => rec.kind = "merge")
  <2>1. CASE \E o \in OrgIds : Submit(k, r, o) \/ InApp(k, r, o)
    <3>1. PICK o \in OrgIds : Submit(k, r, o) \/ InApp(k, r, o)
      BY <2>1
    <3>2. PICK rec : rec = [NoTask EXCEPT !.pc = "find", !.kind = "submit", !.report = r, !.org = o]
      OBVIOUS
    <3>3. rec \in TaskRecord /\ rec.pc = "find" /\ rec.report = r /\ rec.kind \in Kinds
      BY <3>2, NoTaskTyped DEF TaskRecord, PCs, Kinds
    <3>q. QED
      BY <3>1, <3>2, <3>3 DEF Submit, InApp, Begin, SlotOK
  <2>2. CASE \E c \in Threads : SubmitNewOrg(k, r, c)
    <3>1. PICK c \in Threads : SubmitNewOrg(k, r, c)
      BY <2>2
    <3>2. PICK rec : rec = [NoTask EXCEPT !.pc = "slug", !.kind = "new_org", !.report = r,
                              !.channel = c]
      OBVIOUS
    <3>3. rec \in TaskRecord /\ rec.pc = "slug" /\ rec.report = r /\ rec.kind \in Kinds
      BY <3>2, NoTaskTyped DEF TaskRecord, PCs, Kinds
    <3>q. QED
      BY <3>1, <3>2, <3>3 DEF SubmitNewOrg, Begin, SlotOK
  <2>3. CASE CreateNew(k, r) \/ Merge(k, r)
    <3>1. pending[r].org \in OrgIds /\ pending[r].candidate \in 1 .. Len(tickets)
      BY <1>1, <2>3 DEF CreateNew, Merge, Clickable, NumbersOK, PendingRow
    <3>2. CASE CreateNew(k, r)
      <4>1. PICK rec : rec = [NoTask EXCEPT !.pc = "owner", !.kind = "create_new", !.report = r,
                                !.org = pending[r].org]
        OBVIOUS
      <4>2. rec \in TaskRecord /\ rec.pc = "owner" /\ rec.report = r /\ rec.kind \in Kinds
        BY <3>1, <4>1, NoTaskTyped DEF TaskRecord, PCs, Kinds
      <4>q. QED
        BY <3>2, <4>1, <4>2 DEF CreateNew, Begin, SlotOK
    <3>3. CASE Merge(k, r)
      <4>1. PICK rec : rec = [NoTask EXCEPT !.pc = "org", !.kind = "merge", !.report = r,
                                !.org = pending[r].org, !.ticket = pending[r].candidate]
        OBVIOUS
      <4>2. pending[r].candidate \in Nat
        BY <1>1, <3>1 DEF Grown
      <4>3. /\ rec \in TaskRecord /\ rec.pc = "org" /\ rec.report = r /\ rec.kind = "merge"
            /\ rec.kind \in Kinds /\ rec.ticket \in 1 .. Len(tickets)
        BY <3>1, <4>1, <4>2, NoTaskTyped DEF TaskRecord, PCs, Kinds
      <4>q. QED
        BY <3>3, <4>1, <4>3 DEF Merge, Begin, SlotOK
    <3>q. QED
      BY <2>3, <3>2, <3>3
  <2>q. QED
    BY <2>1, <2>2, <2>3 DEF Click
<1>3. UNCHANGED <<tickets, pending, offered, merges, expired>>
  BY DEF Click, Submit, InApp, SubmitNewOrg, CreateNew, Merge, reportVars
<1>4. TasksOK' /\ task'[k] = rec /\ \A j \in Tasks \ {k} : task'[j] = task[j]
  BY <1>1, <1>2, <1>3, SlotWritten
<1>5. Tracked(task[k])'
  BY <1>2, <1>4 DEF Tracked
<1>6. Waiting'
  BY <1>1, <1>3, <1>4, <1>5, WaitingKept
<1>q. QED
  BY <1>1, <1>4, <1>6, TypeParts DEF Inv, TypeOK, NumbersOK, PendingRow, TablesOK, TasksOK, BoundsOK

LEMMA WorldInv ==
  ASSUME Inv, World \/ UNCHANGED vars
  PROVE  Inv'
<1>1. /\ TypeOK /\ NumbersOK /\ TablesOK /\ TasksOK
      /\ NumbersOK' /\ TablesOK' /\ BoundsOK' /\ Grown
  BY TypeParts, WorldGrown, WorldNumbers, WorldTables DEF Inv
<1>2. UNCHANGED <<task, offered, merges>>
  BY DEF World, vars, Detect, OpenPlain, OpenOnThread, SweepDraft, SweepPending, LinkThread, Retire,
     Absent, Elsewhere
<1>3. TasksOK'
  BY <1>1, <1>2 DEF TasksOK, SlotOK, Grown
<1>4. \/ pending' = pending /\ expired' = expired
      \/ \E r \in Reports : /\ pending' = [pending EXCEPT ![r] = NotPending]
                            /\ expired' = expired \cup {r}
  BY DEF World, vars, Detect, OpenPlain, OpenOnThread, SweepDraft, SweepPending, LinkThread, Retire,
     Absent, reportVars
<1>5. /\ expired \subseteq expired'
      /\ \A r \in Reports : pending[r].candidate # 0 => pending'[r].candidate # 0 \/ Done(r)'
  BY <1>1, <1>4 DEF NumbersOK, Done
<1>6. Waiting'
  BY <1>1, <1>2, <1>5, WaitingKept
<1>q. QED
  BY <1>1, <1>3, <1>6, TypeParts DEF Inv, TypeOK, NumbersOK, PendingRow, TablesOK, TasksOK, BoundsOK

LEMMA NextInv == Inv /\ [Next]_vars => Inv'
BY StepInv, ClickInv, WorldInv DEF Next

\* Whatever races, fails or is lost, a handler keeps a report and a ticket that
\* exist, and so do the pending rows and the threads.
THEOREM TypeCorrect == Spec => []TypeOK
<1>1. Inv => TypeOK
  BY DEF Inv
<1>q. QED
  BY <1>1, InitInv, NextInv, PTL DEF Spec

\* No click, crash or race loses a report that was put aside.
THEOREM AlwaysPendingUntilDone == Spec => []PendingUntilDone
<1>1. Inv => PendingUntilDone
  BY DEF Inv, Waiting, Done, PendingUntilDone
<1>q. QED
  BY <1>1, InitInv, NextInv, PTL DEF Spec

-----------------------------------------------------------------------------
(* Handlers one at a time: one end for every report, and threads that know.  *)

\* A report has no end yet, or one.
Unended(x) == Made(x) = {} /\ merges[x] = 0 /\ x \notin expired
Ended(x) ==
  \/ (\E i \in Made(x) : Made(x) = {i}) /\ merges[x] = 0 /\ x \notin expired
  \/ Made(x) = {} /\ merges[x] = 1 /\ x \notin expired
  \/ Made(x) = {} /\ merges[x] = 0 /\ x \in expired
Pends(x) == pending[x].candidate # 0

\* A report that no handler works on.
AtRest(x) ==
  /\ form[x] # "sent" => Unended(x) /\ ~Pends(x)
  /\ form[x] = "sent" => (Unended(x) /\ Pends(x)) \/ (Ended(x) /\ ~Pends(x))

\* A handler has yet to end its report, and its report has a pending row.
Before(r) ==
  \/ r.pc \in {"find", "stash", "offer", "owner", "create"}
  \/ r.kind = "merge" /\ r.pc \in {"org", "note"}
Held(r) == r.pc = "offer" \/ r.kind \in {"create_new", "merge"}

KnowsReport(r) ==
  LET x == r.report IN
  /\ r.pc \in {"slug", "upsert"} => form[x] = "open" /\ AtRest(x)
  /\ r.pc \notin {"idle", "slug", "upsert"} =>
       /\ form[x] = "sent"
       /\ Before(r) => Unended(x)
       /\ ~Before(r) => Ended(x)
       /\ Pends(x) <=> Held(r)
  /\ r.pc \in {"slug", "upsert", "find", "stash"} => r.kind \notin {"create_new", "merge"}
  /\ r.pc \in {"owner", "create"} => r.kind # "merge"
  /\ r.pc = "unpend" => r.kind \in {"create_new", "merge"}

KnowsThread(r) ==
  LET h == about[r.report].thread IN
  /\ r.pc \in {"link", "tell"} => h \in Threads
  /\ r.pc = "link" /\ ~r.news => h \in Internal \/ link[h] = r.ticket
  /\ r.pc = "tell" => link[h] = r.ticket

\* A customer's thread was told its ticket, or is about to be.
Told(h, r) == told[h] = link[h] \/ (r.pc = "tell" /\ about[r.report].thread = h)

InCharge(k) ==
  /\ \A j \in Tasks \ {k} : task[j].pc = "idle"
  /\ task[k].pc = "upsert" => orgs[task[k].org] = None
  /\ faults = 0 =>
       /\ KnowsReport(task[k]) /\ KnowsThread(task[k])
       /\ \A x \in Reports \ {task[k].report} : AtRest(x)
       /\ \A h \in Threads \ Internal : Told(h, task[k])

SerialInv ==
  /\ Inv
  /\ ~raced => /\ \A k \in Tasks : task[k].pc # "idle" => InCharge(k)
               /\ Idle /\ faults = 0 => /\ \A x \in Reports : AtRest(x)
                                        /\ \A h \in Threads \ Internal : told[h] = link[h]

\* A handler at work, and a moment without one, while nothing was lost.
Others(k) ==
  /\ \A x \in Reports \ {task[k].report} : AtRest(x)
  /\ \A h \in Threads \ Internal : Told(h, task[k])
Works(k) == task[k].pc # "idle" /\ KnowsReport(task[k]) /\ KnowsThread(task[k]) /\ Others(k)
AllRest ==
  /\ \A x \in Reports : AtRest(x)
  /\ \A h \in Threads \ Internal : told[h] = link[h]

LEMMA SerialInit == Init => SerialInv
<1> SUFFICES ASSUME Init PROVE SerialInv
  OBVIOUS
<1>1. Inv /\ \A k \in Tasks : task[k].pc = "idle"
  BY InitInv, NoTaskTyped DEF Init
<1>2. tickets = <<>> /\ \A x \in Reports : Made(x) = {}
  BY DEF Init, Made
<1>3. \A x \in Reports : AtRest(x)
  BY <1>2 DEF Init, AtRest, Unended, Pends, NotPending
<1>4. \A h \in Threads \ Internal : told[h] = link[h]
  BY DEF Init
<1>q. QED
  BY <1>1, <1>3, <1>4 DEF SerialInv

\* What the steps of a handler at work have in common.
LEMMA AtWork ==
  ASSUME Inv, NEW k \in Tasks, Works(k)
  PROVE  /\ NumbersOK /\ TablesOK /\ TasksOK
         /\ task \in [Tasks -> TaskRecord] /\ task[k] \in TaskRecord
         /\ SlotOK(task[k], Len(tickets))
         /\ task[k].report \in Reports /\ task[k].kind \in Kinds
BY TypeParts DEF Works, Inv, TasksOK, SlotOK

\* A report whose ticket, merges and form stay as they were.
Still(x) ==
  /\ Made(x)' = Made(x) /\ merges'[x] = merges[x] /\ (x \in expired' <=> x \in expired)
  /\ form'[x] = form[x]

LEMMA StillEnd ==
  ASSUME NEW x, Still(x)
  PROVE  (Unended(x)' <=> Unended(x)) /\ (Ended(x)' <=> Ended(x))
BY DEF Still, Unended, Ended

LEMMA StillRest ==
  ASSUME NEW x, Still(x), pending'[x] = pending[x], AtRest(x)
  PROVE  AtRest(x)'
BY StillEnd DEF Still, AtRest, Pends

LEMMA MadeSame ==
  ASSUME NumbersOK, tickets' = tickets, NEW x
  PROVE  Made(x)' = Made(x)
BY DEF Made

\* A ticket that changes is still of its report.
LEMMA MadeChanged ==
  ASSUME NumbersOK, NEW i \in 1 .. Len(tickets), NEW rec \in Ticket,
         rec.report = tickets[i].report, tickets' = [tickets EXCEPT ![i] = rec], NEW x
  PROVE  Made(x)' = Made(x)
<1>1. /\ DOMAIN tickets' = DOMAIN tickets
      /\ \A j \in DOMAIN tickets : tickets'[j].report = tickets[j].report
  BY DEF NumbersOK
<1>q. QED
  BY <1>1 DEF Made

\* A new one counts for its report alone.
LEMMA MadeAdded ==
  ASSUME NumbersOK, NEW rec \in Ticket, tickets' = Append(tickets, rec), NEW x
  PROVE  /\ x # rec.report => Made(x)' = Made(x)
         /\ x = rec.report => Made(x)' = Made(x) \cup {Len(tickets) + 1}
<1>1. /\ Len(tickets) \in Nat /\ DOMAIN tickets = 1 .. Len(tickets)
      /\ DOMAIN tickets' = 1 .. (Len(tickets) + 1)
      /\ tickets'[Len(tickets) + 1] = rec
      /\ \A j \in 1 .. Len(tickets) : tickets'[j] = tickets[j]
  BY DEF NumbersOK
<1>2. DOMAIN tickets' = DOMAIN tickets \cup {Len(tickets) + 1}
  BY <1>1
<1>q. QED
  BY <1>1, <1>2 DEF Made

\* A step that only reads, or writes what its report's end does not hang on.
LEMMA QuietWork ==
  ASSUME Inv, NEW k \in Tasks, Works(k),
         UNCHANGED <<form, about, pending, merges, expired, link, told>>,
         \A x \in Reports : Made(x)' = Made(x),
         NEW r, r = task[k], NEW s, s = task'[k], s.report = r.report, s.kind = r.kind,
         r.pc # "tell", s.pc # "idle",
         s.pc \in {"slug", "upsert"} <=> r.pc \in {"slug", "upsert"},
         Before(s) <=> Before(r), Held(s) <=> Held(r),
         s.pc \in {"find", "stash"} => r.pc \in {"find", "stash"},
         s.pc \in {"owner", "create"} => r.kind # "merge",
         s.pc # "unpend", KnowsThread(s)'
  PROVE  Works(k)'
<1>1. r.report \in Reports /\ \A x \in Reports : Still(x) /\ pending'[x] = pending[x]
  BY AtWork DEF Still
<1>2. \A x \in Reports : AtRest(x) => AtRest(x)'
  BY <1>1, StillRest
<1>3. KnowsReport(s)'
  BY <1>1, <1>2, StillEnd DEF Works, KnowsReport, Before, Held, Pends
<1>4. Others(k)'
  BY <1>2 DEF Works, Others, Told
<1>q. QED
  BY <1>3, <1>4 DEF Works

\* A slug, a candidate or none, an owner.
LEMMA WorkReads ==
  ASSUME Inv, NEW k \in Tasks, Works(k), Slug(k) \/ Find(k) \/ Owner(k)
  PROVE  Works(k)' /\ (Slug(k) => orgs[task'[k].org] = None /\ orgs' = orgs)
<1>1. PICK r \in TaskRecord : r = task[k]
  BY AtWork
<1>2. PICK s : s = task'[k]
  OBVIOUS
<1>3. /\ UNCHANGED <<form, about, pending, merges, expired, link, told, tickets>>
      /\ r.pc \in {"slug", "find", "owner"}
  BY <1>1 DEF Slug, Find, Owner, reportVars, threadVars
<1>4. \A x \in Reports : Made(x)' = Made(x)
  BY <1>3, MadeSame, AtWork
<1>5. /\ s.report = r.report /\ s.kind = r.kind
      /\ r.pc = "slug" => s.pc = "upsert"
      /\ r.pc = "find" => s.pc \in {"owner", "stash"}
      /\ r.pc = "owner" => s.pc = "create"
      /\ Slug(k) => orgs[s.org] = None /\ orgs' = orgs
  <2>1. CASE Slug(k)
    <3>1. PICK o \in OrgIds : /\ orgs[o] = None /\ orgs' = orgs /\ r.pc = "slug"
                              /\ task' = [task EXCEPT ![k].pc = "upsert", ![k].org = o]
      BY <1>1, <2>1 DEF Slug
    <3>2. PICK rec : rec = [r EXCEPT !.pc = "upsert", !.org = o]
      OBVIOUS
    <3>3. s = rec
      BY <1>1, <1>2, <3>1, <3>2, AtWork
    <3>q. QED
      BY <3>1, <3>2, <3>3 DEF TaskRecord
  <2>2. CASE Find(k)
    <3>1. CASE Goto(k, "owner")
      BY <1>1, <1>2, <2>2, <3>1, AtWork DEF Find, Slug, Goto, TaskRecord
    <3>2. CASE \E i : task' = [task EXCEPT ![k].pc = "stash", ![k].ticket = i]
      <4>1. PICK i : task' = [task EXCEPT ![k].pc = "stash", ![k].ticket = i]
        BY <3>2
      <4>2. PICK rec : rec = [r EXCEPT !.pc = "stash", !.ticket = i]
        OBVIOUS
      <4>3. s = rec /\ r.pc = "find"
        BY <1>1, <1>2, <2>2, <4>1, <4>2, AtWork DEF Find
      <4>q. QED
        BY <1>1, <4>2, <4>3 DEF TaskRecord, Slug
    <3>q. QED
      BY <2>2, <3>1, <3>2 DEF Find
  <2>3. CASE Owner(k)
    <3>1. PICK o : task' = [task EXCEPT ![k].pc = "create", ![k].owner = o]
      BY <2>3 DEF Owner
    <3>2. PICK rec : rec = [r EXCEPT !.pc = "create", !.owner = o]
      OBVIOUS
    <3>3. s = rec /\ r.pc = "owner"
      BY <1>1, <1>2, <2>3, <3>1, <3>2, AtWork DEF Owner
    <3>q. QED
      BY <1>1, <3>2, <3>3 DEF TaskRecord, Slug
  <2>q. QED
    BY <2>1, <2>2, <2>3
<1>6. Held(s) <=> Held(r)
  BY <1>3, <1>5 DEF Held
<1>7. Before(s) <=> Before(r)
  BY <1>3, <1>5 DEF Before
<1>8. /\ s.pc \in {"owner", "create"} => r.kind # "merge"
      /\ KnowsThread(s)'
  BY <1>1, <1>3, <1>5 DEF Works, KnowsReport, KnowsThread
<1>9. Works(k)'
  BY <1>1, <1>2, <1>3, <1>4, <1>5, <1>6, <1>7, <1>8, QuietWork
<1>q. QED
  BY <1>2, <1>5, <1>9

\* The organisation goes on the ticket.
LEMMA WorkAddsOrg ==
  ASSUME Inv, NEW k \in Tasks, Works(k), AddOrg(k)
  PROVE  Works(k)'
<1>1. PICK r \in TaskRecord : r = task[k]
  BY AtWork
<1>2. PICK s : s = task'[k]
  OBVIOUS
<1>3. /\ UNCHANGED <<form, about, pending, merges, expired, link, told>> /\ r.pc = "org"
      /\ s = [r EXCEPT !.pc = "note"]
  BY <1>1, <1>2, AtWork DEF AddOrg, Goto, reportVars, threadVars
<1>4. s.pc = "note" /\ s.report = r.report /\ s.kind = r.kind
  BY <1>3 DEF TaskRecord
<1>5. \A x \in Reports : Made(x)' = Made(x)
  <2>1. PICK i \in 1 .. Len(tickets) : i = r.ticket
    BY <1>1, <1>3, AtWork DEF SlotOK
  <2>2. PICK rec : rec = [tickets[i] EXCEPT !.orgs = @ \cup {r.org}]
    OBVIOUS
  <2>3. tickets[i] \in Ticket /\ r.org \in OrgIds
    BY <2>1, AtWork DEF NumbersOK, TaskRecord
  <2>4. rec \in Ticket /\ rec.report = tickets[i].report
    BY <2>2, <2>3 DEF Ticket
  <2>5. tickets' = [tickets EXCEPT ![i] = rec]
    BY <1>1, <2>1, <2>2 DEF AddOrg
  <2>q. QED
    BY <2>4, <2>5, AtWork, MadeChanged
<1>6. Before(s) <=> Before(r)
  BY <1>3, <1>4 DEF Before
<1>7. Held(s) <=> Held(r)
  BY <1>3, <1>4 DEF Held
<1>8. KnowsThread(s)'
  BY <1>4 DEF KnowsThread
<1>q. QED
  BY <1>1, <1>2, <1>3, <1>4, <1>5, <1>6, <1>7, <1>8, QuietWork

\* It looks whether the thread is on the ticket already.
LEMMA WorkAttaches ==
  ASSUME Inv, NEW k \in Tasks, Works(k), Attach(k)
  PROVE  Works(k)'
<1>1. PICK r \in TaskRecord : r = task[k]
  BY AtWork
<1>2. PICK s : s = task'[k]
  OBVIOUS
<1>3. PICK h : h = about[r.report].thread
  OBVIOUS
<1>4. /\ UNCHANGED <<form, about, pending, merges, expired, link, told, tickets>>
      /\ r.pc = "attach"
  BY <1>1 DEF Attach, reportVars, threadVars
<1>5. \A x \in Reports : Made(x)' = Made(x)
  BY <1>4, MadeSame, AtWork
<1>6. /\ s.report = r.report /\ s.kind = r.kind /\ s.ticket = r.ticket
      /\ \/ s.pc = "draft"
         \/ s.pc = "link" /\ h \in Threads /\ s.news = (h \notin Internal /\ link[h] # r.ticket)
  <2>1. CASE h \in Threads /\ (h \in Internal \/ Mapped(h))
    <3>1. PICK news : news = (h \notin Internal /\ link[h] # r.ticket)
      OBVIOUS
    <3>2. PICK rec : rec = [r EXCEPT !.pc = "link", !.news = news]
      OBVIOUS
    <3>3. task' = [task EXCEPT ![k].pc = "link", ![k].news = news]
      BY <1>1, <1>3, <2>1, <3>1 DEF Attach
    <3>4. s = rec
      BY <1>1, <1>2, <3>2, <3>3, AtWork
    <3>q. QED
      BY <2>1, <3>1, <3>2, <3>4 DEF TaskRecord
  <2>2. CASE ~(h \in Threads /\ (h \in Internal \/ Mapped(h)))
    <3>1. task' = [task EXCEPT ![k].pc = "draft"]
      BY <1>1, <1>3, <2>2 DEF Attach
    <3>q. QED
      BY <1>1, <1>2, <3>1, AtWork DEF TaskRecord
  <2>q. QED
    BY <2>1, <2>2
<1>7. Before(s) <=> Before(r)
  BY <1>4, <1>6 DEF Before
<1>8. Held(s) <=> Held(r)
  BY <1>4, <1>6 DEF Held
<1>9. KnowsThread(s)'
  BY <1>3, <1>4, <1>6 DEF KnowsThread
<1>q. QED
  BY <1>1, <1>2, <1>4, <1>5, <1>6, <1>7, <1>8, <1>9, QuietWork

\* The row of a report in the pending table is written.
LEMMA PendingWritten ==
  ASSUME NumbersOK, NEW x \in Reports, NEW row, pending' = [pending EXCEPT ![x] = row]
  PROVE  pending'[x] = row /\ \A y \in Reports \ {x} : pending'[y] = pending[y]
BY DEF NumbersOK

\* A step of which only its own report, and no thread, can tell.
LEMMA OthersKept ==
  ASSUME Inv, NEW k \in Tasks, Works(k), UNCHANGED <<about, link, told>>, task[k].pc # "tell",
         NEW x \in Reports, x = task[k].report, NEW s, s = task'[k], s.report = x \/ s.pc = "idle",
         \A y \in Reports \ {x} : Still(y) /\ pending'[y] = pending[y]
  PROVE  /\ s.report = x => Others(k)'
         /\ s.pc = "idle" /\ AtRest(x)' => AllRest'
<1>1. \A y \in Reports \ {x} : AtRest(y)'
  BY StillRest DEF Works, Others
<1>2. \A h \in Threads \ Internal : told'[h] = link'[h]
  BY DEF Works, Others, Told
<1>q. QED
  BY <1>1, <1>2 DEF Others, AllRest, Told

\* A new organisation is there or is refused.
LEMMA WorkUpserts ==
  ASSUME Inv, NEW k \in Tasks, Works(k), Upsert(k)
  PROVE  (task'[k].pc # "idle" => Works(k)') /\ (task'[k].pc = "idle" => AllRest')
<1>1. PICK r \in TaskRecord : r = task[k]
  BY AtWork
<1>2. PICK s : s = task'[k]
  OBVIOUS
<1>3. PICK x \in Reports : x = r.report
  BY <1>1, AtWork
<1>4. /\ UNCHANGED <<about, pending, merges, expired, link, told, tickets>> /\ r.pc = "upsert"
      /\ \/ s = NoTask /\ form' = form
         \/ s = [r EXCEPT !.pc = "find"] /\ form' = [form EXCEPT ![x] = "sent"]
  BY <1>1, <1>2, <1>3, AtWork DEF Upsert, Goto, threadVars
<1>5. \A y \in Reports : Made(y)' = Made(y)
  BY <1>4, MadeSame, AtWork
<1>6. \A y \in Reports \ {x} : Still(y) /\ pending'[y] = pending[y]
  BY <1>4, <1>5, AtWork DEF Still, TablesOK
<1>7. AtRest(x) /\ form[x] = "open" /\ r.kind \notin {"create_new", "merge"}
  BY <1>1, <1>3, <1>4 DEF Works, KnowsReport
<1>8. CASE s = NoTask /\ form' = form
  <2>1. AtRest(x)'
    BY <1>4, <1>5, <1>7, <1>8, StillRest DEF Still
  <2>q. QED
    BY <1>1, <1>2, <1>3, <1>4, <1>6, <1>8, <2>1, NoTaskTyped, OthersKept
<1>9. CASE s = [r EXCEPT !.pc = "find"] /\ form' = [form EXCEPT ![x] = "sent"]
  <2>1. s.pc = "find" /\ s.report = x /\ s.kind = r.kind
    BY <1>3, <1>9 DEF TaskRecord
  <2>2. form'[x] = "sent" /\ Unended(x)' /\ ~Pends(x)'
    BY <1>4, <1>5, <1>7, <1>9, AtWork DEF AtRest, Unended, Pends, TablesOK
  <2>3. KnowsReport(s)' /\ KnowsThread(s)'
    BY <1>7, <2>1, <2>2 DEF KnowsReport, KnowsThread, Before, Held
  <2>q. QED
    BY <1>1, <1>2, <1>3, <1>4, <1>6, <2>1, <2>3, OthersKept DEF Works
<1>q. QED
  BY <1>4, <1>8, <1>9

\* The row of a report put aside, and its buttons.
LEMMA WorkStashes ==
  ASSUME Inv, NEW k \in Tasks, Works(k), Stash(k)
  PROVE  Works(k)'
<1>1. PICK r \in TaskRecord : r = task[k]
  BY AtWork
<1>2. PICK s : s = task'[k]
  OBVIOUS
<1>3. PICK x \in Reports : x = r.report
  BY <1>1, AtWork
<1>4. PICK row : row = [candidate |-> r.ticket, org |-> r.org]
  OBVIOUS
<1>5. /\ UNCHANGED <<form, about, merges, expired, link, told, tickets>> /\ r.pc = "stash"
      /\ s = [r EXCEPT !.pc = "offer"] /\ pending' = [pending EXCEPT ![x] = row]
  BY <1>1, <1>2, <1>3, <1>4, AtWork DEF Stash, Goto, reportVars, threadVars
<1>6. s.pc = "offer" /\ s.report = x /\ s.kind = r.kind
  BY <1>3, <1>5 DEF TaskRecord
<1>7. \A y \in Reports : Still(y)
  BY <1>5, MadeSame, AtWork DEF Still
<1>8. pending'[x] = row /\ \A y \in Reports \ {x} : pending'[y] = pending[y]
  BY <1>5, PendingWritten, AtWork
<1>9. Pends(x)'
  <2>1. r.ticket \in 1 .. Len(tickets) /\ Len(tickets) \in Nat
    BY <1>1, <1>5, AtWork DEF SlotOK, NumbersOK
  <2>q. QED
    BY <1>4, <1>8, <2>1 DEF Pends
<1>10. form'[x] = "sent" /\ Unended(x)'
  BY <1>1, <1>3, <1>5, <1>7, StillEnd DEF Works, KnowsReport, Before
<1>11. KnowsReport(s)' /\ KnowsThread(s)'
  BY <1>6, <1>9, <1>10 DEF KnowsReport, KnowsThread, Before, Held
<1>12. \A y \in Reports \ {x} : Still(y) /\ pending'[y] = pending[y]
  BY <1>7, <1>8
<1>q. QED
  BY <1>1, <1>2, <1>3, <1>5, <1>6, <1>11, <1>12, OthersKept DEF Works

LEMMA WorkOffers ==
  ASSUME Inv, NEW k \in Tasks, Works(k), Offer(k)
  PROVE  task'[k].pc = "idle" /\ AllRest'
<1>1. PICK r \in TaskRecord : r = task[k]
  BY AtWork
<1>2. PICK x \in Reports : x = r.report
  BY <1>1, AtWork
<1>3. /\ UNCHANGED <<form, about, pending, merges, expired, link, told, tickets>>
      /\ r.pc = "offer" /\ task'[k].pc = "idle"
  BY <1>1, AtWork, NoTaskTyped DEF Offer, reportVars, threadVars
<1>4. \A y \in Reports : Still(y)
  BY <1>3, MadeSame, AtWork DEF Still
<1>5. form[x] = "sent" /\ Unended(x) /\ Pends(x)
  BY <1>1, <1>2, <1>3 DEF Works, KnowsReport, Before, Held
<1>6. AtRest(x)'
  BY <1>3, <1>4, <1>5, StillRest DEF AtRest
<1>7. \A y \in Reports \ {x} : Still(y) /\ pending'[y] = pending[y]
  BY <1>3, <1>4
<1>q. QED
  BY <1>1, <1>2, <1>3, <1>6, <1>7, OthersKept

\* The ticket: its report has the end it gets.
LEMMA WorkCreates ==
  ASSUME Inv, NEW k \in Tasks, Works(k), Create(k)
  PROVE  Works(k)'
<1>1. PICK r \in TaskRecord : r = task[k]
  BY AtWork
<1>2. PICK s : s = task'[k]
  OBVIOUS
<1>3. PICK x \in Reports : x = r.report
  BY <1>1, AtWork
<1>4. PICK new : new = [report |-> x, orgs |-> {}, live |-> TRUE, owner |-> r.owner]
  OBVIOUS
<1>5. PICK n : n = Len(tickets) + 1
  OBVIOUS
<1>6. /\ UNCHANGED <<form, about, pending, merges, expired, link, told>> /\ r.pc = "create"
      /\ s = [r EXCEPT !.pc = "org", !.ticket = n] /\ tickets' = Append(tickets, new)
  <2>1. PICK rec : rec = [r EXCEPT !.pc = "org", !.ticket = n]
    OBVIOUS
  <2>2. task' = [task EXCEPT ![k] = rec]
    BY <1>1, <1>5, <2>1 DEF Create
  <2>q. QED
    BY <1>1, <1>2, <1>3, <1>4, <2>1, <2>2, AtWork DEF Create, reportVars, threadVars
<1>7. s.pc = "org" /\ s.report = x /\ s.kind = r.kind
  BY <1>3, <1>6 DEF TaskRecord
<1>8. new \in Ticket /\ new.report = x
  BY <1>4 DEF Ticket, TaskRecord
<1>9. Made(x)' = Made(x) \cup {n} /\ \A y \in Reports \ {x} : Made(y)' = Made(y)
  BY <1>5, <1>6, <1>8, AtWork, MadeAdded
<1>10. /\ form[x] = "sent" /\ Unended(x) /\ r.kind # "merge"
       /\ Pends(x) <=> r.kind \in {"create_new", "merge"}
  BY <1>1, <1>3, <1>6 DEF Works, KnowsReport, Before, Held
<1>11. Ended(x)'
  BY <1>6, <1>9, <1>10 DEF Unended, Ended
<1>12. KnowsReport(s)' /\ KnowsThread(s)'
  BY <1>6, <1>7, <1>10, <1>11 DEF KnowsReport, KnowsThread, Before, Held, Pends
<1>13. \A y \in Reports \ {x} : Still(y) /\ pending'[y] = pending[y]
  BY <1>6, <1>9 DEF Still
<1>q. QED
  BY <1>1, <1>2, <1>3, <1>6, <1>7, <1>12, <1>13, OthersKept DEF Works

\* The event: for a merge it is the end of its report.
LEMMA WorkNotes ==
  ASSUME Inv, NEW k \in Tasks, Works(k), Note(k)
  PROVE  Works(k)'
<1>1. PICK r \in TaskRecord : r = task[k]
  BY AtWork
<1>2. PICK s : s = task'[k]
  OBVIOUS
<1>3. PICK x \in Reports : x = r.report
  BY <1>1, AtWork
<1>4. /\ UNCHANGED <<form, about, pending, expired, link, told, tickets>> /\ r.pc = "note"
      /\ s = [r EXCEPT !.pc = "attach"]
      /\ merges' = [merges EXCEPT ![x] = IF r.kind = "merge" THEN @ + 1 ELSE @]
  BY <1>1, <1>2, <1>3, AtWork DEF Note, Goto, reportVars, threadVars
<1>5. s.pc = "attach" /\ s.report = x /\ s.kind = r.kind
  BY <1>3, <1>4 DEF TaskRecord
<1>6. /\ merges'[x] = IF r.kind = "merge" THEN merges[x] + 1 ELSE merges[x]
      /\ \A y \in Reports \ {x} : merges'[y] = merges[y]
  BY <1>4, AtWork DEF TablesOK
<1>7. \A y \in Reports : Made(y)' = Made(y)
  BY <1>4, MadeSame, AtWork
<1>8. form[x] = "sent" /\ (Pends(x) <=> r.kind \in {"create_new", "merge"})
  BY <1>1, <1>3, <1>4 DEF Works, KnowsReport, Held
<1>9. Ended(x)'
  <2>1. CASE r.kind = "merge"
    <3>1. Unended(x)
      BY <1>1, <1>3, <1>4, <2>1 DEF Works, KnowsReport, Before
    <3>q. QED
      BY <1>4, <1>6, <1>7, <2>1, <3>1 DEF Unended, Ended
  <2>2. CASE r.kind # "merge"
    <3>1. Ended(x)
      BY <1>1, <1>3, <1>4, <2>2 DEF Works, KnowsReport, Before
    <3>q. QED
      BY <1>4, <1>6, <1>7, <2>2, <3>1 DEF Ended
  <2>q. QED
    BY <2>1, <2>2
<1>10. KnowsReport(s)' /\ KnowsThread(s)'
  BY <1>4, <1>5, <1>8, <1>9 DEF KnowsReport, KnowsThread, Before, Held, Pends
<1>11. \A y \in Reports \ {x} : Still(y) /\ pending'[y] = pending[y]
  BY <1>4, <1>6, <1>7 DEF Still
<1>q. QED
  BY <1>1, <1>2, <1>3, <1>4, <1>5, <1>10, <1>11, OthersKept DEF Works

\* The thread follows the ticket, and a customer's thread is told.
LEMMA WorkLinks ==
  ASSUME Inv, NEW k \in Tasks, Works(k), Link(k)
  PROVE  Works(k)'
<1>1. PICK r \in TaskRecord : r = task[k]
  BY AtWork
<1>2. PICK s : s = task'[k]
  OBVIOUS
<1>3. PICK x \in Reports : x = r.report
  BY <1>1, AtWork
<1>4. PICK h \in Threads : h = about[x].thread
  BY <1>1, <1>3 DEF Link, Works, KnowsThread
<1>5. /\ UNCHANGED <<form, about, pending, merges, expired, told, tickets>> /\ r.pc = "link"
      /\ link' = [link EXCEPT ![h] = r.ticket]
  BY <1>1, <1>3, <1>4 DEF Link, reportVars
<1>6. /\ s.pc = IF r.news THEN "tell" ELSE "draft"
      /\ s.report = x /\ s.kind = r.kind /\ s.ticket = r.ticket
  BY <1>1, <1>2, <1>3, AtWork DEF Link, Goto, TaskRecord
<1>7. \A y \in Reports : Still(y) /\ pending'[y] = pending[y]
  BY <1>5, MadeSame, AtWork DEF Still
<1>8. KnowsReport(s)'
  <2>1. form[x] = "sent" /\ Ended(x) /\ (Pends(x) <=> r.kind \in {"create_new", "merge"})
    BY <1>1, <1>3, <1>5 DEF Works, KnowsReport, Before, Held
  <2>q. QED
    BY <1>5, <1>6, <1>7, <2>1, StillEnd DEF KnowsReport, Before, Held, Pends
<1>9. link'[h] = r.ticket /\ \A g \in Threads \ {h} : link'[g] = link[g]
  BY <1>5, AtWork DEF NumbersOK
<1>10. KnowsThread(s)'
  BY <1>4, <1>5, <1>6, <1>9 DEF KnowsThread
<1>11. ASSUME NEW g \in Threads \ Internal PROVE Told(g, s)'
  <2>1. told[g] = link[g]
    BY <1>1, <1>5 DEF Works, Others, Told
  <2>2. CASE g # h
    BY <1>5, <1>9, <2>1, <2>2 DEF Told
  <2>3. CASE g = h /\ r.news
    BY <1>4, <1>5, <1>6, <2>3 DEF Told
  <2>4. CASE g = h /\ ~r.news
    <3>1. link[h] = r.ticket
      BY <1>1, <1>3, <1>4, <1>5, <1>11, <2>4 DEF Works, KnowsThread
    <3>q. QED
      BY <1>5, <1>9, <2>1, <2>4, <3>1 DEF Told
  <2>q. QED
    BY <2>2, <2>3, <2>4
<1>12. \A y \in Reports \ {x} : AtRest(y)'
  BY <1>1, <1>3, <1>7, StillRest DEF Works, Others
<1>q. QED
  BY <1>2, <1>6, <1>8, <1>10, <1>11, <1>12 DEF Works, Others

LEMMA WorkTells ==
  ASSUME Inv, NEW k \in Tasks, Works(k), Tell(k), faults' = faults, faults \in Nat
  PROVE  Works(k)'
<1>1. PICK r \in TaskRecord : r = task[k]
  BY AtWork
<1>2. PICK s : s = task'[k]
  OBVIOUS
<1>3. PICK x \in Reports : x = r.report
  BY <1>1, AtWork
<1>4. PICK h \in Threads : h = about[x].thread
  BY <1>1, <1>3 DEF Tell, Works, KnowsThread
<1>5. /\ UNCHANGED <<form, about, pending, merges, expired, link, tickets>> /\ r.pc = "tell"
      /\ told' = [told EXCEPT ![h] = r.ticket]
  BY <1>1, <1>3, <1>4 DEF Tell, Outage, reportVars
<1>6. s.pc = "draft" /\ s.report = x /\ s.kind = r.kind
  BY <1>1, <1>2, <1>3, AtWork DEF Tell, Goto, TaskRecord
<1>7. \A y \in Reports : Still(y) /\ pending'[y] = pending[y]
  BY <1>5, MadeSame, AtWork DEF Still
<1>8. KnowsReport(s)' /\ KnowsThread(s)'
  <2>1. form[x] = "sent" /\ Ended(x) /\ (Pends(x) <=> r.kind \in {"create_new", "merge"})
    BY <1>1, <1>3, <1>5 DEF Works, KnowsReport, Before, Held
  <2>q. QED
    BY <1>5, <1>6, <1>7, <2>1, StillEnd DEF KnowsReport, KnowsThread, Before, Held, Pends
<1>9. told'[h] = r.ticket /\ \A g \in Threads \ {h} : told'[g] = told[g]
  BY <1>5, AtWork DEF NumbersOK
<1>10. link[h] = r.ticket
  BY <1>1, <1>3, <1>4, <1>5 DEF Works, KnowsThread
<1>11. \A g \in Threads \ Internal : Told(g, s)'
  BY <1>1, <1>3, <1>4, <1>5, <1>9, <1>10 DEF Works, Others, Told
<1>12. \A y \in Reports \ {x} : AtRest(y)'
  BY <1>1, <1>3, <1>7, StillRest DEF Works, Others
<1>q. QED
  BY <1>2, <1>6, <1>8, <1>11, <1>12 DEF Works, Others

\* The draft and the pending row go.
LEMMA WorkClears ==
  ASSUME Inv, NEW k \in Tasks, Works(k), DropDraft(k) \/ Unpend(k)
  PROVE  (task'[k].pc # "idle" => Works(k)') /\ (task'[k].pc = "idle" => AllRest')
<1>1. PICK r \in TaskRecord : r = task[k]
  BY AtWork
<1>2. PICK s : s = task'[k]
  OBVIOUS
<1>3. PICK x \in Reports : x = r.report
  BY <1>1, AtWork
<1>4. UNCHANGED <<form, about, merges, expired, link, told, tickets>> /\ r.pc \in {"draft", "unpend"}
  BY <1>1 DEF DropDraft, Unpend, reportVars, threadVars
<1>5. \A y \in Reports : Still(y)
  BY <1>4, MadeSame, AtWork DEF Still
<1>6. /\ form[x] = "sent" /\ Ended(x)
      /\ Pends(x) <=> r.kind \in {"create_new", "merge"}
  BY <1>1, <1>3, <1>4 DEF Works, KnowsReport, Before, Held
<1>7. form'[x] = "sent" /\ Ended(x)'
  BY <1>4, <1>5, <1>6, StillEnd
<1>8. CASE DropDraft(k) /\ r.kind \in {"create_new", "merge"}
  <2>1. pending' = pending /\ s = [r EXCEPT !.pc = "unpend"]
    BY <1>1, <1>2, <1>8, AtWork DEF DropDraft
  <2>2. s.pc = "unpend" /\ s.report = x /\ s.kind = r.kind
    BY <1>3, <2>1 DEF TaskRecord
  <2>3. KnowsReport(s)' /\ KnowsThread(s)'
    BY <1>6, <1>7, <1>8, <2>1, <2>2 DEF KnowsReport, KnowsThread, Before, Held, Pends
  <2>4. \A y \in Reports \ {x} : Still(y) /\ pending'[y] = pending[y]
    BY <1>5, <2>1
  <2>q. QED
    BY <1>1, <1>2, <1>3, <1>4, <2>2, <2>3, <2>4, OthersKept DEF Works
<1>9. CASE DropDraft(k) /\ r.kind \notin {"create_new", "merge"}
  <2>1. pending' = pending /\ s.pc = "idle"
    BY <1>1, <1>2, <1>9, AtWork, NoTaskTyped DEF DropDraft
  <2>2. AtRest(x)'
    BY <1>6, <1>7, <1>9, <2>1 DEF AtRest, Pends
  <2>3. \A y \in Reports \ {x} : Still(y) /\ pending'[y] = pending[y]
    BY <1>5, <2>1
  <2>q. QED
    BY <1>1, <1>2, <1>3, <1>4, <2>1, <2>2, <2>3, OthersKept
<1>10. CASE Unpend(k)
  <2>1. pending' = [pending EXCEPT ![x] = NotPending] /\ s.pc = "idle"
    BY <1>1, <1>2, <1>3, <1>10, AtWork, NoTaskTyped DEF Unpend
  <2>2. pending'[x] = NotPending /\ \A y \in Reports \ {x} : pending'[y] = pending[y]
    BY <2>1, PendingWritten, AtWork
  <2>3. AtRest(x)'
    BY <1>7, <2>2 DEF AtRest, Pends, NotPending
  <2>4. \A y \in Reports \ {x} : Still(y) /\ pending'[y] = pending[y]
    BY <1>5, <2>2
  <2>q. QED
    BY <1>1, <1>2, <1>3, <1>4, <2>1, <2>3, <2>4, OthersKept
<1>q. QED
  BY <1>4, <1>8, <1>9, <1>10

LEMMA WorkSteps ==
  ASSUME Inv, NEW k \in Tasks, Works(k), Step(k), faults' = faults, faults \in Nat
  PROVE  (task'[k].pc # "idle" => Works(k)') /\ (task'[k].pc = "idle" => AllRest')
<1>1. CASE Slug(k) \/ Find(k) \/ Owner(k)
  BY <1>1, WorkReads DEF Works
<1>2. CASE AddOrg(k)
  BY <1>2, WorkAddsOrg DEF Works
<1>3. CASE Attach(k)
  BY <1>3, WorkAttaches DEF Works
<1>4. CASE Upsert(k)
  BY <1>4, WorkUpserts
<1>5. CASE Stash(k)
  BY <1>5, WorkStashes DEF Works
<1>6. CASE Offer(k)
  BY <1>6, WorkOffers
<1>7. CASE Create(k)
  BY <1>7, WorkCreates DEF Works
<1>8. CASE Note(k)
  BY <1>8, WorkNotes DEF Works
<1>9. CASE Link(k)
  BY <1>9, WorkLinks DEF Works
<1>10. CASE Tell(k)
  BY <1>10, WorkTells DEF Works
<1>11. CASE DropDraft(k) \/ Unpend(k)
  BY <1>11, WorkClears
<1>q. QED
  BY <1>1, <1>2, <1>3, <1>4, <1>5, <1>6, <1>7, <1>8, <1>9, <1>10, <1>11 DEF Step

\* A handler that is about to write its organisation has found the slug free.
LEMMA SlugFree ==
  ASSUME Inv, NEW k \in Tasks, Step(k) \/ Fail(k), task'[k].pc = "upsert"
  PROVE  orgs' = orgs /\ orgs[task'[k].org] = None
<1>1. task \in [Tasks -> TaskRecord] /\ task[k] \in TaskRecord
  BY TypeParts DEF Inv, TasksOK
<1>2. CASE Slug(k)
  <2>1. PICK o \in OrgIds : /\ orgs[o] = None /\ orgs' = orgs
                            /\ task' = [task EXCEPT ![k].pc = "upsert", ![k].org = o]
    BY <1>2 DEF Slug
  <2>2. PICK rec : rec = [task[k] EXCEPT !.pc = "upsert", !.org = o]
    OBVIOUS
  <2>3. task'[k] = rec /\ rec.org = o
    BY <1>1, <2>1, <2>2 DEF TaskRecord
  <2>q. QED
    BY <2>1, <2>3
<1>3. CASE Upsert(k) \/ Offer(k) \/ DropDraft(k) \/ Unpend(k) \/ Fail(k)
  BY <1>1, <1>3, NoTaskTyped DEF Upsert, Offer, DropDraft, Unpend, Fail, Goto, TaskRecord
<1>4. CASE Find(k)
  BY <1>1, <1>4 DEF Find, Goto, TaskRecord
<1>5. CASE Stash(k) \/ AddOrg(k) \/ Note(k) \/ Attach(k) \/ Link(k) \/ Tell(k)
  BY <1>1, <1>5 DEF Stash, AddOrg, Note, Attach, Link, Tell, Goto, TaskRecord
<1>6. CASE Owner(k) \/ Create(k)
  BY <1>1, <1>6 DEF Owner, Create, TaskRecord
<1>q. QED
  BY <1>2, <1>3, <1>4, <1>5, <1>6 DEF Step

OrgsStay == \A o \in OrgIds : orgs[o] # None => orgs'[o] = orgs[o]

LEMMA SerialStep ==
  ASSUME SerialInv, NEW k \in Tasks, Step(k) \/ Fail(k), Inv'
  PROVE  SerialInv' /\ (~raced' => OrgsStay)
<1>1. /\ Inv /\ faults \in Nat /\ raced' = raced /\ task[k].pc # "idle"
      /\ task \in [Tasks -> TaskRecord] /\ orgs \in [OrgIds -> Threads \cup {None}]
      /\ (UNCHANGED faults /\ ~Fail(k)) \/ faults' = faults + 1
  <2>1. (UNCHANGED faults /\ ~Fail(k)) \/ Outage
    BY DEF SerialInv, Inv, TypeOK, Step, Fail, Slug, Upsert, Find, Stash, Offer, Owner, Create,
       AddOrg, Note, Attach, Link, Tell, DropDraft, Unpend, Outage
  <2>2. raced' = raced /\ task[k].pc # "idle"
    BY DEF Step, Fail, Slug, Upsert, Find, Stash, Offer, Owner, Create, AddOrg, Note, Attach, Link,
       Tell, DropDraft, Unpend
  <2>q. QED
    BY <2>1, <2>2 DEF SerialInv, Inv, TypeOK, Outage
<1>2. \A j \in Tasks \ {k} : task'[j] = task[j]
  <2>1. PICK rec : task' = [task EXCEPT ![k] = rec]
    BY <1>1, StepRecord
  <2>q. QED
    BY <1>1, <2>1
<1>3. SUFFICES ASSUME ~raced PROVE SerialInv' /\ OrgsStay
  BY <1>1 DEF SerialInv
<1>4. InCharge(k)
  BY <1>1, <1>3 DEF SerialInv
<1>5. \A j \in Tasks \ {k} : task'[j].pc = "idle"
  BY <1>2, <1>4 DEF InCharge
<1>6. ASSUME faults' = 0
      PROVE  (task'[k].pc # "idle" => Works(k)') /\ (task'[k].pc = "idle" => AllRest')
  <2>1. Works(k) /\ faults' = faults /\ Step(k)
    BY <1>1, <1>4, <1>6 DEF InCharge, Works, Others
  <2>q. QED
    BY <1>1, <2>1, WorkSteps
<1>7. OrgsStay
  <2>1. CASE Upsert(k)
    <3>1. orgs[task[k].org] = None
      BY <1>4, <2>1 DEF InCharge, Upsert
    <3>2. orgs' = orgs \/ orgs' = [orgs EXCEPT ![task[k].org] = task[k].channel]
      BY <2>1 DEF Upsert
    <3>q. QED
      BY <1>1, <3>1, <3>2 DEF OrgsStay
  <2>2. CASE ~Upsert(k)
    <3>1. orgs' = orgs
      BY <2>2 DEF Step, Fail, Slug, Find, Stash, Offer, Owner, Create, AddOrg, Note, Attach, Link,
         Tell, DropDraft, Unpend
    <3>q. QED
      BY <3>1 DEF OrgsStay
  <2>q. QED
    BY <2>1, <2>2
<1>8. task'[k].pc # "idle" => InCharge(k)'
  BY <1>1, <1>5, <1>6, SlugFree DEF InCharge, Works, Others
<1>9. Idle' /\ faults' = 0 => AllRest'
  BY <1>6 DEF Idle
<1>q. QED
  BY <1>5, <1>7, <1>8, <1>9 DEF SerialInv, AllRest

LEMMA ClickKept ==
  ASSUME Inv, NEW k \in Tasks, NEW x \in Reports, Click(k, x)
  PROVE  /\ UNCHANGED <<about, expired, threadVars, orgs, tickets, pending, merges, faults>>
         /\ task[k].pc = "idle" /\ (~raced' => ~raced /\ Idle)
         /\ \A j \in Tasks \ {k} : task'[j] = task[j]
         /\ task'[k].pc # "idle" /\ task'[k].report = x
         /\ \/ /\ task'[k].pc = "find" /\ task'[k].kind = "submit"
               /\ form[x] # "sent" /\ form' = [form EXCEPT ![x] = "sent"]
            \/ task'[k].pc = "slug" /\ task'[k].kind = "new_org" /\ form[x] = "open" /\ form' = form
            \/ task'[k].pc = "owner" /\ task'[k].kind = "create_new" /\ Pends(x) /\ form' = form
            \/ task'[k].pc = "org" /\ task'[k].kind = "merge" /\ Pends(x) /\ form' = form
<1>1. task \in [Tasks -> TaskRecord]
  BY DEF Inv, TypeOK
<1>2. CASE \E o \in OrgIds : Submit(k, x, o) \/ InApp(k, x, o)
  <2>1. PICK o \in OrgIds : Submit(k, x, o) \/ InApp(k, x, o)
    BY <1>2
  <2>2. PICK rec : rec = [NoTask EXCEPT !.pc = "find", !.kind = "submit", !.report = x, !.org = o]
    OBVIOUS
  <2>3. rec.pc = "find" /\ rec.kind = "submit" /\ rec.report = x
    BY <2>2 DEF NoTask
  <2>4. Begin(k, rec)
    BY <2>1, <2>2 DEF Submit, InApp
  <2>q. QED
    BY <1>1, <2>1, <2>3, <2>4 DEF Submit, InApp, Begin
<1>3. CASE \E c \in Threads : SubmitNewOrg(k, x, c)
  <2>1. PICK c \in Threads : SubmitNewOrg(k, x, c)
    BY <1>3
  <2>2. PICK rec : rec = [NoTask EXCEPT !.pc = "slug", !.kind = "new_org", !.report = x,
                            !.channel = c]
    OBVIOUS
  <2>3. rec.pc = "slug" /\ rec.kind = "new_org" /\ rec.report = x
    BY <2>2 DEF NoTask
  <2>4. Begin(k, rec)
    BY <2>1, <2>2 DEF SubmitNewOrg
  <2>q. QED
    BY <1>1, <2>1, <2>3, <2>4 DEF SubmitNewOrg, Begin, reportVars
<1>4. CASE CreateNew(k, x)
  <2>1. PICK rec : rec = [NoTask EXCEPT !.pc = "owner", !.kind = "create_new", !.report = x,
                            !.org = pending[x].org]
    OBVIOUS
  <2>2. rec.pc = "owner" /\ rec.kind = "create_new" /\ rec.report = x
    BY <2>1 DEF NoTask
  <2>3. Begin(k, rec)
    BY <1>4, <2>1 DEF CreateNew
  <2>q. QED
    BY <1>1, <1>4, <2>2, <2>3 DEF CreateNew, Begin, Clickable, Pends, reportVars
<1>5. CASE Merge(k, x)
  <2>1. PICK rec : rec = [NoTask EXCEPT !.pc = "org", !.kind = "merge", !.report = x,
                            !.org = pending[x].org, !.ticket = pending[x].candidate]
    OBVIOUS
  <2>2. rec.pc = "org" /\ rec.kind = "merge" /\ rec.report = x
    BY <2>1 DEF NoTask
  <2>3. Begin(k, rec)
    BY <1>5, <2>1 DEF Merge
  <2>q. QED
    BY <1>1, <1>5, <2>2, <2>3 DEF Merge, Begin, Clickable, Pends, reportVars
<1>q. QED
  BY <1>2, <1>3, <1>4, <1>5 DEF Click

LEMMA SerialClick ==
  ASSUME SerialInv, NEW k \in Tasks, NEW x \in Reports, Click(k, x), Inv'
  PROVE  SerialInv' /\ OrgsStay
<1>1. Inv /\ NumbersOK /\ form \in [Reports -> {"none", "open", "sent"}]
  BY TypeParts DEF SerialInv, Inv, TypeOK
<1>2. PICK s : s = task'[k]
  OBVIOUS
<1>3. /\ UNCHANGED <<about, expired, link, told, orgs, tickets, pending, merges, faults>>
      /\ \A j \in Tasks \ {k} : task'[j] = task[j]
      /\ s.pc \in {"find", "slug", "owner", "org"} /\ s.report = x /\ OrgsStay
  BY <1>1, <1>2, ClickKept DEF threadVars, OrgsStay
<1>4. SUFFICES ASSUME ~raced' PROVE SerialInv'
  BY <1>3 DEF SerialInv
<1>5. ~raced /\ Idle
  BY <1>1, <1>4, ClickKept
<1>6. \A j \in Tasks \ {k} : task'[j].pc = "idle"
  BY <1>3, <1>5 DEF Idle
<1>7. ASSUME faults' = 0
      PROVE  KnowsReport(s)' /\ KnowsThread(s)' /\ Others(k)'
  <2>1. AllRest
    BY <1>3, <1>5, <1>7 DEF SerialInv, AllRest
  <2>2. \A y \in Reports : Made(y)' = Made(y) /\ pending'[y] = pending[y]
    BY <1>1, <1>3, MadeSame
  <2>3. \A y \in Reports \ {x} : form'[y] = form[y]
    BY <1>1, ClickKept
  <2>4. \A y \in Reports \ {x} : AtRest(y)'
    BY <1>3, <2>1, <2>2, <2>3, StillRest DEF Still, AllRest
  <2>5. Others(k)'
    BY <1>2, <1>3, <2>1, <2>4 DEF AllRest, Others, Told
  <2>6. KnowsThread(s)'
    BY <1>3 DEF KnowsThread
  <2>7. AtRest(x)
    BY <2>1 DEF AllRest
  <2>8. (Unended(x)' <=> Unended(x)) /\ (Pends(x)' <=> Pends(x))
    BY <1>3, <2>2 DEF Unended, Pends
  <2>9. KnowsReport(s)'
    <3>1. CASE s.pc = "find" /\ s.kind = "submit" /\ form[x] # "sent"
               /\ form' = [form EXCEPT ![x] = "sent"]
      <4>1. form'[x] = "sent" /\ Unended(x)' /\ ~Pends(x)'
        BY <1>1, <2>7, <2>8, <3>1 DEF AtRest
      <4>q. QED
        BY <1>3, <3>1, <4>1 DEF KnowsReport, Before, Held
    <3>2. CASE s.pc = "slug" /\ s.kind = "new_org" /\ form[x] = "open" /\ form' = form
      <4>1. AtRest(x)'
        BY <1>3, <2>2, <2>7, <3>2, StillRest DEF Still
      <4>q. QED
        BY <1>3, <3>2, <4>1 DEF KnowsReport, Before, Held
    <3>3. CASE \/ s.pc = "owner" /\ s.kind = "create_new" /\ Pends(x) /\ form' = form
               \/ s.pc = "org" /\ s.kind = "merge" /\ Pends(x) /\ form' = form
      <4>1. form'[x] = "sent" /\ Unended(x)' /\ Pends(x)'
        BY <2>7, <2>8, <3>3 DEF AtRest
      <4>q. QED
        BY <1>3, <3>3, <4>1 DEF KnowsReport, Before, Held
    <3>q. QED
      BY <1>1, <1>2, <3>1, <3>2, <3>3, ClickKept
  <2>q. QED
    BY <2>5, <2>6, <2>9
<1>8. InCharge(k)'
  BY <1>2, <1>3, <1>6, <1>7 DEF InCharge, Others
<1>9. task'[k].pc # "idle"
  BY <1>2, <1>3
<1>q. QED
  BY <1>6, <1>8, <1>9 DEF SerialInv, Idle

\* A form opens, perhaps while a handler is at work on another report.
LEMMA SerialOpen ==
  ASSUME SerialInv, Inv', NEW x \in Reports, OpenPlain(x) \/ \E h \in Threads : OpenOnThread(x, h)
  PROVE  SerialInv' /\ OrgsStay
<1>1. Inv /\ NumbersOK /\ TablesOK
  BY TypeParts DEF SerialInv, Inv
<1>2. /\ UNCHANGED <<expired, link, told, orgs, tickets, pending, merges, task, raced, faults>>
      /\ form[x] = "none" /\ form' = [form EXCEPT ![x] = "open"]
      /\ \A y \in Reports \ {x} : about'[y] = about[y]
  BY <1>1 DEF OpenPlain, OpenOnThread, threadVars, TablesOK
<1>3. /\ form'[x] = "open" /\ \A y \in Reports \ {x} : form'[y] = form[y]
      /\ \A y \in Reports : Made(y)' = Made(y) /\ pending'[y] = pending[y]
  BY <1>1, <1>2, MadeSame DEF TablesOK
<1>4. \A y \in Reports : AtRest(y) => AtRest(y)'
  BY <1>2, <1>3 DEF AtRest, Unended, Ended, Pends
<1>5. OrgsStay
  BY <1>2 DEF OrgsStay
<1>6. SUFFICES ASSUME ~raced, NEW k \in Tasks, task[k].pc # "idle", InCharge(k), faults = 0
               PROVE  KnowsReport(task[k])' /\ KnowsThread(task[k])' /\ Others(k)'
  BY <1>2, <1>4, <1>5 DEF SerialInv, InCharge, Others, Idle
<1>7. PICK r : r = task[k] /\ r = task'[k]
  BY <1>2
<1>8. Works(k)
  BY <1>6 DEF InCharge, Works, Others
<1>9. PICK z \in Reports : z = r.report
  BY <1>1, <1>7, <1>8, AtWork
<1>10. z # x
  BY <1>2, <1>6, <1>7, <1>9 DEF InCharge, KnowsReport
<1>11. Still(z) /\ about'[z] = about[z] /\ pending'[z] = pending[z]
  BY <1>2, <1>3, <1>10 DEF Still
<1>12. KnowsReport(r)'
  BY <1>4, <1>6, <1>7, <1>9, <1>11, StillEnd DEF InCharge, KnowsReport, Before, Held, Pends, Still
<1>13. KnowsThread(r)'
  BY <1>2, <1>6, <1>7, <1>9, <1>11 DEF InCharge, KnowsThread
<1>14. Others(k)'
  BY <1>2, <1>4, <1>7, <1>8, <1>9, <1>11 DEF Works, Others, Told
<1>q. QED
  BY <1>7, <1>12, <1>13, <1>14

\* Something else happens between two handlers.
LEMMA SerialWorld ==
  ASSUME SerialInv, Inv', World
  PROVE  SerialInv' /\ OrgsStay
<1>1. Inv /\ NumbersOK /\ TablesOK
  BY TypeParts DEF SerialInv, Inv
<1>2. CASE \E x \in Reports : OpenPlain(x) \/ \E h \in Threads : OpenOnThread(x, h)
  BY <1>2, SerialOpen
<1>3. CASE ~\E x \in Reports : OpenPlain(x) \/ \E h \in Threads : OpenOnThread(x, h)
  <2>1. /\ UNCHANGED <<form, about, orgs, merges, told, task, faults>>
        /\ ~raced' => ~raced /\ Idle
    BY <1>3 DEF World, Detect, SweepDraft, SweepPending, LinkThread, Retire, Absent, Elsewhere,
       reportVars, threadVars
  <2>2. OrgsStay
    BY <2>1 DEF OrgsStay
  <2>3. SUFFICES ASSUME ~raced', faults' = 0 PROVE AllRest'
    BY <2>1, <2>2 DEF SerialInv, AllRest, Idle
  <2>4. AllRest
    BY <2>1, <2>3 DEF SerialInv, AllRest
  <2>5. \A y \in Reports : Made(y)' = Made(y)
    <3>1. CASE \E i \in DOMAIN tickets : Retire(i)
      <4>1. PICK i \in 1 .. Len(tickets) : tickets' = [tickets EXCEPT ![i].live = FALSE]
        <5>1. PICK i \in DOMAIN tickets : Retire(i)
          BY <3>1
        <5>2. i \in 1 .. Len(tickets)
          BY <1>1 DEF NumbersOK
        <5>q. QED
          BY <5>1, <5>2 DEF Retire
      <4>2. PICK rec : rec = [tickets[i] EXCEPT !.live = FALSE]
        OBVIOUS
      <4>3. tickets[i] \in Ticket
        BY <1>1 DEF NumbersOK
      <4>4. rec \in Ticket /\ rec.report = tickets[i].report
        BY <4>2, <4>3 DEF Ticket
      <4>5. tickets' = [tickets EXCEPT ![i] = rec]
        BY <4>1, <4>2
      <4>q. QED
        BY <1>1, <4>4, <4>5, MadeChanged
    <3>2. CASE ~\E i \in DOMAIN tickets : Retire(i)
      <4>1. tickets' = tickets
        BY <1>3, <3>2 DEF World, Detect, SweepDraft, SweepPending, LinkThread, Absent
      <4>q. QED
        BY <1>1, <4>1, MadeSame
    <3>q. QED
      BY <3>1, <3>2
  <2>6. \A y \in Reports : AtRest(y)'
    <3>1. CASE \E x \in Reports : SweepPending(x)
      <4>1. PICK x \in Reports : SweepPending(x)
        BY <3>1
      <4>2. Pends(x) /\ pending' = [pending EXCEPT ![x] = NotPending] /\ expired' = expired \cup {x}
        BY <4>1 DEF SweepPending, Pends
      <4>3. pending'[x] = NotPending /\ \A y \in Reports \ {x} : pending'[y] = pending[y]
        BY <1>1, <4>2, PendingWritten
      <4>4. form[x] = "sent" /\ Unended(x)
        BY <2>4, <4>2 DEF AllRest, AtRest
      <4>5. Ended(x)' /\ ~Pends(x)'
        BY <2>1, <2>5, <4>2, <4>3, <4>4 DEF Unended, Ended, Pends, NotPending
      <4>6. AtRest(x)'
        BY <2>1, <4>4, <4>5 DEF AtRest
      <4>7. \A y \in Reports \ {x} : Still(y)
        BY <2>1, <2>5, <4>2 DEF Still
      <4>q. QED
        BY <2>4, <4>3, <4>6, <4>7, StillRest DEF AllRest
    <3>2. CASE ~\E x \in Reports : SweepPending(x)
      <4>1. pending' = pending /\ expired' = expired
        BY <1>3, <3>2 DEF World, Detect, SweepDraft, LinkThread, Retire, Absent, reportVars
      <4>2. \A y \in Reports : Still(y) /\ pending'[y] = pending[y]
        BY <2>1, <2>5, <4>1 DEF Still
      <4>q. QED
        BY <2>4, <4>2, StillRest DEF AllRest
    <3>q. QED
      BY <3>1, <3>2
  <2>7. \A h \in Threads \ Internal : told'[h] = link'[h]
    <3>1. CASE \E h \in Internal, i \in DOMAIN tickets : LinkThread(h, i)
      <4>1. PICK h \in Internal, i \in DOMAIN tickets : link' = [link EXCEPT ![h] = i]
        BY <3>1 DEF LinkThread
      <4>q. QED
        BY <1>1, <2>1, <2>4, <4>1 DEF AllRest, NumbersOK
    <3>2. CASE ~\E h \in Internal, i \in DOMAIN tickets : LinkThread(h, i)
      <4>1. link' = link
        BY <1>3, <3>2 DEF World, Detect, SweepDraft, SweepPending, Retire, Absent, threadVars
      <4>q. QED
        BY <2>1, <2>4, <4>1 DEF AllRest
    <3>q. QED
      BY <3>1, <3>2
  <2>q. QED
    BY <2>6, <2>7 DEF AllRest
<1>q. QED
  BY <1>2, <1>3

LEMMA SerialNext == SerialInv /\ [Next]_vars => SerialInv' /\ (~raced' => OrgsStay)
<1>1. SUFFICES ASSUME SerialInv, [Next]_vars PROVE SerialInv' /\ (~raced' => OrgsStay)
  OBVIOUS
<1>2. Inv /\ Inv' /\ NumbersOK
  BY <1>1, NextInv, TypeParts DEF SerialInv, Inv
<1>3. CASE UNCHANGED vars
  <2>1. /\ UNCHANGED <<form, about, expired, link, told, orgs, tickets, pending, merges, task, raced,
                       faults>>
    BY <1>3 DEF vars, reportVars, threadVars
  <2>2. \A y \in Reports : Made(y)' = Made(y)
    BY <1>2, <2>1, MadeSame
  <2>3. \A y \in Reports : AtRest(y) => AtRest(y)'
    BY <2>1, <2>2, StillRest DEF Still
  <2>4. ASSUME NEW k \in Tasks, task[k].pc # "idle", InCharge(k), faults = 0
        PROVE  KnowsReport(task[k])' /\ KnowsThread(task[k])' /\ Others(k)'
    <3>1. PICK r : r = task[k] /\ r = task'[k]
      BY <2>1
    <3>2. PICK z \in Reports : z = r.report
      BY <1>2, <2>4, <3>1, TypeParts DEF TasksOK, SlotOK, Inv
    <3>3. Still(z)
      BY <2>1, <2>2 DEF Still
    <3>4. KnowsReport(r)'
      BY <2>1, <2>3, <2>4, <3>1, <3>2, <3>3, StillEnd DEF InCharge, KnowsReport, Before, Held, Pends
    <3>5. KnowsThread(r)' /\ Others(k)'
      BY <2>1, <2>3, <2>4, <3>1, <3>2 DEF InCharge, KnowsThread, Others, Told
    <3>q. QED
      BY <3>1, <3>4, <3>5
  <2>5. ASSUME NEW k \in Tasks, task[k].pc # "idle", InCharge(k) PROVE InCharge(k)'
    BY <2>1, <2>4, <2>5 DEF InCharge, Others
  <2>6. Idle /\ faults = 0 /\ AllRest => AllRest'
    BY <2>1, <2>3 DEF AllRest
  <2>q. QED
    BY <1>1, <1>2, <2>1, <2>5, <2>6 DEF SerialInv, AllRest, Idle, OrgsStay
<1>4. CASE \E k \in Tasks : Step(k) \/ Fail(k)
  BY <1>1, <1>2, <1>4, SerialStep
<1>5. CASE \E k \in Tasks, x \in Reports : Click(k, x)
  BY <1>1, <1>2, <1>5, SerialClick
<1>6. CASE World
  BY <1>1, <1>2, <1>6, SerialWorld
<1>q. QED
  BY <1>1, <1>3, <1>4, <1>5, <1>6 DEF Next

\* Of submissions one at a time, each ends as one ticket, one merge or one removal,
\* and waits until then.
THEOREM AlwaysOneOutcome == Spec => []OneOutcome
<1>1. ASSUME NEW x, Unended(x) PROVE Outcomes(x) = 0
  BY <1>1, FS_EmptySet DEF Unended, Outcomes
<1>2. ASSUME NEW x, Ended(x) PROVE Outcomes(x) = 1
  <2>1. CASE /\ \E i \in Made(x) : Made(x) = {i}
             /\ merges[x] = 0 /\ x \notin expired
    <3>1. Cardinality(Made(x)) = 1
      BY <2>1, FS_Singleton
    <3>q. QED
      BY <2>1, <3>1 DEF Outcomes
  <2>2. CASE Made(x) = {}
    <3>1. Cardinality(Made(x)) = 0
      BY <2>2, FS_EmptySet
    <3>q. QED
      BY <1>2, <2>2, <3>1 DEF Ended, Outcomes
  <2>q. QED
    BY <1>2, <2>1, <2>2 DEF Ended
<1>3. ASSUME SerialInv PROVE OneOutcome
  <2>1. SUFFICES ASSUME ~raced, faults = 0, NEW x \in Reports
                 PROVE  /\ Outcomes(x) <= 1
                        /\ Idle /\ form[x] = "sent" =>
                             (Outcomes(x) = 1 <=> pending[x].candidate = 0)
    BY DEF OneOutcome
  <2>2. CASE AtRest(x)
    BY <1>1, <1>2, <2>2 DEF AtRest, Pends
  <2>3. CASE ~AtRest(x)
    <3>1. ~Idle
      BY <1>3, <2>1, <2>3 DEF SerialInv
    <3>2. PICK k \in Tasks : task[k].pc # "idle"
      BY <3>1 DEF Idle
    <3>3. task[k].report = x /\ KnowsReport(task[k])
      BY <1>3, <2>1, <2>3, <3>2 DEF SerialInv, InCharge
    <3>4. Unended(x) \/ Ended(x)
      BY <2>3, <3>2, <3>3 DEF KnowsReport
    <3>q. QED
      BY <1>1, <1>2, <3>1, <3>4
  <2>q. QED
    BY <2>2, <2>3
<1>q. QED
  BY <1>3, SerialInit, SerialNext, PTL DEF Spec

\* Of submissions one at a time, none leaves a customer's thread with the number of
\* another ticket than the one it is on.
THEOREM AlwaysToldItsTicket == Spec => []ToldItsTicket
<1>1. SerialInv => ToldItsTicket
  BY DEF SerialInv, ToldItsTicket
<1>q. QED
  BY <1>1, SerialInit, SerialNext, PTL DEF Spec

\* Of new organisations one at a time, none takes the row of another.
THEOREM OrgsAlwaysKept == Spec => OrgsKept
<1>1. SerialInv /\ [Next]_vars =>
        [\A o \in OrgIds : ~raced' /\ orgs[o] # None => orgs'[o] = orgs[o]]_vars
  BY SerialNext DEF OrgsStay
<1>q. QED
  BY <1>1, SerialInit, SerialNext, PTL DEF Spec, OrgsKept
=============================================================================

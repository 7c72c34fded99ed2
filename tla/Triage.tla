------------------------------- MODULE Triage -------------------------------
(***************************************************************************)
(* What a ticket is, and how much it matters.                              *)
(*                                                                         *)
(* People change a ticket's priority, type, deadline, reply flag, affected *)
(* organisations and their CSMs: from its card, from a message that        *)
(* suggests a higher priority, or by merging a report.  Every change is    *)
(* written, the card is drawn again from what is in the database, and      *)
(* Linear gets the priority and the label of the type.  A ticket that      *)
(* gains an organisation may get a higher priority suggested.  Handlers    *)
(* overlap.  Status, lane and owners, and the notices that a reclassified  *)
(* ticket sends, are left out.                                             *)
(***************************************************************************)
EXTENDS FiniteSets, PriorityMatrix

CONSTANTS
  Tickets,
  Orgs,
  Csms,
  Days,       \* deadlines
  Choices,    \* types with a subtype, as the reclassify form offers them
  Critical,   \* the tickets about a critical-path feature
  None,       \* NULL
  Several,    \* from so many organisations on a ticket is P1; the code says 3
  Many,       \* from so many on a critical one is a P0 candidate; the code says 5
  Tasks,      \* slots of the handlers that Slack starts
  MaxRuns,    \* bound: how many handlers a behaviour starts
  MaxRaces,   \* bound: how many, once they have raced
  MaxFaults   \* bound: how many handlers or calls get lost

\* value_objects.py: the subtypes of each type.
SubtypesFor ==
  [bug |-> {"platform-wide", "customer-specific"},
   config |-> {"setup-integration", "custom-form", "consultative", "reporting"},
   faq |-> {"existing-article", "update-article", "needs-article"},
   feature_request |-> {"new-capability", "enhancement"},
   csm_help |-> {"csm-assistance"}]

Types == DOMAIN SubtypesFor
Subtypes == UNION {SubtypesFor[y] : y \in Types}

ASSUME ConstantsAssumption ==
  /\ MaxRuns \in Nat /\ MaxRaces \in Nat /\ MaxFaults \in Nat
  /\ Several \in Nat /\ Many \in Nat /\ 2 < Several /\ Several <= Many
  /\ Critical \subseteq Tickets
  /\ \A c \in Choices : c.type \in Types /\ c.subtype \in SubtypesFor[c.type]
  /\ None \notin Tickets \cup Orgs \cup Csms \cup Days

VARIABLES
  row,       \* priority, type, subtype, reply_needed and deadline
  orgs,      \* ticket_orgs
  csm,       \* orgs.csm_user_id
  card,      \* what the card shows
  linear,    \* the issue's priority and type labels
  logged,    \* the priority and the type that the last audit rows went to
  buttons,   \* the suggestions in the SE's messages
  best,      \* the highest priority a ticket has had
  task,      \* the handlers in flight
  raced,     \* did anything ever start before everything else was done
  runs, faults  \* bounds

vars == <<row, orgs, csm, card, linear, logged, buttons, best, task, raced, runs, faults>>

Priorities == 0 .. 4

Row == [priority: Priorities, type: Types, subtype: Subtypes, reply: BOOLEAN,
        deadline: Days \cup {None}]

View == [row: Row, orgs: SUBSET Orgs, csms: SUBSET Csms]

PCs == {"idle", "priority", "type", "reply", "deadline", "org", "csm", "audit",
        "card", "names", "post", "push", "linear", "unlabel", "label", "count", "suggest"}
Kinds == {"priority", "reclassify", "platform", "reply", "deadline", "add", "merge", "csm"}

\* "to" is the row a handler wants; "view" is the card it is about to draw.
NoRow == [priority |-> 4, type |-> "bug", subtype |-> "platform-wide", reply |-> FALSE,
          deadline |-> None]
NoTask == [pc |-> "idle", kind |-> None, ticket |-> None, seen |-> NoRow, to |-> NoRow,
           org |-> None, csm |-> None, queue |-> {},
           view |-> [row |-> NoRow, orgs |-> {}, csms |-> {}]]

TaskRecord == [pc: PCs, kind: Kinds \cup {None}, ticket: Tickets \cup {None}, seen: Row,
               to: Row, org: Orgs \cup {None}, csm: Csms \cup {None}, queue: SUBSET Orgs,
               view: View]

\* A handler past its start has a ticket, and what its next step needs.
SlotOK(r) ==
  /\ r \in TaskRecord
  /\ r.pc # "idle" => r.ticket \in Tickets
  /\ r.pc = "org" => r.org \in Orgs
  /\ r.pc = "type" => r.to.subtype \in SubtypesFor[r.to.type]

TypeOK ==
  /\ row \in [Tickets -> Row]
  /\ orgs \in [Tickets -> SUBSET Orgs]
  /\ csm \in [Orgs -> Csms \cup {None}]
  /\ card \in [Tickets -> View]
  /\ linear \in [Tickets -> [priority: 1 .. 4, labels: SUBSET Types]]
  /\ logged \in [Tickets -> [priority: Priorities, type: Types]]
  /\ buttons \in SUBSET [ticket: Tickets, priority: Priorities]
  /\ best \in [Tickets -> Priorities]
  /\ task \in [Tasks -> TaskRecord]
  /\ \A k \in Tasks : SlotOK(task[k])
  /\ raced \in BOOLEAN /\ runs \in Nat /\ faults \in Nat

-----------------------------------------------------------------------------
(* Helpers.                                                                *)

Idle == \A k \in Tasks : task[k].pc = "idle"

CsmsOf(os) == {csm[o] : o \in os} \ {None}

\* build_blocks, as far as the card can be stale.
Shown(t) == [row |-> row[t], orgs |-> orgs[t], csms |-> CsmsOf(orgs[t])]

\* ticket_priority_to_linear: five tiers on four levels, P2 and P3 share one.
ToLinear == [p \in Priorities |-> IF p <= 2 THEN p + 1 ELSE p]

\* bump_one_tier: P0 is the end.
BumpOneTier(p) == IF p = 0 THEN 0 ELSE p - 1

\* Mutant of Suggestion: P1 from one organisation more than it should.
SuggestionLate(n, p, critical) ==
  IF n >= Many /\ critical THEN {0} \ {p}
  ELSE IF n > Several THEN IF p > 1 THEN {1} ELSE {}
  ELSE IF n = 2 THEN {BumpOneTier(p)} \ {p}
  ELSE {}

\* MultiCustomerBumpCheck: the priority to suggest, if any.
Suggestion(n, p, critical) ==
  IF n >= Many /\ critical THEN {0} \ {p}
  ELSE IF n >= Several THEN IF p > 1 THEN {1} ELSE {}
  ELSE IF n = 2 THEN {BumpOneTier(p)} \ {p}
  ELSE {}

\* A click or a form starts a handler.
Begin(k, r) ==
  /\ task[k].pc = "idle"
  /\ raced' = (raced \/ ~Idle)
  /\ runs < IF raced' THEN MaxRaces ELSE MaxRuns
  /\ runs' = runs + 1
  /\ task' = [task EXCEPT ![k] = r]

Goto(k, pc) == task' = [task EXCEPT ![k].pc = pc]
Finish(k) == task' = [task EXCEPT ![k] = NoTask]

Outage ==
  /\ faults < MaxFaults
  /\ faults' = faults + 1

\* A bug is logged with a priority from the matrix, another ticket with P2 or P4.
Logged(c) ==
  {[NoRow EXCEPT !.type = c.type, !.subtype = c.subtype, !.priority = p] :
     p \in IF c.type = "bug" THEN LoggedWith ELSE {2, 4}}

\* Every ticket was logged, and mirrored.
Init ==
  /\ row \in [Tickets -> UNION {Logged(c) : c \in Choices}]
  /\ orgs \in [Tickets -> {{o} : o \in Orgs}]
  /\ csm = [o \in Orgs |-> None]
  /\ card = [t \in Tickets |-> Shown(t)]
  /\ linear = [t \in Tickets |-> [priority |-> ToLinear[row[t].priority], labels |-> {row[t].type}]]
  /\ logged = [t \in Tickets |-> [priority |-> row[t].priority, type |-> row[t].type]]
  /\ buttons = {}
  /\ best = [t \in Tickets |-> row[t].priority]
  /\ task = [k \in Tasks |-> NoTask]
  /\ raced = FALSE /\ runs = 0 /\ faults = 0

-----------------------------------------------------------------------------
(* How a handler starts: it reads the ticket, and returns when there is    *)
(* nothing to do.                                                          *)

data == <<row, orgs, csm, card, linear, logged, buttons, best>>

\* ApplyPriorityChange, for the select on the card and for a suggestion's button.
SetPriority(k, t, p) ==
  /\ row[t].priority # p
  /\ Begin(k, [NoTask EXCEPT !.pc = "priority", !.kind = "priority", !.ticket = t,
                 !.seen = row[t], !.to = [row[t] EXCEPT !.priority = p]])
  /\ UNCHANGED <<data, faults>>

\* SubmitReclassify.
Reclassify(k, t, c) ==
  /\ <<row[t].type, row[t].subtype>> # <<c.type, c.subtype>>
  /\ Begin(k, [NoTask EXCEPT !.pc = "type", !.kind = "reclassify", !.ticket = t,
                 !.seen = row[t],
                 !.to = [row[t] EXCEPT !.type = c.type, !.subtype = c.subtype]])
  /\ UNCHANGED <<data, faults>>

\* TogglePlatformWide, for bugs.
TogglePlatformWide(k, t) ==
  LET subtype == IF row[t].subtype = "platform-wide" THEN "customer-specific"
                 ELSE "platform-wide" IN
  /\ row[t].type = "bug"
  /\ Begin(k, [NoTask EXCEPT !.pc = "type", !.kind = "platform", !.ticket = t,
                 !.seen = row[t], !.to = [row[t] EXCEPT !.subtype = subtype]])
  /\ UNCHANGED <<data, faults>>

\* ToggleReplyNeeded.
ToggleReplyNeeded(k, t) ==
  /\ Begin(k, [NoTask EXCEPT !.pc = "reply", !.kind = "reply", !.ticket = t,
                 !.to = [row[t] EXCEPT !.reply = ~@]])
  /\ UNCHANGED <<data, faults>>

\* SubmitDeadline.
SetDeadline(k, t, d) ==
  /\ row[t].deadline # d
  /\ Begin(k, [NoTask EXCEPT !.pc = "deadline", !.kind = "deadline", !.ticket = t,
                 !.to = [row[t] EXCEPT !.deadline = d]])
  /\ UNCHANGED <<data, faults>>

\* SubmitAddAffectedOrg, or MergeIntoExisting with a report of another organisation.
AddOrg(k, t, o, kind) ==
  /\ o \notin orgs[t]
  /\ Begin(k, [NoTask EXCEPT !.pc = "org", !.kind = kind, !.ticket = t, !.org = o])
  /\ UNCHANGED <<data, faults>>

\* SubmitSetStakeholder: one CSM for the organisations of the ticket the form names.
SetStakeholder(k, t, os, c) ==
  /\ \E o \in os : csm[o] # c
  /\ os \subseteq orgs[t]
  /\ Begin(k, [NoTask EXCEPT !.pc = "csm", !.kind = "csm", !.ticket = t, !.csm = c,
                 !.queue = {o \in os : csm[o] # c}])
  /\ UNCHANGED <<data, faults>>

-----------------------------------------------------------------------------
(* The write.                                                              *)

\* Mutant of WritePriority: no audit row.
WritePriorityUnlogged(k) ==
  LET t == task[k].ticket  p == task[k].to.priority IN
  /\ task[k].pc = "priority"
  /\ row' = [row EXCEPT ![t].priority = p]
  /\ best' = [best EXCEPT ![t] = IF p < @ THEN p ELSE @]
  /\ Goto(k, "card")
  /\ UNCHANGED <<orgs, csm, card, linear, logged, buttons, raced, runs, faults>>

\* update_priority.
WritePriority(k) ==
  LET t == task[k].ticket  p == task[k].to.priority IN
  /\ task[k].pc = "priority"
  /\ row' = [row EXCEPT ![t].priority = p]
  /\ best' = [best EXCEPT ![t] = IF p < @ THEN p ELSE @]
  /\ Goto(k, "audit")
  /\ UNCHANGED <<orgs, csm, card, linear, logged, buttons, raced, runs, faults>>

\* Mutant of WriteType: the toggle writes the subtype only.
WriteSubtype(k) ==
  LET t == task[k].ticket  to == task[k].to IN
  /\ task[k].pc = "type"
  /\ row' = [row EXCEPT ![t].type = IF task[k].kind = "platform" THEN @ ELSE to.type,
                        ![t].subtype = to.subtype]
  /\ Goto(k, IF task[k].kind = "reclassify" THEN "audit" ELSE "card")
  /\ UNCHANGED <<orgs, csm, card, linear, logged, buttons, best, raced, runs, faults>>

\* update_type_subtype; the toggle leaves no audit row.
WriteType(k) ==
  LET t == task[k].ticket  to == task[k].to IN
  /\ task[k].pc = "type"
  /\ row' = [row EXCEPT ![t].type = to.type, ![t].subtype = to.subtype]
  /\ Goto(k, IF task[k].kind = "reclassify" THEN "audit" ELSE "card")
  /\ UNCHANGED <<orgs, csm, card, linear, logged, buttons, best, raced, runs, faults>>

\* append_prio_change or append_reclassification.
Audit(k) ==
  LET t == task[k].ticket IN
  /\ task[k].pc = "audit"
  /\ logged' = IF task[k].kind = "priority"
                 THEN [logged EXCEPT ![t].priority = task[k].to.priority]
                 ELSE [logged EXCEPT ![t].type = task[k].to.type]
  /\ Goto(k, "card")
  /\ UNCHANGED <<row, orgs, csm, card, linear, buttons, best, raced, runs, faults>>

\* set_reply_needed.
WriteReply(k) ==
  /\ task[k].pc = "reply"
  /\ row' = [row EXCEPT ![task[k].ticket].reply = task[k].to.reply]
  /\ Goto(k, "card")
  /\ UNCHANGED <<orgs, csm, card, linear, logged, buttons, best, raced, runs, faults>>

\* update_deadline.
WriteDeadline(k) ==
  /\ task[k].pc = "deadline"
  /\ row' = [row EXCEPT ![task[k].ticket].deadline = task[k].to.deadline]
  /\ Goto(k, "card")
  /\ UNCHANGED <<orgs, csm, card, linear, logged, buttons, best, raced, runs, faults>>

\* Mutant of WriteOrg: nothing is drawn again.
WriteOrgQuietly(k) ==
  /\ task[k].pc = "org"
  /\ orgs' = [orgs EXCEPT ![task[k].ticket] = @ \cup {task[k].org}]
  /\ Goto(k, "count")
  /\ UNCHANGED <<row, csm, card, linear, logged, buttons, best, raced, runs, faults>>

\* add_org; a merge does not draw the card again.
WriteOrg(k) ==
  /\ task[k].pc = "org"
  /\ orgs' = [orgs EXCEPT ![task[k].ticket] = @ \cup {task[k].org}]
  /\ Goto(k, IF task[k].kind = "add" THEN "card" ELSE "count")
  /\ UNCHANGED <<row, csm, card, linear, logged, buttons, best, raced, runs, faults>>

\* The organisations' rows, one after the other.
WriteCsm(k) ==
  /\ task[k].pc = "csm"
  /\ \/ /\ task[k].queue = {}
        /\ Goto(k, "card")
        /\ UNCHANGED csm
     \/ \E o \in task[k].queue :
          /\ csm' = [csm EXCEPT ![o] = task[k].csm]
          /\ task' = [task EXCEPT ![k].queue = @ \ {o}]
  /\ UNCHANGED <<row, orgs, card, linear, logged, buttons, best, raced, runs, faults>>

-----------------------------------------------------------------------------
(* The card: refresh_card.                                                 *)

\* It reads the ticket,
ReadTicket(k) ==
  /\ task[k].pc = "card"
  /\ task' = [task EXCEPT ![k].pc = "names", ![k].view.row = row[task[k].ticket]]
  /\ UNCHANGED <<data, raced, runs, faults>>

\* then the organisations and their CSMs,
ReadOrgs(k) ==
  LET os == orgs[task[k].ticket] IN
  /\ task[k].pc = "names"
  /\ task' = [task EXCEPT ![k].pc = "post", ![k].view.orgs = os, ![k].view.csms = CsmsOf(os)]
  /\ UNCHANGED <<data, raced, runs, faults>>

\* What comes after the card.
AfterCard(k) ==
  CASE task[k].kind = "priority" -> "push"
    [] task[k].kind = "reclassify" /\ task[k].seen.type # task[k].to.type -> "unlabel"
    [] task[k].kind = "add" -> "count"
    [] OTHER -> "idle"

\* and edits the message, which Slack may refuse.
PostCard(k) ==
  /\ task[k].pc = "post"
  /\ \/ card' = [card EXCEPT ![task[k].ticket] = task[k].view] /\ UNCHANGED faults
     \/ Outage /\ UNCHANGED card
  /\ IF AfterCard(k) = "idle" THEN Finish(k) ELSE Goto(k, AfterCard(k))
  /\ UNCHANGED <<row, orgs, csm, linear, logged, buttons, best, raced, runs>>

-----------------------------------------------------------------------------
(* Linear.                                                                 *)

\* sync_priority reads the row again,
ReadPriority(k) ==
  /\ task[k].pc = "push"
  /\ task' = [task EXCEPT ![k].pc = "linear", ![k].to.priority = row[task[k].ticket].priority]
  /\ UNCHANGED <<data, raced, runs, faults>>

\* and pushes it.
PushPriority(k) ==
  /\ task[k].pc = "linear"
  /\ \/ /\ linear' = [linear EXCEPT ![task[k].ticket].priority = ToLinear[task[k].to.priority]]
        /\ UNCHANGED faults
     \/ Outage /\ UNCHANGED linear
  /\ Finish(k)
  /\ UNCHANGED <<row, orgs, csm, card, logged, buttons, best, raced, runs>>

\* Mutant of RemoveLabel: the old label stays.
KeepLabel(k) ==
  /\ task[k].pc = "unlabel"
  /\ UNCHANGED <<linear, faults>>
  /\ Goto(k, "label")
  /\ UNCHANGED <<row, orgs, csm, card, logged, buttons, best, raced, runs>>

\* sync_type_label takes the label of the old type off,
RemoveLabel(k) ==
  /\ task[k].pc = "unlabel"
  /\ \/ linear' = [linear EXCEPT ![task[k].ticket].labels = @ \ {task[k].seen.type}]
        /\ UNCHANGED faults
     \/ Outage /\ UNCHANGED linear
  /\ Goto(k, "label")
  /\ UNCHANGED <<row, orgs, csm, card, logged, buttons, best, raced, runs>>

\* and puts the new one on.
AddLabel(k) ==
  /\ task[k].pc = "label"
  /\ \/ linear' = [linear EXCEPT ![task[k].ticket].labels = @ \cup {task[k].to.type}]
        /\ UNCHANGED faults
     \/ Outage /\ UNCHANGED linear
  /\ Finish(k)
  /\ UNCHANGED <<row, orgs, csm, card, logged, buttons, best, raced, runs>>

-----------------------------------------------------------------------------
(* The suggestion: MultiCustomerBumpCheck.                                 *)

ReadForCount(k) ==
  /\ task[k].pc = "count"
  /\ task' = [task EXCEPT ![k].pc = "suggest", ![k].seen = row[task[k].ticket]]
  /\ UNCHANGED <<data, raced, runs, faults>>

\* It counts the organisations and sends the message, which may be refused.
Suggest(k) ==
  LET t == task[k].ticket
      p == Suggestion(Cardinality(orgs[t]), task[k].seen.priority, t \in Critical) IN
  /\ task[k].pc = "suggest"
  /\ \/ buttons' = buttons \cup {[ticket |-> t, priority |-> q] : q \in p} /\ UNCHANGED faults
     \/ p # {} /\ Outage /\ UNCHANGED buttons
  /\ Finish(k)
  /\ UNCHANGED <<row, orgs, csm, card, linear, logged, best, raced, runs>>

\* A database call raises, or the process restarts.
Fail(k) ==
  /\ task[k].pc # "idle"
  /\ Outage
  /\ Finish(k)
  /\ UNCHANGED <<data, raced, runs>>

-----------------------------------------------------------------------------
Start(k, t) ==
  \/ \E p \in Priorities : SetPriority(k, t, p)
  \/ \E c \in Choices : Reclassify(k, t, c)
  \/ TogglePlatformWide(k, t)
  \/ ToggleReplyNeeded(k, t)
  \/ \E d \in Days \cup {None} : SetDeadline(k, t, d)
  \/ \E o \in Orgs, kind \in {"add", "merge"} : AddOrg(k, t, o, kind)
  \/ \E os \in SUBSET Orgs, c \in Csms \cup {None} : SetStakeholder(k, t, os, c)

Step(k) ==
  \/ WritePriority(k) \/ WriteType(k) \/ Audit(k) \/ WriteReply(k) \/ WriteDeadline(k)
  \/ WriteOrg(k) \/ WriteCsm(k)
  \/ ReadTicket(k) \/ ReadOrgs(k) \/ PostCard(k)
  \/ ReadPriority(k) \/ PushPriority(k) \/ RemoveLabel(k) \/ AddLabel(k)
  \/ ReadForCount(k) \/ Suggest(k)

Next == \E k \in Tasks : Step(k) \/ Fail(k) \/ \E t \in Tickets : Start(k, t)

Spec == Init /\ [][Next]_vars

-----------------------------------------------------------------------------
(* What holds however handlers overlap and whatever gets lost.             *)

\* platform_wide.py: "a stale click can't corrupt a Config/FAQ/Feature-request
\* subtype": the subtype is always one of the type's.
SubtypeFits == \A t \in Tickets : row[t].subtype \in SubtypesFor[row[t].type]

\* entities.py: "A contract nearing renewal raises the customer's weight so their
\* tickets float up": a ticket that was just logged is no bug of a customer who is
\* worth more, is unhappier and renews sooner than one whose bug, as bad, goes first.
NobodyOvertaken == runs = 0 => \A t \in Tickets : row[t].priority \notin Overtaken

\* multi_customer_bump.py: "3+ orgs -> at least P1": once the handlers are done and
\* no message was lost, a ticket of so many organisations has been P1, or the SE was
\* offered it; a critical one of many has been P0, or was offered that.
Reached(t, p) == best[t] <= p \/ \E b \in buttons : b.ticket = t /\ b.priority <= p
SuggestedInTime ==
  Idle /\ faults = 0 =>
    \A t \in Tickets :
      /\ Cardinality(orgs[t]) >= Several => Reached(t, 1)
      /\ Cardinality(orgs[t]) >= Many /\ t \in Critical => Reached(t, 0)

-----------------------------------------------------------------------------
(* What holds when handlers come one at a time.                            *)

\* linear/sync.py: "so the Linear issue's priority never drifts from Slack", and
\* "Removes the old type label and adds the new one".
LinearFollows ==
  ~raced /\ faults = 0 /\ Idle =>
    \A t \in Tickets :
      linear[t] = [priority |-> ToLinear[row[t].priority], labels |-> {row[t].type}]

\* The audit rows lead to the priority and the type the ticket has.
AuditLeadsHere ==
  ~raced /\ faults = 0 /\ Idle =>
    \A t \in Tickets : logged[t] = [priority |-> row[t].priority, type |-> row[t].type]

\* ticket_card.py, refresh_card: "Re-render the ticket card from current state": a
\* handler leaves the card of its ticket up to date, unless it merged a report.
CardFresh ==
  [][\A k \in Tasks :
       /\ ~raced' /\ faults' = 0
       /\ task[k].pc # "idle" /\ task'[k].pc = "idle" /\ task[k].kind # "merge"
       => card'[task[k].ticket] = Shown(task[k].ticket)]_vars

=============================================================================

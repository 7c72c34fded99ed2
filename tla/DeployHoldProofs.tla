-------------------------- MODULE DeployHoldProofs --------------------------
(***************************************************************************)
(* Theorems about DeployHold, and about the pass of its nudge job that     *)
(* NudgePass follows, for any tickets, PRs, releases and handlers.         *)
(***************************************************************************)
EXTENDS NudgePass, TLAPS

LEMMA TypeInit == Init => TypeOK
BY DEF Init, TypeOK, TablesTypeOK, TaskTypeOK, HistoryTypeOK, HoldStates, Raised, NoTask, Handler,
   TaskRecord, PCs, OfTicket, OfRelease, Slots

\* The record a handler starts with is a task record.
LEMMA BeginTyped ==
  ASSUME TaskTypeOK, NEW k \in Tasks, NEW rec \in TaskRecord, Begin(k, rec),
         rec.pc \in OfTicket => rec.ticket \in Tickets,
         rec.pc \in OfRelease => rec.release \in Releases
  PROVE  /\ TaskTypeOK'
         /\ task'[k] = rec
         /\ \A j \in Slots \ {k} : task'[j] = task[j]
BY DEF Begin, TaskTypeOK, Slots

LEMMA HandlerTyped ==
  ASSUME NEW pc \in PCs, NEW t \in Tickets \cup {None}, NEW r \in Releases \cup {None},
         NEW prs \in SUBSET PRs
  PROVE  /\ Handler(pc, t, r, prs) \in TaskRecord
         /\ Handler(pc, t, r, prs).pc = pc
         /\ Handler(pc, t, r, prs).ticket = t
         /\ Handler(pc, t, r, prs).release = r
         /\ Handler(pc, t, r, prs).seen = "pending"
BY DEF Handler, TaskRecord

LEMMA StartTyped ==
  ASSUME TaskTypeOK, NEW k \in Tasks, Start(k)
  PROVE  /\ TaskTypeOK'
         /\ \A j \in Slots \ {k} : task'[j] = task[j]
         /\ task'[k].pc \in {"resolve", "upsert", "queue", "fetch"}
         /\ task'[k].pc = "queue" /\ task'[k].seen = "deployed" => task'[k].release \in deployed
<1>1. PICK rec \in TaskRecord :
        /\ Begin(k, rec)
        /\ rec.pc \in {"resolve", "upsert", "queue", "fetch"}
        /\ rec.pc \in OfTicket => rec.ticket \in Tickets
        /\ rec.pc \in OfRelease => rec.release \in Releases
        /\ rec.pc = "queue" /\ rec.seen = "deployed" => rec.release \in deployed
  <2>1. CASE \E t \in Tickets, prs \in SUBSET PRs : ResolveStart(k, t, prs)
    <3>1. PICK t \in Tickets, prs \in SUBSET PRs : ResolveStart(k, t, prs)
      BY <2>1
    <3>2. PICK rec : rec = Handler("resolve", t, None, prs)
      OBVIOUS
    <3>3. /\ rec \in TaskRecord /\ rec.pc = "resolve" /\ rec.ticket = t
      BY <3>2, HandlerTyped DEF PCs
    <3>q. QED
      BY <3>1, <3>2, <3>3 DEF ResolveStart, OfTicket, OfRelease
  <2>2. CASE \E r \in Releases, prs \in SUBSET PRs : AnnounceStart(k, r, prs)
    <3>1. PICK r \in Releases, prs \in SUBSET PRs : AnnounceStart(k, r, prs)
      BY <2>2
    <3>2. PICK rec : rec = Handler("upsert", None, r, prs)
      OBVIOUS
    <3>3. rec \in TaskRecord /\ rec.pc = "upsert" /\ rec.release = r
      BY <3>2, HandlerTyped DEF PCs
    <3>q. QED
      BY <3>1, <3>2, <3>3 DEF AnnounceStart, OfTicket, OfRelease
  <2>3. CASE \E r \in Releases, prs \in SUBSET PRs, run \in BOOLEAN : EngineeringReply(k, r, prs, run)
    <3>1. PICK r \in Releases, prs \in SUBSET PRs, run \in BOOLEAN : EngineeringReply(k, r, prs, run)
      BY <2>3
    <3>2. PICK h : h = Handler("queue", None, r, prs)
      OBVIOUS
    <3>3. h \in TaskRecord /\ h.pc = "queue" /\ h.release = r
      BY <3>2, HandlerTyped DEF PCs
    <3>4. PICK rec : rec = [h EXCEPT !.run = run,
                                     !.seen = IF r \in deployed THEN "deployed" ELSE "pending"]
      OBVIOUS
    <3>5. /\ rec \in TaskRecord /\ rec.pc = "queue" /\ rec.release = r
          /\ rec.seen = "deployed" => r \in deployed
      BY <3>3, <3>4 DEF TaskRecord
    <3>q. QED
      BY <3>1, <3>2, <3>4, <3>5 DEF EngineeringReply, OfTicket, OfRelease
  <2>4. CASE \E t \in Tickets : PostNow(k, t)
    <3>1. PICK t \in Tickets : PostNow(k, t)
      BY <2>4
    <3>2. PICK h : h = Handler("fetch", t, None, {})
      OBVIOUS
    <3>3. h \in TaskRecord /\ h.pc = "fetch" /\ h.ticket = t
      BY <3>2, HandlerTyped DEF PCs
    <3>4. PICK rec : rec = [h EXCEPT !.byHand = TRUE]
      OBVIOUS
    <3>5. rec \in TaskRecord /\ rec.pc = "fetch" /\ rec.ticket = t
      BY <3>3, <3>4 DEF TaskRecord
    <3>q. QED
      BY <3>1, <3>2, <3>4, <3>5 DEF PostNow, OfTicket, OfRelease
  <2>q. QED
    BY <2>1, <2>2, <2>3, <2>4 DEF Start
<1>2. /\ TaskTypeOK' /\ task'[k] = rec
      /\ \A j \in Slots \ {k} : task'[j] = task[j]
  BY <1>1, BeginTyped
<1>q. QED
  BY <1>1, <1>2

LEMMA StepTyped ==
  ASSUME TaskTypeOK, TablesTypeOK, NEW k \in Slots, Step(k) \/ Fail(k)
  PROVE  TaskTypeOK' /\ \A j \in Slots \ {k} : task'[j] = task[j]
<1>1. task[k] \in TaskRecord /\ task \in [Slots -> TaskRecord]
  BY DEF TaskTypeOK
<1>2. NoTask \in TaskRecord /\ NoTask.pc = "idle"
  BY DEF TaskRecord, NoTask, Handler, PCs
<1>3. ASSUME Return(k)
      PROVE  TaskTypeOK' /\ \A j \in Slots \ {k} : task'[j] = task[j]
  BY <1>2, <1>3 DEF Return, TaskTypeOK, OfTicket, OfRelease
<1>4. ASSUME NEW rec \in TaskRecord, task' = [task EXCEPT ![k] = rec],
             rec.pc \in OfTicket => rec.ticket \in Tickets,
             rec.pc \in OfRelease => rec.release \in Releases
      PROVE  TaskTypeOK' /\ \A j \in Slots \ {k} : task'[j] = task[j]
  BY <1>4 DEF TaskTypeOK
<1>5. ASSUME NEW pc \in PCs, Goto(k, pc),
             pc \in OfTicket => task[k].ticket \in Tickets,
             pc \in OfRelease => task[k].release \in Releases
      PROVE  TaskTypeOK' /\ \A j \in Slots \ {k} : task'[j] = task[j]
  BY <1>1, <1>5 DEF Goto, TaskTypeOK, TaskRecord
<1>6. CASE ResolveWrite(k) \/ UpsertRelease(k) \/ DeployRelease(k) \/ MarkShipped(k)
             \/ FetchTicket(k) \/ PostHeld(k) \/ CloseHolds(k) \/ CancelHolds(k)
             \/ NudgeDM(k) \/ NudgeMark(k)
  <2>1. /\ task[k].pc \in OfTicket => task[k].ticket \in Tickets
        /\ task[k].pc \in OfRelease => task[k].release \in Releases
    BY DEF TaskTypeOK
  <2>2. PICK pc \in PCs :
          /\ Goto(k, pc)
          /\ pc \in OfTicket => task[k].pc \in OfTicket
          /\ pc \in OfRelease => task[k].pc \in OfRelease
    BY <1>6 DEF ResolveWrite, UpsertRelease, DeployRelease, MarkShipped, FetchTicket, PostHeld,
       CloseHolds, CancelHolds, NudgeDM, NudgeMark, PCs, OfTicket, OfRelease
  <2>q. QED
    BY <1>5, <2>1, <2>2
<1>7. CASE ReplyNow(k) \/ AnnouncePRs(k) \/ Fail(k)
  BY <1>3, <1>7 DEF ReplyNow, AnnouncePRs, Fail
<1>8. CASE QueueCommits(k)
  <2>1. Return(k) \/ Goto(k, "select") \/ (Goto(k, "deploy") /\ task[k].release \in Releases)
    BY <1>8 DEF QueueCommits, TaskTypeOK, OfRelease
  <2>q. QED
    BY <1>3, <1>5, <2>1 DEF PCs, OfTicket, OfRelease
<1>9. CASE QueryDeployed(k)
  <2>1. PICK rec : rec = [task[k] EXCEPT !.prs = task[k].prs \ DeployedPRs,
                                         !.pc = IF task[k].prs \ DeployedPRs = {} THEN "reply"
                                                                                  ELSE "hold"]
    OBVIOUS
  <2>2. task' = [task EXCEPT ![k] = rec] /\ task[k].ticket \in Tickets
    BY <1>1, <1>9, <2>1 DEF QueryDeployed, TaskTypeOK, OfTicket
  <2>3. rec \in TaskRecord /\ rec.pc \in {"reply", "hold"} /\ rec.ticket = task[k].ticket
    BY <1>1, <2>1 DEF TaskRecord, PCs
  <2>q. QED
    BY <1>4, <2>2, <2>3 DEF OfRelease
<1>10. CASE AddHold(k)
  <2>1. PICK p \in task[k].prs :
          Return(k) \/ task' = [task EXCEPT ![k].prs = task[k].prs \ {p}]
    BY <1>10 DEF AddHold
  <2>2. PICK rec : rec = [task[k] EXCEPT !.prs = task[k].prs \ {p}]
    OBVIOUS
  <2>3. rec \in TaskRecord /\ rec.pc = "hold" /\ rec.ticket \in Tickets
    BY <1>1, <1>10, <2>2 DEF AddHold, TaskRecord, TaskTypeOK, OfTicket
  <2>4. CASE task' = [task EXCEPT ![k].prs = task[k].prs \ {p}]
    <3>1. task' = [task EXCEPT ![k] = rec]
      BY <2>2, <2>4
    <3>q. QED
      BY <1>4, <2>3, <3>1 DEF OfRelease
  <2>q. QED
    BY <1>3, <2>1, <2>4
<1>11. CASE ListShipped(k)
  <2>1. PICK rec : rec = [task[k] EXCEPT !.prs = prsOf[task[k].release], !.pc = "select"]
    OBVIOUS
  <2>2. task' = [task EXCEPT ![k] = rec] /\ prsOf[task[k].release] \in SUBSET PRs
    BY <1>1, <1>11, <2>1 DEF ListShipped, TaskTypeOK, TablesTypeOK, OfRelease
  <2>3. rec \in TaskRecord /\ rec.pc = "select"
    BY <1>1, <2>1, <2>2 DEF TaskRecord, PCs
  <2>q. QED
    BY <1>4, <2>2, <2>3 DEF OfTicket, OfRelease
<1>12. CASE SelectHeld(k)
  <2>1. PICK q \in SUBSET Tickets :
          q = {t \in Tickets : \E h \in OpenHolds(t) : h[2] \in task[k].prs}
    OBVIOUS
  <2>2. PICK rec : rec = [task[k] EXCEPT !.pc = "mark", !.queue = q]
    OBVIOUS
  <2>3. task' = [task EXCEPT ![k] = rec]
    BY <1>1, <1>12, <2>1, <2>2 DEF SelectHeld
  <2>4. rec \in TaskRecord /\ rec.pc = "mark"
    BY <1>1, <2>2 DEF TaskRecord, PCs
  <2>q. QED
    BY <1>4, <2>3, <2>4 DEF OfTicket, OfRelease
<1>13. CASE NextTicket(k) \/ NudgeNext(k)
  <2>1. CASE Return(k)
    BY <1>3, <2>1
  <2>2. CASE \E t \in task[k].queue, pc \in {"fetch", "cancel", "nudge_dm"} :
               task' = [task EXCEPT ![k].queue = @ \ {t}, ![k].ticket = t, ![k].pc = pc]
    <3>1. PICK t \in task[k].queue, pc \in {"fetch", "cancel", "nudge_dm"} :
                 task' = [task EXCEPT ![k].queue = @ \ {t}, ![k].ticket = t, ![k].pc = pc]
      BY <2>2
    <3>2. PICK rec : rec = [task[k] EXCEPT !.queue = @ \ {t}, !.ticket = t, !.pc = pc]
      OBVIOUS
    <3>3. task' = [task EXCEPT ![k] = rec] /\ t \in Tickets
      BY <1>1, <3>1, <3>2 DEF TaskRecord
    <3>4. rec \in TaskRecord /\ rec.pc = pc /\ rec.ticket = t
      BY <1>1, <3>2, <3>3 DEF TaskRecord, PCs
    <3>q. QED
      BY <1>4, <3>3, <3>4 DEF OfRelease
  <2>3. CASE \E t \in task[k].queue : /\ task[k].pc = "tickets"
                                      /\ task' = [task EXCEPT ![k].queue = @ \ {t}]
    <3>1. PICK t \in task[k].queue : task' = [task EXCEPT ![k].queue = @ \ {t}]
      BY <2>3
    <3>2. PICK rec : rec = [task[k] EXCEPT !.queue = @ \ {t}]
      OBVIOUS
    <3>3. task' = [task EXCEPT ![k] = rec]
      BY <1>1, <3>1, <3>2
    <3>4. rec \in TaskRecord /\ rec.pc = "tickets"
      BY <1>1, <2>3, <3>2 DEF TaskRecord, PCs
    <3>q. QED
      BY <1>4, <3>3, <3>4 DEF OfTicket, OfRelease
  <2>q. QED
    BY <1>13, <2>1, <2>2, <2>3 DEF NextTicket, NudgeNext
<1>q. QED
  BY <1>6, <1>7, <1>8, <1>9, <1>10, <1>11, <1>12, <1>13 DEF Step

LEMMA StepTablesTyped ==
  ASSUME TypeOK, NEW k \in Slots, Step(k) \/ Fail(k)
  PROVE  TablesTypeOK' /\ HistoryTypeOK'
<1>1. /\ task[k] \in TaskRecord
      /\ task[k].pc \in OfTicket => task[k].ticket \in Tickets
      /\ task[k].pc \in OfRelease => task[k].release \in Releases
      /\ task[k].prs \in SUBSET PRs
  BY DEF TypeOK, TaskTypeOK, TaskRecord
<1>2. CASE QueryDeployed(k) \/ ListShipped(k) \/ SelectHeld(k) \/ NextTicket(k) \/ FetchTicket(k)
             \/ NudgeNext(k)
  BY <1>2 DEF QueryDeployed, ListShipped, SelectHeld, NextTicket, FetchTicket, NudgeNext,
     releaseVars, holdVars, history, TypeOK, TablesTypeOK, HistoryTypeOK
<1>3. CASE Fail(k)
  BY <1>3 DEF Fail, releaseVars, holdVars, history, TypeOK, TablesTypeOK, HistoryTypeOK
<1>4. CASE ResolveWrite(k)
  <2>1. task[k].ticket \in Tickets
    BY <1>1, <1>4 DEF ResolveWrite, OfTicket
  <2>2. UNCHANGED <<releaseVars, holdVars, runs, faults, raised>>
    BY <1>4 DEF ResolveWrite
  <2>3. status' \in [Tickets -> {"open", "resolved"}] /\ told' \in [Tickets -> Nat]
    BY <1>4, <2>1 DEF ResolveWrite, TypeOK, TablesTypeOK, HistoryTypeOK
  <2>4. manual' \in [Tickets -> BOOLEAN]
    BY <1>4, <2>1 DEF ResolveWrite, TypeOK, HistoryTypeOK
  <2>5. fix' \in [Tickets -> SUBSET PRs]
    <3>1. fix' = [fix EXCEPT ![task[k].ticket] = task[k].prs] \/ fix' = [fix EXCEPT ![task[k].ticket] = @]
      BY <1>4 DEF ResolveWrite
    <3>q. QED
      BY <1>1, <2>1, <3>1 DEF TypeOK, HistoryTypeOK
  <2>q. QED
    BY <2>2, <2>3, <2>4, <2>5 DEF releaseVars, holdVars, TypeOK, TablesTypeOK, HistoryTypeOK
<1>5. CASE ReplyNow(k) \/ PostHeld(k)
  <2>1. task[k].ticket \in Tickets
    BY <1>1, <1>5 DEF ReplyNow, PostHeld, OfTicket
  <2>2. UNCHANGED <<status, releaseVars, holdVars, runs, fix, raised>>
    BY <1>5 DEF ReplyNow, PostHeld
  <2>3. told' \in [Tickets -> Nat] /\ faults' \in Nat
    <3>1. Tell(task[k].ticket)
      BY <1>5 DEF ReplyNow, PostHeld
    <3>q. QED
      BY <2>1, <3>1 DEF Tell, TypeOK, HistoryTypeOK
  <2>4. manual' \in [Tickets -> BOOLEAN]
    <3>1. \/ manual' = manual
          \/ manual' = [manual EXCEPT ![task[k].ticket] = manual[task[k].ticket] \/ task[k].byHand]
      BY <1>5 DEF ReplyNow, PostHeld
    <3>2. (manual[task[k].ticket] \/ task[k].byHand) \in BOOLEAN
      BY Zenon
    <3>3. manual \in [Tickets -> BOOLEAN]
      BY DEF TypeOK, HistoryTypeOK
    <3>q. QED
      BY <3>1, <3>2, <3>3, Zenon
  <2>q. QED
    BY <2>2, <2>3, <2>4 DEF releaseVars, holdVars, TypeOK, TablesTypeOK, HistoryTypeOK
<1>6. CASE AddHold(k)
  <2>1. PICK p \in task[k].prs :
          /\ hold' = [hold EXCEPT ![<<task[k].ticket, p>>] = "waiting"]
          /\ due' = due \ {<<task[k].ticket, p>>}
          /\ nudged' = nudged \ {<<task[k].ticket, p>>}
    BY <1>6 DEF AddHold
  <2>2. /\ UNCHANGED <<status, releaseVars, runs, faults, told, fix, manual>>
        /\ \E q \in task[k].prs : raised' = [raised EXCEPT ![<<task[k].ticket, q>>] = "never"]
    BY <1>6 DEF AddHold
  <2>3. hold' \in [Holds -> HoldStates] /\ due' \in SUBSET Holds /\ nudged' \in SUBSET Holds
    BY <2>1 DEF TypeOK, TablesTypeOK, HoldStates
  <2>4. raised' \in [Holds -> Raised]
    BY <2>2 DEF TypeOK, HistoryTypeOK, Raised
  <2>q. QED
    BY <2>2, <2>3, <2>4 DEF releaseVars, TypeOK, TablesTypeOK, HistoryTypeOK
<1>7. CASE UpsertRelease(k) \/ AnnouncePRs(k) \/ QueueCommits(k) \/ DeployRelease(k)
  <2>1. task[k].release \in Releases
    BY <1>1, <1>7 DEF UpsertRelease, AnnouncePRs, QueueCommits, DeployRelease, OfRelease
  <2>2. UNCHANGED <<status, holdVars, runs, faults, history>>
    BY <1>7 DEF UpsertRelease, AnnouncePRs, QueueCommits, DeployRelease
  <2>3. known' \in SUBSET Releases /\ deployed' \in SUBSET Releases
    BY <1>7, <2>1 DEF UpsertRelease, AnnouncePRs, QueueCommits, DeployRelease, TypeOK, TablesTypeOK
  <2>4. prsOf' \in [Releases -> SUBSET PRs]
    <3>1. \/ prsOf' = prsOf
          \/ prsOf' = [prsOf EXCEPT ![task[k].release] = prsOf[task[k].release] \cup task[k].prs]
      BY <1>7 DEF UpsertRelease, AnnouncePRs, QueueCommits, DeployRelease
    <3>q. QED
      BY <1>1, <2>1, <3>1 DEF TypeOK, TablesTypeOK
  <2>q. QED
    BY <2>2, <2>3, <2>4 DEF holdVars, history, TypeOK, TablesTypeOK, HistoryTypeOK
<1>8. CASE MarkShipped(k) \/ CloseHolds(k) \/ CancelHolds(k)
  <2>1. UNCHANGED <<status, releaseVars, due, nudged, runs, faults, history>>
    BY <1>8 DEF MarkShipped, CloseHolds, CancelHolds
  <2>2. hold' \in [Holds -> HoldStates]
    BY <1>8 DEF MarkShipped, CloseHolds, CancelHolds, CloseFor, TypeOK, TablesTypeOK, HoldStates
  <2>q. QED
    BY <2>1, <2>2 DEF releaseVars, history, TypeOK, TablesTypeOK, HistoryTypeOK
<1>9. CASE NudgeMark(k)
  <2>1. nudged' \in SUBSET Holds
    BY <1>9 DEF NudgeMark, OpenHolds, TypeOK, TablesTypeOK
  <2>2. UNCHANGED <<status, releaseVars, hold, due, runs, faults, history>>
    BY <1>9 DEF NudgeMark
  <2>q. QED
    BY <2>1, <2>2 DEF releaseVars, history, TypeOK, TablesTypeOK, HistoryTypeOK
<1>10. CASE NudgeDM(k)
  <2>1. raised' \in [Holds -> Raised] /\ faults' \in Nat
    BY <1>10 DEF NudgeDM, TypeOK, HistoryTypeOK, Raised
  <2>2. UNCHANGED <<status, releaseVars, holdVars, runs, told, fix, manual>>
    BY <1>10 DEF NudgeDM
  <2>q. QED
    BY <2>1, <2>2 DEF releaseVars, holdVars, TypeOK, TablesTypeOK, HistoryTypeOK
<1>q. QED
  BY <1>2, <1>3, <1>4, <1>5, <1>6, <1>7, <1>8, <1>9, <1>10 DEF Step

\* A nudge tick starts with a set of tickets.
LEMMA TickTyped ==
  ASSUME TaskTypeOK, NudgeTick
  PROVE  /\ TaskTypeOK'
         /\ task'[Nudger].pc = "nudge"
         /\ task'[Nudger].listed = DueHolds
         /\ task'[Nudger].queue = {t \in Tickets : \E h \in DueHolds : h[1] = t}
         /\ \A j \in Slots \ {Nudger} : task'[j] = task[j]
<1>1. Nudger \in Slots /\ task[Nudger] \in TaskRecord
  BY DEF Slots, TaskTypeOK
<1>2. PICK q \in SUBSET Tickets : q = {t \in Tickets : \E h \in DueHolds : h[1] = t}
  OBVIOUS
<1>3. PICK rec : rec = [task[Nudger] EXCEPT !.pc = "nudge", !.listed = DueHolds, !.queue = q]
  OBVIOUS
<1>4. task' = [task EXCEPT ![Nudger] = rec]
  BY <1>1, <1>2, <1>3 DEF NudgeTick, TaskTypeOK
<1>5. DueHolds \in SUBSET Holds
  BY DEF DueHolds
<1>6. rec \in TaskRecord /\ rec.pc = "nudge" /\ rec.listed = DueHolds /\ rec.queue = q
  BY <1>1, <1>3, <1>5 DEF TaskRecord, PCs
<1>q. QED
  BY <1>1, <1>2, <1>4, <1>6 DEF TaskTypeOK, OfTicket, OfRelease

LEMMA TypeStep == TypeOK /\ [Next]_vars => TypeOK'
<1> SUFFICES ASSUME TypeOK, [Next]_vars PROVE TypeOK'
  OBVIOUS
<1>1. ASSUME NEW k \in Tasks, Start(k) PROVE TypeOK'
  <2>1. /\ runs' = runs + 1
        /\ UNCHANGED <<status, releaseVars, holdVars, faults, history>>
    BY <1>1 DEF Start, ResolveStart, AnnounceStart, EngineeringReply, PostNow, Begin
  <2>q. QED
    BY <1>1, <2>1, StartTyped DEF releaseVars, holdVars, history, TypeOK, TablesTypeOK,
       HistoryTypeOK
<1>2. ASSUME NEW k \in Slots, Step(k) \/ Fail(k) PROVE TypeOK'
  BY <1>2, StepTyped, StepTablesTyped DEF TypeOK
<1>3. CASE NudgeTick
  <2>1. UNCHANGED <<status, releaseVars, holdVars, runs, faults, history>>
    BY <1>3 DEF NudgeTick
  <2>q. QED
    BY <1>3, <2>1, TickTyped DEF releaseVars, holdVars, history, TypeOK, TablesTypeOK, HistoryTypeOK
<1>4. CASE (\E t \in Tickets : Leave(t)) \/ (\E h \in Holds : Age(h)) \/ UNCHANGED vars
  BY <1>4 DEF Leave, Age, vars, releaseVars, holdVars, history, TypeOK, TablesTypeOK, TaskTypeOK,
     HistoryTypeOK
<1>q. QED
  BY <1>1, <1>2, <1>3, <1>4 DEF Next

\* Every table and every handler keeps its shape, whatever handlers overlap.
THEOREM TypeCorrect == Spec => []TypeOK
BY TypeInit, TypeStep, PTL DEF Spec

-----------------------------------------------------------------------------
(* Nothing ships early.  The invariant follows a run link through the       *)
(* handler: what it is about to mark shipped is listed by a deployed       *)
(* thread, and neither the threads nor what they list ever shrinks.        *)

ShipsDeployed(k) ==
  /\ task[k].pc = "queue" /\ task[k].seen = "deployed" => task[k].release \in deployed
  /\ task[k].pc = "list" => task[k].release \in deployed
  /\ task[k].pc \in {"select", "mark"} => task[k].prs \subseteq DeployedPRs

ShipInv ==
  /\ TypeOK
  /\ \A k \in Slots : ShipsDeployed(k)
  /\ ShippedOnlyIfDeployed

\* No step undeploys a release or takes a PR out of one.
LEMMA ReleasesGrow ==
  ASSUME TypeOK, [Next]_vars
  PROVE  /\ deployed \subseteq deployed'
         /\ \A r \in Releases : prsOf[r] \subseteq prsOf'[r]
         /\ DeployedPRs \subseteq DeployedPRs'
<1>1. CASE UNCHANGED releaseVars
  BY <1>1 DEF releaseVars, DeployedPRs
<1>2. CASE \E k \in Slots : AnnouncePRs(k) \/ QueueCommits(k) \/ DeployRelease(k) \/ UpsertRelease(k)
  <2>1. PICK k \in Slots : AnnouncePRs(k) \/ QueueCommits(k) \/ DeployRelease(k) \/ UpsertRelease(k)
    BY <1>2
  <2>2. deployed \subseteq deployed' /\ deployed \subseteq Releases
    BY <2>1 DEF AnnouncePRs, QueueCommits, DeployRelease, UpsertRelease, TypeOK, TablesTypeOK
  <2>3. \A r \in Releases : prsOf[r] \subseteq prsOf'[r]
    BY <2>1 DEF AnnouncePRs, QueueCommits, DeployRelease, UpsertRelease, TypeOK, TablesTypeOK
  <2>q. QED
    BY <2>2, <2>3 DEF DeployedPRs
<1>3. UNCHANGED releaseVars \/ \E k \in Slots : AnnouncePRs(k) \/ QueueCommits(k) \/ DeployRelease(k)
                                                \/ UpsertRelease(k)
  BY DEF Next, vars, releaseVars, Start, ResolveStart, AnnounceStart, EngineeringReply, PostNow,
     Begin, Step, Fail, NudgeTick, Leave, Age, ResolveWrite, QueryDeployed, ReplyNow, AddHold,
     ListShipped, SelectHeld, MarkShipped, NextTicket, FetchTicket, PostHeld, CloseHolds,
     CancelHolds, NudgeNext, NudgeDM, NudgeMark
<1>q. QED
  BY <1>1, <1>2, <1>3

LEMMA ShipStart ==
  ASSUME ShipInv, NEW k \in Tasks, Start(k), TypeOK'
  PROVE  ShipInv'
<1>1. UNCHANGED <<releaseVars, holdVars>>
  BY DEF Start, ResolveStart, AnnounceStart, EngineeringReply, PostNow, Begin
<1>2. UNCHANGED <<deployed, prsOf, hold>> /\ UNCHANGED DeployedPRs
  BY <1>1 DEF releaseVars, holdVars, DeployedPRs
<1>3. /\ \A j \in Slots \ {k} : task'[j] = task[j]
      /\ task'[k].pc \in {"resolve", "upsert", "queue", "fetch"}
      /\ task'[k].pc = "queue" /\ task'[k].seen = "deployed" => task'[k].release \in deployed
  BY StartTyped DEF ShipInv, TypeOK
<1>4. ASSUME NEW j \in Slots PROVE ShipsDeployed(j)'
  BY <1>2, <1>3 DEF ShipInv, ShipsDeployed
<1>5. ShippedOnlyIfDeployed'
  BY <1>2 DEF ShipInv, ShippedOnlyIfDeployed
<1>q. QED
  BY <1>4, <1>5 DEF ShipInv

\* What the handler that moved has to show of its own record.
LEMMA ShipOwnRecord ==
  ASSUME ShipInv, NEW k \in Slots, Step(k) \/ Fail(k), TypeOK',
         deployed \subseteq deployed', DeployedPRs \subseteq DeployedPRs'
  PROVE  ShipsDeployed(k)'
<1>1. /\ task \in [Slots -> TaskRecord] /\ task[k] \in TaskRecord
      /\ ShipsDeployed(k)
      /\ task[k].pc \in OfRelease => task[k].release \in Releases
  BY DEF ShipInv, TypeOK, TaskTypeOK
<1>2. CASE Return(k)
  BY <1>1, <1>2 DEF Return, NoTask, Handler, ShipsDeployed
<1>3. CASE QueueCommits(k) /\ ~Return(k)
  <2>1. task'[k].pc \in {"select", "deploy"} /\ task'[k].prs = task[k].prs
    BY <1>1, <1>3 DEF QueueCommits, Goto, TaskRecord
  <2>2. CASE task'[k].pc = "select"
    <3>1. task[k].release \in deployed /\ task[k].release \in Releases
      BY <1>1, <1>3, <2>2 DEF QueueCommits, Goto, TaskRecord, ShipsDeployed, OfRelease
    <3>2. task[k].prs \subseteq prsOf'[task[k].release] /\ deployed' = deployed
      BY <1>3, <3>1 DEF QueueCommits, ShipInv, TypeOK, TablesTypeOK
    <3>q. QED
      BY <2>1, <2>2, <3>1, <3>2 DEF ShipsDeployed, DeployedPRs
  <2>q. QED
    BY <2>1, <2>2 DEF ShipsDeployed
<1>4. CASE DeployRelease(k)
  <2>1. task'[k].pc = "list" /\ task'[k].release = task[k].release
    BY <1>1, <1>4 DEF DeployRelease, Goto, TaskRecord
  <2>q. QED
    BY <1>4, <2>1 DEF DeployRelease, ShipsDeployed
<1>5. CASE ListShipped(k)
  <2>1. task'[k].pc = "select" /\ task'[k].prs = prsOf[task[k].release]
    BY <1>1, <1>5 DEF ListShipped, TaskRecord
  <2>2. prsOf[task[k].release] \subseteq DeployedPRs
    BY <1>1, <1>5 DEF ListShipped, ShipsDeployed, DeployedPRs
  <2>q. QED
    BY <2>1, <2>2 DEF ShipsDeployed
<1>6. CASE SelectHeld(k)
  <2>1. task'[k].pc = "mark" /\ task'[k].prs = task[k].prs
    BY <1>1, <1>6 DEF SelectHeld, TaskRecord
  <2>q. QED
    BY <1>1, <1>6, <2>1 DEF SelectHeld, ShipsDeployed
<1>7. CASE task'[k].pc \notin {"queue", "list", "select", "mark"}
  BY <1>7 DEF ShipsDeployed
<1>8. \/ Return(k) \/ QueueCommits(k) \/ DeployRelease(k) \/ ListShipped(k) \/ SelectHeld(k)
      \/ task'[k].pc \notin {"queue", "list", "select", "mark"}
  <2>1. CASE ResolveWrite(k) \/ UpsertRelease(k) \/ MarkShipped(k) \/ FetchTicket(k) \/ PostHeld(k)
               \/ CloseHolds(k) \/ CancelHolds(k) \/ NudgeDM(k) \/ NudgeMark(k)
    <3>1. PICK pc \in PCs \ {"queue", "list", "select", "mark"} : Goto(k, pc)
      BY <2>1 DEF ResolveWrite, UpsertRelease, MarkShipped, FetchTicket, PostHeld, CloseHolds,
         CancelHolds, NudgeDM, NudgeMark, PCs
    <3>q. QED
      BY <1>1, <3>1 DEF Goto, TaskRecord
  <2>2. CASE QueryDeployed(k)
    <3>1. PICK prs, pc : /\ task' = [task EXCEPT ![k].prs = prs, ![k].pc = pc]
                         /\ pc \in {"reply", "hold"}
      BY <2>2 DEF QueryDeployed
    <3>q. QED
      BY <1>1, <3>1 DEF TaskRecord
  <2>3. CASE AddHold(k)
    <3>1. PICK prs : Return(k) \/ task' = [task EXCEPT ![k].prs = prs]
      BY <2>3 DEF AddHold
    <3>q. QED
      BY <1>1, <2>3, <3>1 DEF AddHold, TaskRecord
  <2>4. CASE NextTicket(k) \/ NudgeNext(k)
    <3>1. \/ Return(k)
          \/ \E t, pc : /\ task' = [task EXCEPT ![k].queue = @ \ {t}, ![k].ticket = t, ![k].pc = pc]
                       /\ pc \in {"fetch", "cancel", "nudge_dm"}
          \/ \E t : task' = [task EXCEPT ![k].queue = @ \ {t}]
      BY <2>4 DEF NextTicket, NudgeNext
    <3>2. task[k].pc \in {"tickets", "nudge"}
      BY <2>4 DEF NextTicket, NudgeNext
    <3>q. QED
      BY <1>1, <3>1, <3>2 DEF TaskRecord
  <2>5. CASE ReplyNow(k) \/ AnnouncePRs(k) \/ Fail(k)
    BY <2>5 DEF ReplyNow, AnnouncePRs, Fail
  <2>q. QED
    BY <2>1, <2>2, <2>3, <2>4, <2>5 DEF Step
<1>q. QED
  BY <1>2, <1>3, <1>4, <1>5, <1>6, <1>7, <1>8

\* A step marks a hold shipped only for a PR that some deployed thread lists.
LEMMA ShipMarks ==
  ASSUME ShipInv, NEW k \in Slots, Step(k) \/ Fail(k), DeployedPRs \subseteq DeployedPRs'
  PROVE  ShippedOnlyIfDeployed'
<1> SUFFICES ASSUME NEW h \in Holds, hold'[h] = "shipped" PROVE h[2] \in DeployedPRs
  BY DEF ShippedOnlyIfDeployed
<1>1. hold \in [Holds -> HoldStates]
  BY DEF ShipInv, TypeOK, TablesTypeOK
<1>2. hold[h] = "shipped" \/ (MarkShipped(k) /\ h[2] \in task[k].prs)
  <2>1. CASE UNCHANGED hold
    BY <2>1
  <2>2. CASE AddHold(k)
    BY <1>1, <2>2 DEF AddHold
  <2>3. CASE MarkShipped(k)
    BY <2>3 DEF MarkShipped
  <2>4. CASE CloseHolds(k) \/ CancelHolds(k)
    BY <2>4 DEF CloseHolds, CancelHolds, CloseFor
  <2>5. \/ UNCHANGED hold
        \/ AddHold(k) \/ MarkShipped(k) \/ CloseHolds(k) \/ CancelHolds(k)
    BY DEF Step, Fail, holdVars, ResolveWrite, QueryDeployed, ReplyNow, UpsertRelease,
       AnnouncePRs, QueueCommits, DeployRelease, ListShipped, SelectHeld, NextTicket, FetchTicket,
       PostHeld, NudgeNext, NudgeDM, NudgeMark
  <2>q. QED
    BY <2>1, <2>2, <2>3, <2>4, <2>5
<1>q. QED
  BY <1>2 DEF ShipInv, ShippedOnlyIfDeployed, ShipsDeployed, MarkShipped

LEMMA ShipStep == ShipInv /\ [Next]_vars => ShipInv'
<1> SUFFICES ASSUME ShipInv, [Next]_vars PROVE ShipInv'
  OBVIOUS
<1>1. TypeOK /\ TypeOK'
  BY TypeStep DEF ShipInv
<1>2. deployed \subseteq deployed' /\ DeployedPRs \subseteq DeployedPRs'
  BY <1>1, ReleasesGrow
<1>3. ASSUME NEW k \in Tasks, Start(k) PROVE ShipInv'
  BY <1>1, <1>3, ShipStart
<1>4. ASSUME NEW j \in Slots, task'[j] = task[j] PROVE ShipsDeployed(j)'
  BY <1>2, <1>4 DEF ShipInv, ShipsDeployed
<1>5. ASSUME NEW k \in Slots, Step(k) \/ Fail(k) PROVE ShipInv'
  <2>1. \A j \in Slots \ {k} : task'[j] = task[j]
    BY <1>1, <1>5, StepTyped DEF TypeOK
  <2>q. QED
    BY <1>1, <1>2, <1>4, <1>5, <2>1, ShipOwnRecord, ShipMarks DEF ShipInv
<1>6. CASE NudgeTick \/ (\E t \in Tickets : Leave(t)) \/ (\E h \in Holds : Age(h)) \/ UNCHANGED vars
  <2>1. UNCHANGED hold
    BY <1>6 DEF NudgeTick, Leave, Age, vars, holdVars
  <2>2. ShippedOnlyIfDeployed'
    BY <1>2, <2>1 DEF ShipInv, ShippedOnlyIfDeployed
  <2>3. ASSUME NEW j \in Slots PROVE ShipsDeployed(j)'
    <3>1. CASE NudgeTick /\ j = Nudger
      BY <1>1, <3>1, TickTyped DEF TypeOK, ShipsDeployed
    <3>2. CASE ~(NudgeTick /\ j = Nudger)
      <4>1. task'[j] = task[j]
        BY <1>1, <1>6, <3>2, TickTyped DEF TypeOK, Leave, Age, vars
      <4>q. QED
        BY <1>4, <4>1
    <3>q. QED
      BY <3>1, <3>2
  <2>q. QED
    BY <1>1, <2>2, <2>3 DEF ShipInv
<1>q. QED
  BY <1>3, <1>5, <1>6 DEF Next

\* No hold is ever marked shipped for a PR that no deployed thread lists.
THEOREM NothingShipsEarly == Spec => []ShippedOnlyIfDeployed
<1>1. Init => ShipInv
  <2>1. ASSUME Init PROVE ShippedOnlyIfDeployed /\ \A k \in Slots : ShipsDeployed(k)
    BY <2>1 DEF Init, ShippedOnlyIfDeployed, ShipsDeployed, NoTask, Handler
  <2>q. QED
    BY <2>1, TypeInit DEF ShipInv
<1>2. ShipInv => ShippedOnlyIfDeployed
  BY DEF ShipInv
<1>q. QED
  BY <1>1, <1>2, ShipStep, PTL DEF Spec

-----------------------------------------------------------------------------
(* When the handlers come one at a time.                                   *)
(*                                                                         *)
(* One slot k is in charge: all others are idle.  What its handler has     *)
(* read is still true, and the holds, the replies and the releases fit     *)
(* together except for what it still has to do.                            *)

Open(t, p) == hold[<<t, p>>] \in OpenStates

\* What the handler in charge is about to do for a ticket or a PR.
Answering(k, t) == task[k].pc \in {"query", "hold", "reply"} /\ task[k].ticket = t
Adding(k, t, p) == task[k].pc \in {"query", "hold"} /\ task[k].ticket = t /\ p \in task[k].prs
Freeing(k, t) ==
  \/ task[k].pc \in {"fetch", "post", "close", "cancel"} /\ task[k].ticket = t
  \/ /\ k # Nudger /\ task[k].pc \in {"tickets", "fetch", "post", "close", "cancel"}
     /\ t \in task[k].queue
Shipping(k, p) ==
  \/ task[k].pc = "list" /\ p \in prsOf[task[k].release]
  \/ task[k].pc \in {"select", "mark"} /\ p \in task[k].prs

\* What it has read, of its ticket
KnowsTicket(k) ==
  LET t == task[k].ticket IN
  /\ task[k].pc \in {"resolve", "cancel"} => status[t] # "resolved"
  /\ task[k].pc \in {"query", "hold", "reply", "post", "close"} => status[t] = "resolved"
  /\ task[k].pc \in {"fetch", "post"} /\ ~task[k].byHand =>
       \A p \in PRs : hold[<<t, p>>] # "waiting"

\* and of its release.
KnowsRelease(k) ==
  LET r == task[k].release IN
  /\ task[k].pc = "upsert" => r \notin known
  /\ task[k].pc = "announce" => r \notin deployed
  /\ task[k].pc \in {"queue", "deploy"} => r \in known
  /\ task[k].pc = "queue" => (task[k].seen = "deployed" <=> r \in deployed)
  /\ task[k].pc = "hold" => task[k].prs \cap DeployedPRs = {}
  /\ task[k].pc = "mark" =>
       \A t \in Tickets, p \in task[k].prs : Open(t, p) => t \in task[k].queue

\* Nobody is forgotten; no shipped hold is left behind; every PR of the fix is
\* waited for; what was answered had shipped; nothing waits for what has shipped.
Unforgotten(k, t) ==
  status[t] = "resolved" /\ told[t] = 0 => Answering(k, t) \/ \E p \in PRs : Open(t, p)
Unstranded(k, t) ==
  (\E p \in PRs : Open(t, p)) => Freeing(k, t) \/ \E p \in PRs : hold[<<t, p>>] = "waiting"
Watched(k, t) ==
  status[t] = "resolved" /\ told[t] = 0 =>
    \A p \in fix[t] : p \in DeployedPRs \/ hold[<<t, p>>] = "waiting" \/ Adding(k, t, p)
Earned(t) == told[t] > 0 /\ ~manual[t] => fix[t] \subseteq DeployedPRs
Unmissed(k, t) ==
  \A p \in PRs : hold[<<t, p>>] = "waiting" /\ p \in DeployedPRs => Shipping(k, p)

Books(k) ==
  /\ task[k].pc = "query" => fix[task[k].ticket] = task[k].prs
  /\ task[k].pc = "reply" => fix[task[k].ticket] \subseteq DeployedPRs
  /\ task[k].pc = "close" => told[task[k].ticket] > 0
  /\ \A t \in Tickets : /\ Unforgotten(k, t) /\ Unstranded(k, t) /\ Watched(k, t)
                        /\ Earned(t) /\ Unmissed(k, t)

Others(k) == \A j \in Slots \ {k} : task[j].pc = "idle"
InCharge(k) == Others(k) /\ KnowsTicket(k) /\ KnowsRelease(k) /\ (faults = 0 => Books(k))

SerialInv ==
  /\ ShipInv
  /\ deployed \subseteq known
  /\ task[Nudger].pc \in {"idle", "nudge", "nudge_dm", "nudge_mark", "cancel"}
  /\ \E k \in Slots : InCharge(k)

-----------------------------------------------------------------------------
(* Facts about the model's helpers.                                        *)

LEMMA HoldsOf ==
  ASSUME NEW t \in Tickets
  PROVE  /\ OpenHolds(t) # {} <=> \E p \in PRs : Open(t, p)
         /\ Waiting(t) # {} <=> \E p \in PRs : hold[<<t, p>>] = "waiting"
         /\ \A p \in PRs : (\E h \in OpenHolds(t) : h[2] = p) <=> Open(t, p)
<1>1. \A p \in PRs : <<t, p>> \in OpenHolds(t) <=> Open(t, p)
  BY DEF OpenHolds, Open, Holds
<1>2. \A h \in OpenHolds(t) : h = <<t, h[2]>> /\ h[2] \in PRs
  BY DEF OpenHolds, Holds
<1>q. QED
  BY <1>1, <1>2 DEF Waiting, Open, OpenStates

LEMMA Closed ==
  ASSUME NEW t \in Tickets, NEW state, CloseFor(t, state)
  PROVE  \A u \in Tickets, p \in PRs :
           hold'[<<u, p>>] = IF u = t /\ Open(t, p) THEN state ELSE hold[<<u, p>>]
BY DEF CloseFor, OpenHolds, Holds, Open

LEMMA GotoFields ==
  ASSUME task \in [Slots -> TaskRecord], NEW k \in Slots, NEW pc, Goto(k, pc)
  PROVE  /\ task'[k].pc = pc
         /\ task'[k].ticket = task[k].ticket /\ task'[k].release = task[k].release
         /\ task'[k].prs = task[k].prs /\ task'[k].run = task[k].run
         /\ task'[k].seen = task[k].seen /\ task'[k].byHand = task[k].byHand
         /\ task'[k].queue = task[k].queue /\ task'[k].listed = task[k].listed
BY DEF Goto, TaskRecord

LEMMA ReturnIdle ==
  ASSUME task \in [Slots -> TaskRecord], NEW k \in Slots, Return(k)
  PROVE  task'[k].pc = "idle"
BY DEF Return, NoTask, Handler

LEMMA DeployedSame ==
  UNCHANGED releaseVars => UNCHANGED <<known, deployed, prsOf>> /\ UNCHANGED DeployedPRs
BY DEF releaseVars, DeployedPRs

\* A handler that is done, or whose steps touch no hold, ticket or release.
LEMMA NothingKnown ==
  ASSUME NEW k, task'[k].pc \in {"idle", "tickets", "nudge", "nudge_dm", "nudge_mark"}
  PROVE  KnowsTicket(k)' /\ KnowsRelease(k)'
BY DEF KnowsTicket, KnowsRelease

-----------------------------------------------------------------------------
(* A resolve.                                                              *)

LEMMA ResolveSteps ==
  ASSUME SerialInv, NEW k \in Slots, InCharge(k), TypeOK', Others(k)',
         ResolveWrite(k) \/ QueryDeployed(k) \/ ReplyNow(k) \/ AddHold(k)
  PROVE  InCharge(k)'
<1>1. /\ task \in [Slots -> TaskRecord] /\ task[k] \in TaskRecord
      /\ hold \in [Holds -> HoldStates] /\ status \in [Tickets -> {"open", "resolved"}]
      /\ told \in [Tickets -> Nat] /\ fix \in [Tickets -> SUBSET PRs]
      /\ manual \in [Tickets -> BOOLEAN] /\ faults \in Nat
      /\ \A p \in PRs, t \in Tickets : <<t, p>> \in Holds
  BY DEF SerialInv, ShipInv, TypeOK, TablesTypeOK, TaskTypeOK, HistoryTypeOK, Holds
<1>2. task[k].ticket \in Tickets /\ task[k].prs \subseteq PRs /\ UNCHANGED releaseVars
      /\ UNCHANGED <<known, deployed, prsOf>> /\ UNCHANGED DeployedPRs
  BY <1>1, DeployedSame DEF SerialInv, ShipInv, TypeOK, TaskTypeOK, OfTicket, TaskRecord,
     ResolveWrite, QueryDeployed, ReplyNow, AddHold
<1>3. CASE ResolveWrite(k)
  <2>1. /\ task'[k].pc = "query" /\ task'[k].ticket = task[k].ticket
        /\ task'[k].prs = task[k].prs /\ task[k].pc = "resolve"
    BY <1>1, <1>3, GotoFields DEF ResolveWrite
  <2>2. status[task[k].ticket] # "resolved" /\ UNCHANGED <<hold, faults>>
    BY <1>3, <2>1 DEF InCharge, KnowsTicket, ResolveWrite, holdVars
  <2>3. KnowsTicket(k)' /\ KnowsRelease(k)'
    BY <1>1, <1>2, <1>3, <2>1 DEF KnowsTicket, KnowsRelease, ResolveWrite
  <2>4. ASSUME faults' = 0, NEW t \in Tickets
        PROVE  Unforgotten(k, t)' /\ Unstranded(k, t)' /\ Watched(k, t)' /\ Earned(t)'
               /\ Unmissed(k, t)'
    <3>1. Unforgotten(k, t) /\ Unstranded(k, t) /\ Watched(k, t) /\ Earned(t) /\ Unmissed(k, t)
      BY <2>2, <2>4 DEF InCharge, Books
    <3>2. CASE t = task[k].ticket
      <4>1. told'[t] = 0 /\ fix'[t] = task[k].prs
        BY <1>1, <1>3, <2>2, <3>2 DEF ResolveWrite
      <4>q. QED
        BY <1>1, <1>2, <2>1, <2>2, <3>1, <3>2, <4>1 DEF Unforgotten, Unstranded, Watched, Earned,
           Unmissed, Answering, Adding, Freeing, Shipping, Open
    <3>3. CASE t # task[k].ticket
      <4>1. UNCHANGED <<status[t], told[t], fix[t], manual[t]>>
        BY <1>1, <1>3, <3>3 DEF ResolveWrite
      <4>q. QED
        BY <1>1, <1>2, <2>1, <2>2, <3>1, <3>3, <4>1 DEF Unforgotten, Unstranded, Watched, Earned,
           Unmissed, Answering, Adding, Freeing, Shipping, Open
    <3>q. QED
      BY <3>2, <3>3
  <2>5. fix'[task[k].ticket] = task[k].prs
    BY <1>1, <1>2, <1>3, <2>2 DEF ResolveWrite
  <2>q. QED
    BY <2>1, <2>3, <2>4, <2>5 DEF InCharge, Books
<1>4. CASE QueryDeployed(k)
  <2>1. /\ task'[k].ticket = task[k].ticket /\ task[k].pc = "query"
        /\ task'[k].prs = task[k].prs \ DeployedPRs
        /\ task'[k].pc = IF task'[k].prs = {} THEN "reply" ELSE "hold"
        /\ UNCHANGED <<status, hold, faults, told, fix, manual>>
    BY <1>1, <1>4 DEF QueryDeployed, TaskRecord, holdVars, history
  <2>2. KnowsTicket(k)' /\ KnowsRelease(k)'
    BY <1>2, <1>4, <2>1 DEF InCharge, KnowsTicket, KnowsRelease
  <2>3. ASSUME faults' = 0 PROVE Books(k)'
    <3>1. Books(k)
      BY <2>1, <2>3 DEF InCharge
    <3>q. QED
      BY <1>2, <2>1, <3>1 DEF Books, Unforgotten, Unstranded, Watched, Earned,
         Unmissed, Answering, Adding, Freeing, Shipping, Open
  <2>q. QED
    BY <2>2, <2>3 DEF InCharge
<1>5. CASE ReplyNow(k)
  <2>1. /\ task'[k].pc = "idle" /\ task[k].pc = "reply"
        /\ UNCHANGED <<status, hold, fix, manual>>
        /\ \/ faults' = faults /\ told' = [told EXCEPT ![task[k].ticket] = @ + 1]
           \/ faults' = faults + 1
    BY <1>1, <1>5, ReturnIdle DEF ReplyNow, holdVars, Tell
  <2>2. KnowsTicket(k)' /\ KnowsRelease(k)'
    BY <2>1, NothingKnown
  <2>3. ASSUME faults' = 0 PROVE Books(k)'
    <3>1. /\ Books(k) /\ told' = [told EXCEPT ![task[k].ticket] = @ + 1]
      BY <1>1, <2>1, <2>3 DEF InCharge
    <3>2. fix[task[k].ticket] \subseteq DeployedPRs
      BY <2>1, <3>1 DEF Books
    <3>3. ASSUME NEW t \in Tickets
          PROVE  Unforgotten(k, t)' /\ Unstranded(k, t)' /\ Watched(k, t)' /\ Unmissed(k, t)'
      <4>1. /\ Unforgotten(k, t) /\ Unstranded(k, t) /\ Watched(k, t) /\ Unmissed(k, t)
            /\ told'[t] = 0 => told[t] = 0 /\ t # task[k].ticket
        BY <1>1, <1>2, <3>1 DEF Books
      <4>q. QED
        BY <1>2, <2>1, <4>1 DEF Unforgotten, Unstranded, Watched,
           Unmissed, Answering, Adding, Freeing, Shipping, Open
    <3>4. ASSUME NEW t \in Tickets PROVE Earned(t)'
      <4>1. Earned(t) /\ (t # task[k].ticket => told'[t] = told[t])
        BY <1>1, <3>1 DEF Books
      <4>q. QED
        BY <1>2, <2>1, <3>2, <4>1 DEF Earned
    <3>q. QED
      BY <2>1, <3>3, <3>4 DEF Books
  <2>q. QED
    BY <2>2, <2>3 DEF InCharge
<1>6. CASE AddHold(k)
  <2>1. PICK p \in task[k].prs :
          /\ hold' = [hold EXCEPT ![<<task[k].ticket, p>>] = "waiting"]
          /\ IF task[k].prs \ {p} = {} THEN Return(k)
             ELSE task' = [task EXCEPT ![k].prs = task[k].prs \ {p}]
          /\ task[k].pc = "hold" /\ UNCHANGED <<status, faults, told, fix, manual>>
    BY <1>6 DEF AddHold, history
  <2>2. /\ p \in PRs /\ <<task[k].ticket, p>> \in Holds
        /\ hold'[<<task[k].ticket, p>>] = "waiting"
        /\ \A t \in Tickets, q \in PRs :
             <<t, q>> # <<task[k].ticket, p>> => hold'[<<t, q>>] = hold[<<t, q>>]
    BY <1>1, <1>2, <2>1
  <2>3. \/ task'[k].pc = "idle" /\ task[k].prs = {p}
        \/ /\ task'[k].pc = "hold" /\ task'[k].ticket = task[k].ticket
           /\ task'[k].prs = task[k].prs \ {p}
    BY <1>1, <2>1, ReturnIdle DEF TaskRecord
  <2>4. KnowsTicket(k)' /\ KnowsRelease(k)'
    BY <1>2, <2>1, <2>3 DEF InCharge, KnowsTicket, KnowsRelease
  <2>5. ASSUME faults' = 0, NEW t \in Tickets
        PROVE  Unforgotten(k, t)' /\ Unstranded(k, t)' /\ Watched(k, t)' /\ Earned(t)'
               /\ Unmissed(k, t)'
    <3>1. /\ Unforgotten(k, t) /\ Unstranded(k, t) /\ Watched(k, t) /\ Earned(t) /\ Unmissed(k, t)
          /\ p \notin DeployedPRs
      BY <2>1, <2>5 DEF InCharge, Books, KnowsRelease
    <3>2. CASE t = task[k].ticket
      <4>1. Unforgotten(k, t)' /\ Unstranded(k, t)' /\ Earned(t)' /\ Unmissed(k, t)'
        BY <1>1, <1>2, <2>1, <2>2, <2>3, <3>1, <3>2 DEF Unforgotten, Unstranded, Earned,
           Unmissed, Answering, Freeing, Shipping, Open, OpenStates
      <4>2. Watched(k, t)'
        BY <1>1, <1>2, <2>1, <2>2, <2>3, <3>1, <3>2 DEF Watched, Adding
      <4>q. QED
        BY <3>1, <4>1, <4>2
    <3>3. CASE t # task[k].ticket
      BY <1>1, <1>2, <2>1, <2>2, <2>3, <3>1, <3>3 DEF Unforgotten, Unstranded, Watched, Earned,
         Unmissed, Answering, Adding, Freeing, Shipping, Open
    <3>q. QED
      BY <3>2, <3>3
  <2>q. QED
    BY <2>3, <2>4, <2>5 DEF InCharge, Books
<1>q. QED
  BY <1>3, <1>4, <1>5, <1>6

-----------------------------------------------------------------------------
(* A release thread.                                                       *)

\* Steps that touch no hold and no ticket, and ship nothing.
LEMMA QuietBooks ==
  ASSUME NEW k \in Slots, Books(k), UNCHANGED <<status, hold, told, fix, manual>>,
         UNCHANGED DeployedPRs,
         task[k].pc \notin {"query", "hold", "reply", "fetch", "post", "close", "cancel", "tickets"},
         task'[k].pc \notin {"query", "reply", "close"},
         \A p \in PRs : Shipping(k, p) => Shipping(k, p)'
  PROVE  Books(k)'
BY DEF Books, Unforgotten, Unstranded, Watched, Earned, Unmissed, Answering, Adding, Freeing, Open

LEMMA ThreadSteps ==
  ASSUME SerialInv, NEW k \in Slots, InCharge(k), TypeOK', Others(k)',
         UpsertRelease(k) \/ AnnouncePRs(k) \/ QueueCommits(k) \/ DeployRelease(k)
           \/ ListShipped(k) \/ SelectHeld(k)
  PROVE  InCharge(k)'
<1>1. /\ task \in [Slots -> TaskRecord] /\ task[k] \in TaskRecord
      /\ prsOf \in [Releases -> SUBSET PRs] /\ deployed \subseteq Releases
      /\ task[k].release \in Releases \/ task[k].pc \in {"select"}
      /\ ShipsDeployed(k)
      /\ deployed \subseteq known
  BY DEF SerialInv, ShipInv, TypeOK, TablesTypeOK, TaskTypeOK, OfRelease, UpsertRelease, AnnouncePRs,
     QueueCommits, DeployRelease, ListShipped, SelectHeld
<1>2. UNCHANGED <<status, hold, told, fix, manual, faults>>
  BY DEF UpsertRelease, AnnouncePRs, QueueCommits, DeployRelease, ListShipped, SelectHeld, holdVars,
     history
<1>3. faults = 0 => Books(k)
  BY DEF InCharge
<1>4. CASE UpsertRelease(k)
  <2>1. /\ task'[k].pc = "announce" /\ task[k].pc = "upsert" /\ task'[k].release = task[k].release
        /\ UNCHANGED <<deployed, DeployedPRs>>
    BY <1>1, <1>4, GotoFields DEF UpsertRelease, DeployedPRs
  <2>2. KnowsTicket(k)' /\ KnowsRelease(k)'
    BY <1>1, <2>1 DEF InCharge, KnowsTicket, KnowsRelease
  <2>q. QED
    BY <1>2, <1>3, <2>1, <2>2, QuietBooks DEF InCharge, Shipping
<1>5. CASE AnnouncePRs(k)
  <2>1. /\ task'[k].pc = "idle" /\ task[k].pc = "announce"
        /\ task[k].release \notin deployed
    BY <1>1, <1>5, ReturnIdle DEF AnnouncePRs, InCharge, KnowsRelease
  <2>2. UNCHANGED DeployedPRs
    BY <1>1, <1>5, <2>1 DEF AnnouncePRs, DeployedPRs
  <2>q. QED
    BY <1>2, <1>3, <2>1, <2>2, QuietBooks, NothingKnown DEF InCharge, Shipping
<1>6. CASE QueueCommits(k)
  <2>1. /\ task[k].pc = "queue" /\ UNCHANGED <<known, deployed>>
        /\ task[k].seen = "deployed" <=> task[k].release \in deployed
        /\ task[k].release \in known
        /\ prsOf' = [prsOf EXCEPT ![task[k].release] = @ \cup task[k].prs]
    BY <1>6 DEF QueueCommits, InCharge, KnowsRelease
  <2>2. CASE task[k].seen = "deployed"
    <3>1. task'[k].pc = "select" /\ task'[k].prs = task[k].prs
      BY <1>1, <1>6, <2>2, GotoFields DEF QueueCommits
    <3>2. \A p \in DeployedPRs' : p \in DeployedPRs \/ p \in task[k].prs
      BY <1>1, <2>1 DEF DeployedPRs
    <3>3. DeployedPRs \subseteq DeployedPRs'
      BY <1>1, <2>1 DEF DeployedPRs
    <3>4. ASSUME faults = 0 PROVE Books(k)'
      BY <1>2, <1>3, <2>1, <3>1, <3>2, <3>3, <3>4 DEF Books, Unforgotten, Unstranded, Watched, Earned,
         Unmissed, Answering, Adding, Freeing, Shipping, Open
    <3>q. QED
      BY <1>2, <3>1, <3>4 DEF InCharge, KnowsTicket, KnowsRelease
  <2>3. CASE task[k].seen # "deployed"
    <3>1. UNCHANGED DeployedPRs
      BY <1>1, <2>1, <2>3 DEF DeployedPRs
    <3>2. task'[k].pc = "idle" \/ (task'[k].pc = "deploy" /\ task'[k].release = task[k].release)
      BY <1>1, <1>6, <2>3, GotoFields, ReturnIdle DEF QueueCommits
    <3>q. QED
      BY <1>2, <1>3, <2>1, <3>1, <3>2, QuietBooks DEF InCharge, KnowsTicket, KnowsRelease, Shipping
  <2>q. QED
    BY <2>2, <2>3
<1>7. CASE DeployRelease(k)
  <2>1. /\ task[k].pc = "deploy" /\ task'[k].pc = "list" /\ task'[k].release = task[k].release
        /\ deployed' = deployed \cup {task[k].release} /\ UNCHANGED prsOf
    BY <1>1, <1>7, GotoFields DEF DeployRelease
  <2>2. DeployedPRs' = DeployedPRs \cup prsOf[task[k].release]
    BY <2>1 DEF DeployedPRs
  <2>3. ASSUME faults = 0 PROVE Books(k)'
    BY <1>2, <1>3, <2>1, <2>2, <2>3 DEF Books, Unforgotten, Unstranded, Watched, Earned,
       Unmissed, Answering, Adding, Freeing, Shipping, Open
  <2>q. QED
    BY <1>2, <2>1, <2>3 DEF InCharge, KnowsTicket, KnowsRelease
<1>8. CASE ListShipped(k)
  <2>1. /\ task[k].pc = "list" /\ task'[k].pc = "select" /\ task'[k].prs = prsOf[task[k].release]
        /\ UNCHANGED DeployedPRs
    BY <1>1, <1>8, DeployedSame DEF ListShipped, TaskRecord
  <2>2. \A p \in PRs : Shipping(k, p) => Shipping(k, p)'
    BY <2>1 DEF Shipping
  <2>q. QED
    BY <1>2, <1>3, <2>1, <2>2, QuietBooks DEF InCharge, KnowsTicket, KnowsRelease
<1>9. CASE SelectHeld(k)
  <2>1. /\ task[k].pc = "select" /\ task'[k].pc = "mark" /\ task'[k].prs = task[k].prs
        /\ task'[k].queue = {t \in Tickets : \E h \in OpenHolds(t) : h[2] \in task[k].prs}
        /\ UNCHANGED DeployedPRs
    BY <1>1, <1>9, DeployedSame DEF SelectHeld, TaskRecord
  <2>2. task[k].prs \subseteq PRs
    BY <1>1 DEF TaskRecord
  <2>3. ASSUME NEW t \in Tickets, NEW p \in task'[k].prs, Open(t, p)'
        PROVE  t \in task'[k].queue
    <3>1. Open(t, p) /\ p \in PRs /\ p \in task[k].prs
      BY <1>2, <2>1, <2>2, <2>3 DEF Open
    <3>2. \E h \in OpenHolds(t) : h[2] = p
      BY <3>1, HoldsOf
    <3>q. QED
      BY <2>1, <3>1, <3>2
  <2>4. \A p \in PRs : Shipping(k, p) => Shipping(k, p)'
    BY <2>1 DEF Shipping
  <2>5. KnowsTicket(k)' /\ KnowsRelease(k)'
    BY <2>1, <2>3 DEF KnowsTicket, KnowsRelease
  <2>q. QED
    BY <1>2, <1>3, <2>1, <2>4, <2>5, QuietBooks DEF InCharge
<1>q. QED
  BY <1>4, <1>5, <1>6, <1>7, <1>8, <1>9

\* The UPDATE of mark_deployed: every hold it ships is one of a ticket in the queue.
LEMMA MarkStep ==
  ASSUME SerialInv, NEW k \in Slots, InCharge(k), TypeOK', Others(k)', MarkShipped(k)
  PROVE  InCharge(k)'
<1>1. /\ task \in [Slots -> TaskRecord] /\ task[k] \in TaskRecord /\ k # Nudger
      /\ hold \in [Holds -> HoldStates] /\ task[k].prs \subseteq PRs
      /\ task[k].prs \subseteq DeployedPRs
      /\ \A p \in PRs, t \in Tickets : <<t, p>> \in Holds
  BY DEF SerialInv, ShipInv, ShipsDeployed, TypeOK, TablesTypeOK, TaskTypeOK, TaskRecord, MarkShipped,
     Holds
<1>2. /\ task[k].pc = "mark" /\ task'[k].pc = "tickets" /\ task'[k].queue = task[k].queue
      /\ UNCHANGED <<status, told, fix, manual, faults>> /\ UNCHANGED DeployedPRs
  BY <1>1, GotoFields, DeployedSame DEF MarkShipped, history
<1>3. \A t \in Tickets, p \in PRs :
        hold'[<<t, p>>] = IF hold[<<t, p>>] = "waiting" /\ p \in task[k].prs THEN "shipped"
                          ELSE hold[<<t, p>>]
  BY <1>1 DEF MarkShipped
<1>4. \A t \in Tickets, p \in PRs : Open(t, p)' <=> Open(t, p)
  BY <1>3 DEF Open, OpenStates
<1>5. ASSUME faults' = 0, NEW t \in Tickets
      PROVE  Unforgotten(k, t)' /\ Unstranded(k, t)' /\ Watched(k, t)' /\ Earned(t)'
             /\ Unmissed(k, t)'
  <2>1. Unforgotten(k, t) /\ Unstranded(k, t) /\ Watched(k, t) /\ Earned(t) /\ Unmissed(k, t)
    BY <1>2, <1>5 DEF InCharge, Books
  <2>2. \A p \in task[k].prs : Open(t, p) => t \in task[k].queue
    BY <1>2 DEF InCharge, KnowsRelease
  <2>3. Unforgotten(k, t)' /\ Earned(t)'
    BY <1>2, <1>4, <2>1 DEF Unforgotten, Earned, Answering
  <2>4. Unstranded(k, t)'
    <3>1. CASE t \in task[k].queue
      BY <1>1, <1>2, <3>1 DEF Unstranded, Freeing
    <3>2. CASE t \notin task[k].queue
      BY <1>1, <1>2, <1>3, <1>4, <2>1, <2>2, <3>2 DEF Unstranded, Freeing, Open, OpenStates
    <3>q. QED
      BY <3>1, <3>2
  <2>5. fix[t] \subseteq PRs
    BY DEF SerialInv, ShipInv, TypeOK, HistoryTypeOK
  <2>6. Watched(k, t)'
    BY <1>1, <1>2, <1>3, <2>1, <2>5 DEF Watched, Adding
  <2>7. Unmissed(k, t)'
    BY <1>2, <1>3, <2>1 DEF Unmissed, Shipping
  <2>q. QED
    BY <2>1, <2>3, <2>4, <2>6, <2>7
<1>q. QED
  BY <1>2, <1>5, NothingKnown DEF InCharge, Books

-----------------------------------------------------------------------------
(* The release of a reply, and the nudge.                                  *)

LEMMA LoopSteps ==
  ASSUME SerialInv, NEW k \in Slots, InCharge(k), TypeOK', Others(k)',
         NextTicket(k) \/ FetchTicket(k) \/ NudgeNext(k) \/ NudgeDM(k) \/ NudgeMark(k)
  PROVE  InCharge(k)'
<1>1. /\ task \in [Slots -> TaskRecord] /\ task[k] \in TaskRecord
      /\ task[k].queue \subseteq Tickets
      /\ k = Nudger => task[k].pc \in {"idle", "nudge", "nudge_dm", "nudge_mark", "cancel"}
  BY DEF SerialInv, ShipInv, TypeOK, TaskTypeOK, TaskRecord
<1>2. /\ UNCHANGED <<status, hold, told, fix, manual>>
      /\ faults' = faults \/ (faults' # 0 /\ NudgeDM(k))
      /\ UNCHANGED <<known, deployed, prsOf>> /\ UNCHANGED DeployedPRs
  <2>1. UNCHANGED <<status, hold, told, fix, manual>> /\ UNCHANGED releaseVars
    BY DEF NextTicket, FetchTicket, NudgeNext, NudgeDM, NudgeMark, holdVars, history
  <2>2. UNCHANGED faults \/ NudgeDM(k)
    BY DEF NextTicket, FetchTicket, NudgeNext, NudgeMark
  <2>3. NudgeDM(k) => faults' = faults \/ faults' # 0
    BY DEF NudgeDM, SerialInv, ShipInv, TypeOK, HistoryTypeOK
  <2>q. QED
    BY <2>1, <2>2, <2>3, DeployedSame
<1>3. faults = 0 => Books(k)
  BY DEF InCharge
<1>4. CASE NextTicket(k)
  <2>1. task[k].pc = "tickets" /\ k # Nudger
    BY <1>1, <1>4 DEF NextTicket
  <2>2. CASE Return(k) /\ task[k].queue = {}
    <3>1. task'[k].pc = "idle"
      BY <1>1, <2>2, ReturnIdle
    <3>2. ASSUME faults = 0 PROVE Books(k)'
      BY <1>2, <1>3, <2>1, <2>2, <3>1, <3>2 DEF Books, Unforgotten, Unstranded, Watched, Earned,
         Unmissed, Answering, Adding, Freeing, Shipping, Open
    <3>q. QED
      BY <1>2, <3>1, <3>2, NothingKnown DEF InCharge
  <2>3. CASE \E t \in task[k].queue :
               Waiting(t) # {} /\ task' = [task EXCEPT ![k].queue = @ \ {t}]
    <3>1. PICK t \in task[k].queue :
            Waiting(t) # {} /\ task' = [task EXCEPT ![k].queue = @ \ {t}]
      BY <2>3
    <3>2. /\ task'[k].pc = "tickets" /\ task'[k].queue = task[k].queue \ {t}
          /\ \E p \in PRs : hold[<<t, p>>] = "waiting"
      BY <1>1, <2>1, <3>1, HoldsOf DEF TaskRecord
    <3>3. ASSUME faults = 0 PROVE Books(k)'
      BY <1>2, <1>3, <2>1, <3>2, <3>3 DEF Books, Unforgotten, Unstranded, Watched, Earned,
         Unmissed, Answering, Adding, Freeing, Shipping, Open
    <3>q. QED
      BY <1>2, <3>2, <3>3, NothingKnown DEF InCharge
  <2>4. CASE \E t \in task[k].queue :
               /\ Waiting(t) = {}
               /\ task' = [task EXCEPT ![k].queue = @ \ {t}, ![k].ticket = t, ![k].pc = "fetch"]
    <3>1. PICK t \in task[k].queue :
            /\ Waiting(t) = {}
            /\ task' = [task EXCEPT ![k].queue = @ \ {t}, ![k].ticket = t, ![k].pc = "fetch"]
      BY <2>4
    <3>2. /\ task'[k].pc = "fetch" /\ task'[k].queue = task[k].queue \ {t}
          /\ task'[k].ticket = t
          /\ \A p \in PRs : hold[<<t, p>>] # "waiting"
      BY <1>1, <2>1, <3>1, HoldsOf DEF TaskRecord
    <3>3. ASSUME faults = 0 PROVE Books(k)'
      BY <1>2, <1>3, <2>1, <3>2, <3>3 DEF Books, Unforgotten, Unstranded, Watched, Earned,
         Unmissed, Answering, Adding, Freeing, Shipping, Open
    <3>4. KnowsTicket(k)' /\ KnowsRelease(k)'
      BY <1>2, <3>2 DEF KnowsTicket, KnowsRelease
    <3>q. QED
      BY <1>2, <3>3, <3>4 DEF InCharge
  <2>q. QED
    BY <1>4, <2>2, <2>3, <2>4 DEF NextTicket
<1>5. CASE FetchTicket(k)
  <2>1. /\ task[k].pc = "fetch" /\ k # Nudger
        /\ task'[k].ticket = task[k].ticket /\ task'[k].queue = task[k].queue
        /\ task'[k].byHand = task[k].byHand
        /\ task'[k].pc = IF status[task[k].ticket] = "resolved" THEN "post" ELSE "cancel"
    BY <1>1, <1>5, GotoFields DEF FetchTicket
  <2>2. KnowsTicket(k)' /\ KnowsRelease(k)'
    BY <1>2, <2>1 DEF InCharge, KnowsTicket, KnowsRelease
  <2>3. ASSUME faults = 0 PROVE Books(k)'
    BY <1>2, <1>3, <2>1, <2>3 DEF Books, Unforgotten, Unstranded, Watched, Earned,
       Unmissed, Answering, Adding, Freeing, Shipping, Open
  <2>q. QED
    BY <1>2, <2>2, <2>3 DEF InCharge
<1>6. CASE NudgeNext(k)
  <2>1. task[k].pc = "nudge"
    BY <1>6 DEF NudgeNext
  <2>2. \/ task'[k].pc = "idle"
        \/ task'[k].pc = "nudge_dm"
        \/ task'[k].pc = "cancel" /\ status[task'[k].ticket] # "resolved"
    <3>1. CASE Return(k)
      BY <1>1, <3>1, ReturnIdle
    <3>2. CASE \E t \in task[k].queue :
                 task' = [task EXCEPT ![k].queue = @ \ {t}, ![k].ticket = t,
                                      ![k].pc = IF status[t] = "resolved" THEN "nudge_dm"
                                                                          ELSE "cancel"]
      <4>1. PICK t \in task[k].queue :
              task' = [task EXCEPT ![k].queue = @ \ {t}, ![k].ticket = t,
                                   ![k].pc = IF status[t] = "resolved" THEN "nudge_dm"
                                                                       ELSE "cancel"]
        BY <3>2
      <4>2. /\ task'[k].pc = IF status[t] = "resolved" THEN "nudge_dm" ELSE "cancel"
            /\ task'[k].ticket = t
        BY <1>1, <4>1 DEF TaskRecord
      <4>q. QED
        BY <4>2
    <3>q. QED
      BY <1>6, <3>1, <3>2 DEF NudgeNext
  <2>3. KnowsTicket(k)' /\ KnowsRelease(k)'
    BY <1>2, <2>2 DEF KnowsTicket, KnowsRelease
  <2>4. ASSUME faults = 0 PROVE Books(k)'
    BY <1>2, <1>3, <2>1, <2>2, <2>4, QuietBooks DEF Shipping
  <2>q. QED
    BY <1>2, <1>6, <2>1, <2>3, <2>4 DEF InCharge, NudgeDM
<1>7. CASE NudgeMark(k)
  <2>1. task[k].pc = "nudge_mark" /\ task'[k].pc = "nudge"
    BY <1>1, <1>7, GotoFields DEF NudgeMark
  <2>q. QED
    BY <1>2, <1>3, <2>1, QuietBooks, NothingKnown DEF InCharge, Shipping, NudgeDM
<1>8. CASE NudgeDM(k)
  <2>1. task[k].pc = "nudge_dm" /\ task'[k].pc = "nudge_mark"
    BY <1>1, <1>8, GotoFields DEF NudgeDM
  <2>2. ASSUME faults' = 0 PROVE Books(k)'
    BY <1>2, <1>3, <2>1, <2>2, QuietBooks DEF Shipping
  <2>q. QED
    BY <1>2, <2>1, <2>2, NothingKnown DEF InCharge
<1>q. QED
  BY <1>4, <1>5, <1>6, <1>7, <1>8

LEMMA PostStep ==
  ASSUME SerialInv, NEW k \in Slots, InCharge(k), TypeOK', Others(k)', PostHeld(k)
  PROVE  InCharge(k)'
<1>1. /\ task \in [Slots -> TaskRecord] /\ task[k] \in TaskRecord /\ task[k].ticket \in Tickets
      /\ told \in [Tickets -> Nat] /\ manual \in [Tickets -> BOOLEAN] /\ faults \in Nat
      /\ fix \in [Tickets -> SUBSET PRs] /\ task[k].byHand \in BOOLEAN
      /\ k # Nudger
  BY DEF SerialInv, ShipInv, TypeOK, TaskTypeOK, HistoryTypeOK, TaskRecord, PostHeld, OfTicket
<1>2. /\ UNCHANGED <<status, hold, fix>> /\ UNCHANGED DeployedPRs
      /\ task[k].pc = "post" /\ task'[k].pc = "close" /\ task'[k].ticket = task[k].ticket
      /\ task'[k].queue = task[k].queue
      /\ manual' = [manual EXCEPT ![task[k].ticket] = @ \/ task[k].byHand]
      /\ status[task[k].ticket] = "resolved"
      /\ ~task[k].byHand => \A p \in PRs : hold[<<task[k].ticket, p>>] # "waiting"
  BY <1>1, GotoFields, DeployedSame DEF PostHeld, holdVars, InCharge, KnowsTicket
<1>3. \/ faults' = faults /\ told' = [told EXCEPT ![task[k].ticket] = @ + 1]
      \/ faults' = faults + 1
  BY DEF PostHeld, Tell
<1>4. KnowsTicket(k)' /\ KnowsRelease(k)'
  BY <1>2 DEF KnowsTicket, KnowsRelease
<1>5. ASSUME faults' = 0 PROVE Books(k)'
  <2>1. Books(k) /\ told' = [told EXCEPT ![task[k].ticket] = @ + 1]
    BY <1>1, <1>3, <1>5 DEF InCharge
  <2>2. ASSUME NEW t \in Tickets
        PROVE  Unforgotten(k, t)' /\ Unstranded(k, t)' /\ Watched(k, t)' /\ Unmissed(k, t)'
    <3>1. /\ Unforgotten(k, t) /\ Unstranded(k, t) /\ Watched(k, t) /\ Unmissed(k, t)
          /\ told'[t] = 0 => told[t] = 0
      BY <1>1, <2>1 DEF Books
    <3>q. QED
      BY <1>1, <1>2, <3>1 DEF Unforgotten, Unstranded, Watched, Unmissed, Answering, Adding, Freeing,
         Shipping, Open
  <2>3. ASSUME NEW t \in Tickets PROVE Earned(t)'
    <3>1. Earned(t) /\ Watched(k, t)
      BY <2>1 DEF Books
    <3>2. CASE t # task[k].ticket
      BY <1>1, <1>2, <2>1, <3>1, <3>2 DEF Earned
    <3>3. CASE t = task[k].ticket /\ ~manual'[t]
      <4>1. ~manual[t] /\ ~task[k].byHand
        BY <1>1, <1>2, <3>3
      <4>2. CASE told[t] = 0
        <5>1. \A p \in fix[t] : p \in DeployedPRs
          BY <1>1, <1>2, <3>1, <3>3, <4>1, <4>2 DEF Watched, Adding
        <5>q. QED
          BY <1>2, <5>1 DEF Earned
      <4>3. CASE told[t] # 0
        BY <1>1, <1>2, <3>1, <4>1, <4>3 DEF Earned
      <4>q. QED
        BY <4>2, <4>3
    <3>4. CASE manual'[t]
      BY <3>4 DEF Earned
    <3>q. QED
      BY <3>2, <3>3, <3>4
  <2>4. told'[task[k].ticket] > 0
    BY <1>1, <2>1
  <2>q. QED
    BY <1>2, <2>2, <2>3, <2>4 DEF Books
<1>q. QED
  BY <1>4, <1>5 DEF InCharge

LEMMA CloseSteps ==
  ASSUME SerialInv, NEW k \in Slots, InCharge(k), TypeOK', Others(k)',
         CloseHolds(k) \/ CancelHolds(k)
  PROVE  InCharge(k)'
<1>1. /\ task \in [Slots -> TaskRecord] /\ task[k] \in TaskRecord /\ task[k].ticket \in Tickets
      /\ k = Nudger => task[k].pc \in {"idle", "nudge", "nudge_dm", "nudge_mark", "cancel"}
      /\ told \in [Tickets -> Nat]
      /\ fix \in [Tickets -> SUBSET PRs]
  BY DEF SerialInv, ShipInv, TypeOK, TaskTypeOK, HistoryTypeOK, CloseHolds, CancelHolds, OfTicket
<1>2. /\ UNCHANGED <<status, told, fix, manual, faults>> /\ UNCHANGED DeployedPRs
  BY DeployedSame DEF CloseHolds, CancelHolds, history
<1>3. PICK state \in {"released", "cancelled"} : CloseFor(task[k].ticket, state)
  BY DEF CloseHolds, CancelHolds
<1>4. /\ \A p \in PRs : hold'[<<task[k].ticket, p>>] \notin OpenStates
      /\ \A u \in Tickets \ {task[k].ticket}, p \in PRs : hold'[<<u, p>>] = hold[<<u, p>>]
      /\ \A p \in PRs : hold'[<<task[k].ticket, p>>] # "waiting"
  <2>1. \A u \in Tickets, p \in PRs :
          hold'[<<u, p>>] = IF u = task[k].ticket /\ Open(u, p) THEN state ELSE hold[<<u, p>>]
    BY <1>1, <1>3, Closed
  <2>2. \A p \in PRs : hold'[<<task[k].ticket, p>>] \notin OpenStates
    BY <1>1, <2>1 DEF Open, OpenStates
  <2>q. QED
    BY <1>1, <2>1, <2>2 DEF OpenStates
<1>5. /\ task[k].pc \in {"close", "cancel"} /\ task'[k].queue = task[k].queue
      /\ task'[k].pc = IF k = Nudger THEN "nudge" ELSE "tickets"
  BY <1>1, GotoFields DEF CloseHolds, CancelHolds
<1>6. ASSUME faults' = 0, NEW t \in Tickets
      PROVE  Unforgotten(k, t)' /\ Unstranded(k, t)' /\ Watched(k, t)' /\ Earned(t)'
             /\ Unmissed(k, t)'
  <2>1. Unforgotten(k, t) /\ Unstranded(k, t) /\ Watched(k, t) /\ Earned(t) /\ Unmissed(k, t)
    BY <1>2, <1>6 DEF InCharge, Books
  <2>2. CASE t = task[k].ticket
    <3>1. status[t] # "resolved" \/ told[t] > 0
      BY <1>2, <1>5, <1>6, <2>2 DEF InCharge, Books, KnowsTicket
    <3>2. \A p \in PRs : ~Open(t, p)' /\ hold'[<<t, p>>] # "waiting"
      BY <1>4, <2>2 DEF Open
    <3>3. ~(status'[t] = "resolved" /\ told'[t] = 0)
      BY <1>1, <1>2, <3>1
    <3>4. Unforgotten(k, t)' /\ Watched(k, t)'
      BY <3>3 DEF Unforgotten, Watched
    <3>5. Unstranded(k, t)' /\ Unmissed(k, t)'
      BY <3>2 DEF Unstranded, Unmissed
    <3>6. Earned(t)'
      BY <1>2, <2>1 DEF Earned
    <3>q. QED
      BY <3>4, <3>5, <3>6
  <2>3. CASE t # task[k].ticket
    <3>1. \A p \in PRs : Open(t, p)' <=> Open(t, p)
      BY <1>4, <2>3 DEF Open
    <3>2. \A p \in PRs : hold'[<<t, p>>] = hold[<<t, p>>]
      BY <1>4, <2>3
    <3>3. Freeing(k, t) => Freeing(k, t)'
      BY <1>5, <2>3 DEF Freeing
    <3>4. Unforgotten(k, t)' /\ Unstranded(k, t)' /\ Earned(t)'
      BY <1>2, <1>5, <2>1, <3>1, <3>2, <3>3 DEF Unforgotten, Unstranded, Earned, Answering
    <3>5. Watched(k, t)' /\ Unmissed(k, t)'
      BY <1>1, <1>2, <1>5, <2>1, <3>2 DEF Watched, Unmissed, Adding, Shipping
    <3>q. QED
      BY <3>4, <3>5
  <2>q. QED
    BY <2>2, <2>3
<1>q. QED
  BY <1>5, <1>6, NothingKnown DEF InCharge, Books

-----------------------------------------------------------------------------
(* Starts: with one handler at a time they find everything settled.        *)

\* A ticket for which nobody has anything left to do.
Quiet(t) ==
  /\ status[t] = "resolved" /\ told[t] = 0 =>
       /\ \E p \in PRs : Open(t, p)
       /\ \A p \in fix[t] : p \in DeployedPRs \/ hold[<<t, p>>] = "waiting"
  /\ (\E p \in PRs : Open(t, p)) => \E p \in PRs : hold[<<t, p>>] = "waiting"
  /\ Earned(t)
  /\ \A p \in PRs : hold[<<t, p>>] = "waiting" => p \notin DeployedPRs

LEMMA QuietWhenIdle ==
  ASSUME SerialInv, AllIdle, faults = 0
  PROVE  \A t \in Tickets : Quiet(t)
<1>1. PICK k \in Slots : InCharge(k)
  BY DEF SerialInv
<1>2. Books(k) /\ task[k].pc = "idle"
  BY <1>1 DEF InCharge, AllIdle
<1>q. QED
  BY <1>2 DEF Books, Unforgotten, Unstranded, Watched, Unmissed, Answering, Adding, Freeing, Shipping,
     Quiet

LEMMA BooksWhenQuiet ==
  ASSUME NEW k, \A t \in Tickets : Quiet(t), task[k].pc \notin {"query", "reply", "close"}
  PROVE  Books(k)
BY DEF Books, Unforgotten, Unstranded, Watched, Unmissed, Quiet

LEMMA QuietKept ==
  ASSUME UNCHANGED <<hold, told, fix, manual>>, UNCHANGED DeployedPRs,
         \A t \in Tickets : status'[t] = "resolved" => status[t] = "resolved",
         \A t \in Tickets : Quiet(t)
  PROVE  \A t \in Tickets : Quiet(t)'
BY DEF Quiet, Earned, Open

\* One handler is busy afterwards, and it was idle: so all of them were.
LEMMA AllWereIdle ==
  ASSUME NEW k \in Slots, NoOverlap, task[k].pc = "idle", task'[k].pc # "idle",
         \A j \in Slots \ {k} : task'[j] = task[j]
  PROVE  AllIdle /\ Others(k)'
BY DEF NoOverlap, AllIdle, Others

\* What a handler has read when it starts.
LEMMA StartKnows ==
  ASSUME TypeOK, NEW k \in Tasks, Start(k)
  PROVE  KnowsTicket(k)' /\ KnowsRelease(k)'
<1>1. task \in [Slots -> TaskRecord] /\ k \in Slots
  BY DEF TypeOK, TaskTypeOK, Slots
<1>2. CASE \E t \in Tickets, prs \in SUBSET PRs : ResolveStart(k, t, prs)
  <2>1. PICK t \in Tickets, prs \in SUBSET PRs : ResolveStart(k, t, prs)
    BY <1>2
  <2>2. /\ task'[k].pc = "resolve" /\ task'[k].ticket = t
        /\ status[t] # "resolved" /\ UNCHANGED status
    BY <1>1, <2>1 DEF ResolveStart, Begin, Handler
  <2>q. QED
    BY <2>2 DEF KnowsTicket, KnowsRelease
<1>3. CASE \E r \in Releases, prs \in SUBSET PRs : AnnounceStart(k, r, prs)
  <2>1. PICK r \in Releases, prs \in SUBSET PRs : AnnounceStart(k, r, prs)
    BY <1>3
  <2>2. task'[k].pc = "upsert" /\ task'[k].release = r /\ r \notin known /\ UNCHANGED known
    BY <1>1, <2>1 DEF AnnounceStart, Begin, Handler, releaseVars
  <2>q. QED
    BY <2>2 DEF KnowsTicket, KnowsRelease
<1>4. CASE \E r \in Releases, prs \in SUBSET PRs, run \in BOOLEAN : EngineeringReply(k, r, prs, run)
  <2>1. PICK r \in Releases, prs \in SUBSET PRs, run \in BOOLEAN : EngineeringReply(k, r, prs, run)
    BY <1>4
  <2>2. /\ task'[k].pc = "queue" /\ task'[k].release = r /\ r \in known
        /\ task'[k].seen = "deployed" <=> r \in deployed
        /\ UNCHANGED <<known, deployed>>
    BY <1>1, <2>1 DEF EngineeringReply, Begin, Handler, releaseVars
  <2>q. QED
    BY <2>2 DEF KnowsTicket, KnowsRelease
<1>5. CASE \E t \in Tickets : PostNow(k, t)
  <2>1. task'[k].pc = "fetch" /\ task'[k].byHand
    BY <1>1, <1>5 DEF PostNow, Begin, Handler
  <2>q. QED
    BY <2>1 DEF KnowsTicket, KnowsRelease
<1>q. QED
  BY <1>2, <1>3, <1>4, <1>5 DEF Start

LEMMA SerialStart ==
  ASSUME SerialInv, NEW k \in Tasks, Start(k), NoOverlap, ShipInv'
  PROVE  SerialInv'
<1>1. /\ task[k].pc = "idle" /\ k \in Slots /\ k # Nudger /\ TypeOK
      /\ UNCHANGED <<status, hold, told, fix, manual, faults, known, deployed, prsOf, DeployedPRs>>
  <2>1. task[k].pc = "idle" /\ UNCHANGED <<status, releaseVars, holdVars, faults, history>>
    BY DEF Start, ResolveStart, AnnounceStart, EngineeringReply, PostNow, Begin
  <2>q. QED
    BY <2>1, ConstantsAssumption, DeployedSame DEF SerialInv, ShipInv, holdVars, history, Slots
<1>2. /\ \A j \in Slots \ {k} : task'[j] = task[j]
      /\ task'[k].pc \in {"resolve", "upsert", "queue", "fetch"}
  BY <1>1, StartTyped DEF TypeOK
<1>3. AllIdle /\ Others(k)'
  BY <1>1, <1>2, AllWereIdle
<1>4. ASSUME faults' = 0 PROVE Books(k)'
  <2>1. \A t \in Tickets : Quiet(t)'
    BY <1>1, <1>3, <1>4, QuietWhenIdle, QuietKept
  <2>q. QED
    BY <1>2, <2>1, BooksWhenQuiet DEF Books, Unforgotten, Unstranded, Watched, Unmissed, Quiet
<1>5. InCharge(k)'
  BY <1>1, <1>3, <1>4, StartKnows DEF InCharge
<1>q. QED
  BY <1>1, <1>2, <1>5 DEF SerialInv, Slots

LEMMA SerialTick ==
  ASSUME SerialInv, NudgeTick, NoOverlap, ShipInv'
  PROVE  SerialInv'
<1>1. /\ task[Nudger].pc = "idle" /\ Nudger \in Slots /\ TypeOK
      /\ UNCHANGED <<status, hold, told, fix, manual, faults, known, deployed, prsOf, DeployedPRs>>
  BY DEF SerialInv, ShipInv, NudgeTick, releaseVars, holdVars, history, Slots, DeployedPRs
<1>2. /\ \A j \in Slots \ {Nudger} : task'[j] = task[j]
      /\ task'[Nudger].pc = "nudge"
  BY <1>1, TickTyped DEF TypeOK
<1>3. AllIdle /\ Others(Nudger)'
  BY <1>1, <1>2, AllWereIdle
<1>4. ASSUME faults' = 0 PROVE Books(Nudger)'
  <2>1. \A t \in Tickets : Quiet(t)'
    BY <1>1, <1>3, <1>4, QuietWhenIdle, QuietKept
  <2>q. QED
    BY <1>2, <2>1 DEF Books, Unforgotten, Unstranded, Watched, Unmissed, Quiet
<1>5. InCharge(Nudger)'
  BY <1>2, <1>3, <1>4, NothingKnown DEF InCharge
<1>q. QED
  BY <1>1, <1>2, <1>5 DEF SerialInv

-----------------------------------------------------------------------------
(* The invariant.                                                          *)

LEMMA FailStep ==
  ASSUME SerialInv, NEW k \in Slots, TypeOK', Others(k)', Fail(k)
  PROVE  InCharge(k)'
<1>1. task'[k].pc = "idle" /\ faults' # 0
  BY ReturnIdle DEF Fail, SerialInv, ShipInv, TypeOK, TaskTypeOK, HistoryTypeOK
<1>q. QED
  BY <1>1, NothingKnown DEF InCharge

LEMMA MoverBusy ==
  ASSUME NEW k \in Slots, Step(k) \/ Fail(k)
  PROVE  task[k].pc # "idle"
BY DEF Step, Fail, ResolveWrite, QueryDeployed, ReplyNow, AddHold, UpsertRelease, AnnouncePRs,
   QueueCommits, DeployRelease, ListShipped, SelectHeld, MarkShipped, NextTicket, FetchTicket,
   PostHeld, CloseHolds, CancelHolds, NudgeNext, NudgeDM, NudgeMark

\* The nudge loop only nudges and cancels.
LEMMA NudgerStep ==
  ASSUME TypeOK, task[Nudger].pc \in {"idle", "nudge", "nudge_dm", "nudge_mark", "cancel"},
         NEW k \in Slots, Step(k) \/ Fail(k)
  PROVE  task'[Nudger].pc \in {"idle", "nudge", "nudge_dm", "nudge_mark", "cancel"}
<1>1. /\ task \in [Slots -> TaskRecord] /\ Nudger \in Slots
      /\ task[Nudger].pc \in {"idle", "nudge", "nudge_dm", "nudge_mark", "cancel"}
      /\ \A j \in Slots \ {k} : task'[j] = task[j]
  BY StepTyped DEF TypeOK, TaskTypeOK, Slots
<1>2. CASE k # Nudger
  BY <1>1, <1>2
<1>3. CASE k = Nudger
  <2>1. NudgeNext(k) \/ NudgeDM(k) \/ NudgeMark(k) \/ CancelHolds(k) \/ Fail(k)
    BY <1>1, <1>3 DEF Step, ResolveWrite, QueryDeployed, ReplyNow, AddHold, UpsertRelease, AnnouncePRs,
       QueueCommits, DeployRelease, ListShipped, SelectHeld, MarkShipped, NextTicket, FetchTicket,
       PostHeld, CloseHolds
  <2>2. CASE Return(k)
    BY <1>1, <1>3, <2>2, ReturnIdle
  <2>3. CASE Goto(k, "nudge") \/ Goto(k, "nudge_mark")
    BY <1>1, <1>3, <2>3, GotoFields
  <2>4. CASE \E t \in task[k].queue :
               task' = [task EXCEPT ![k].queue = @ \ {t}, ![k].ticket = t,
                                    ![k].pc = IF status[t] = "resolved" THEN "nudge_dm"
                                                                        ELSE "cancel"]
    <3>1. PICK t \in task[k].queue :
            task' = [task EXCEPT ![k].queue = @ \ {t}, ![k].ticket = t,
                                 ![k].pc = IF status[t] = "resolved" THEN "nudge_dm"
                                                                     ELSE "cancel"]
      BY <2>4
    <3>2. task'[k].pc = IF status[t] = "resolved" THEN "nudge_dm" ELSE "cancel"
      BY <1>1, <3>1 DEF TaskRecord
    <3>q. QED
      BY <1>3, <3>2
  <2>q. QED
    BY <1>3, <2>1, <2>2, <2>3, <2>4 DEF NudgeNext, NudgeDM, NudgeMark, CancelHolds, Fail
<1>q. QED
  BY <1>2, <1>3

LEMMA KnownStep ==
  ASSUME deployed \subseteq known, NEW k \in Slots, InCharge(k), Step(k) \/ Fail(k)
  PROVE  deployed' \subseteq known'
<1>1. task[k].pc = "deploy" => task[k].release \in known
  BY DEF InCharge, KnowsRelease
<1>2. CASE UpsertRelease(k) \/ DeployRelease(k)
  BY <1>1, <1>2 DEF UpsertRelease, DeployRelease
<1>3. UNCHANGED <<known, deployed>> \/ UpsertRelease(k) \/ DeployRelease(k)
  BY DEF Step, Fail, ResolveWrite, QueryDeployed, ReplyNow, AddHold, AnnouncePRs, QueueCommits,
     ListShipped, SelectHeld, MarkShipped, NextTicket, FetchTicket, PostHeld, CloseHolds, CancelHolds,
     NudgeNext, NudgeDM, NudgeMark, releaseVars
<1>q. QED
  BY <1>2, <1>3

LEMMA SerialMove ==
  ASSUME SerialInv, NEW k \in Slots, Step(k) \/ Fail(k), ShipInv'
  PROVE  SerialInv'
<1>1. PICK j \in Slots : InCharge(j)
  BY DEF SerialInv
<1>2. j = k
  BY <1>1, MoverBusy DEF InCharge, Others
<1>3. Others(k)' /\ TypeOK'
  <2>1. \A i \in Slots \ {k} : task'[i] = task[i]
    BY StepTyped DEF SerialInv, ShipInv, TypeOK
  <2>q. QED
    BY <1>1, <1>2, <2>1 DEF InCharge, Others, ShipInv
<1>4. InCharge(k)'
  BY <1>1, <1>2, <1>3, ResolveSteps, ThreadSteps, MarkStep, LoopSteps, PostStep, CloseSteps, FailStep
     DEF Step
<1>5. deployed' \subseteq known'
  BY <1>1, <1>2, KnownStep DEF SerialInv
<1>q. QED
  BY <1>4, <1>5, NudgerStep DEF SerialInv, ShipInv

LEMMA SerialStep == SerialInv /\ [Next /\ NoOverlap]_vars => SerialInv'
<1> SUFFICES ASSUME SerialInv, [Next /\ NoOverlap]_vars PROVE SerialInv'
  OBVIOUS
<1>1. ShipInv'
  BY ShipStep DEF SerialInv
<1>2. ASSUME NEW k \in Tasks, Start(k), NoOverlap PROVE SerialInv'
  BY <1>1, <1>2, SerialStart
<1>3. ASSUME NEW k \in Slots, Step(k) \/ Fail(k) PROVE SerialInv'
  BY <1>1, <1>3, SerialMove
<1>4. CASE NudgeTick /\ NoOverlap
  BY <1>1, <1>4, SerialTick
<1>5. ASSUME NEW t \in Tickets, Leave(t), NoOverlap PROVE SerialInv'
  <2>1. /\ UNCHANGED <<hold, told, fix, manual, faults, task, known, deployed, prsOf, DeployedPRs>>
        /\ \A u \in Tickets : status'[u] = "resolved" => status[u] = "resolved"
        /\ status[t] = "resolved" /\ status'[t] = "open"
    BY <1>5 DEF Leave, releaseVars, holdVars, history, SerialInv, ShipInv, TypeOK, TablesTypeOK,
       DeployedPRs
  <2>2. AllIdle
    BY <1>5, <2>1 DEF NoOverlap
  <2>3. PICK k \in Slots : InCharge(k)
    BY DEF SerialInv
  <2>4. task'[k].pc = "idle" /\ Others(k)'
    BY <2>1, <2>2, <2>3 DEF AllIdle, Others
  <2>5. ASSUME faults' = 0 PROVE Books(k)'
    <3>1. \A u \in Tickets : Quiet(u)'
      BY <2>1, <2>2, <2>5, QuietWhenIdle, QuietKept
    <3>q. QED
      BY <2>4, <3>1 DEF Books, Unforgotten, Unstranded, Watched, Unmissed, Quiet
  <2>6. InCharge(k)'
    BY <2>4, <2>5, NothingKnown DEF InCharge
  <2>q. QED
    BY <1>1, <2>1, <2>6 DEF SerialInv
<1>6. CASE (\E h \in Holds : Age(h)) \/ UNCHANGED vars
  <2>1. UNCHANGED <<status, hold, told, fix, manual, faults, task, known, deployed, prsOf, DeployedPRs>>
    BY <1>6 DEF Age, vars, releaseVars, history, DeployedPRs
  <2>2. PICK k \in Slots : InCharge(k)
    BY DEF SerialInv
  <2>3. Others(k)' /\ KnowsTicket(k)' /\ KnowsRelease(k)'
    BY <2>1, <2>2 DEF InCharge, Others, KnowsTicket, KnowsRelease, Open
  <2>4. Books(k) => Books(k)'
    BY <2>1 DEF Books, Unforgotten, Unstranded, Watched, Earned, Unmissed, Answering, Adding, Freeing,
       Shipping, Open
  <2>5. InCharge(k)'
    BY <2>1, <2>2, <2>3, <2>4 DEF InCharge
  <2>q. QED
    BY <1>1, <2>1, <2>5 DEF SerialInv
<1>q. QED
  BY <1>2, <1>3, <1>4, <1>5, <1>6 DEF Next

LEMMA SerialInit == Init => SerialInv
<1> SUFFICES ASSUME Init PROVE SerialInv
  OBVIOUS
<1>1. TypeOK /\ \A k \in Slots : task[k].pc = "idle"
  BY TypeInit DEF Init, NoTask, Handler
<1>2. ShipInv
  BY <1>1 DEF ShipInv, ShippedOnlyIfDeployed, ShipsDeployed, Init
<1>3. Nudger \in Slots
  BY DEF Slots
<1>4. Others(Nudger) /\ KnowsTicket(Nudger) /\ KnowsRelease(Nudger)
  BY <1>1, <1>3 DEF Others, KnowsTicket, KnowsRelease
<1>5. \A t \in Tickets : Quiet(t)
  BY DEF Init, Quiet, Earned, Open, OpenStates, Holds
<1>6. Books(Nudger)
  BY <1>1, <1>3, <1>5, BooksWhenQuiet
<1>q. QED
  BY <1>1, <1>2, <1>3, <1>4, <1>6 DEF InCharge, SerialInv, Init

LEMMA SerialAlways == SerialSpec => []SerialInv
BY SerialInit, SerialStep, PTL DEF SerialSpec

-----------------------------------------------------------------------------
(* What it gives.                                                          *)

\* Once its handler is done, a resolved ticket has been answered or waits for
\* a PR: no order of resolves, reopens, releases and nudges forgets a customer.
THEOREM NobodyForgotten == SerialSpec => []ToldOrWaiting
<1>1. ASSUME SerialInv PROVE ToldOrWaiting
  <2> SUFFICES ASSUME AllIdle, faults = 0, NEW t \in Tickets, status[t] = "resolved"
               PROVE  told[t] > 0 \/ Waiting(t) # {}
    BY DEF ToldOrWaiting
  <2>1. Quiet(t) /\ told[t] \in Nat
    BY <1>1, QuietWhenIdle DEF SerialInv, ShipInv, TypeOK, HistoryTypeOK
  <2>2. told[t] = 0 => \E p \in PRs : hold[<<t, p>>] = "waiting"
    BY <2>1 DEF Quiet
  <2>q. QED
    BY <2>1, <2>2, HoldsOf
<1>q. QED
  BY <1>1, SerialAlways, PTL

\* A hold that has shipped is never left open on its own.
THEOREM NothingStranded == SerialSpec => []NoStrandedHold
<1>1. ASSUME SerialInv PROVE NoStrandedHold
  <2> SUFFICES ASSUME AllIdle, faults = 0, NEW t \in Tickets, OpenHolds(t) # {}
               PROVE  Waiting(t) # {}
    BY DEF NoStrandedHold
  <2>1. Quiet(t)
    BY <1>1, QuietWhenIdle
  <2>q. QED
    BY <2>1, HoldsOf DEF Quiet
<1>q. QED
  BY <1>1, SerialAlways, PTL

\* A customer whom no button told early is told when every PR of the latest
\* resolve has shipped.
THEOREM ToldAfterShipping == SerialSpec => []ReplyAfterAllShipped
<1>1. ASSUME SerialInv PROVE ReplyAfterAllShipped
  <2>1. PICK k \in Slots : InCharge(k)
    BY <1>1 DEF SerialInv
  <2>q. QED
    BY <2>1 DEF InCharge, Books, Earned, ReplyAfterAllShipped
<1>q. QED
  BY <1>1, SerialAlways, PTL

\* Once every handler is done, no hold waits for a PR whose release thread
\* has its run link.
THEOREM NoDeployMissed == SerialSpec => []NoMissedDeploy
<1>1. ASSUME SerialInv PROVE NoMissedDeploy
  <2> SUFFICES ASSUME AllIdle, faults = 0, NEW t \in Tickets, NEW p \in PRs,
                      hold[<<t, p>>] = "waiting"
               PROVE  p \notin DeployedPRs
    BY DEF NoMissedDeploy, Holds
  <2>1. Quiet(t)
    BY <1>1, QuietWhenIdle
  <2>q. QED
    BY <2>1 DEF Quiet
<1>q. QED
  BY <1>1, SerialAlways, PTL

\* No handler posts a customer reply to a ticket that is not resolved.
THEOREM RepliesFindItResolved == SerialSpec => ReplyOnlyWhenResolved
<1>1. ASSUME SerialInv, [Next /\ NoOverlap]_vars, NEW t \in Tickets, told'[t] > told[t]
      PROVE  status[t] = "resolved"
  <2>1. told \in [Tickets -> Nat]
    BY <1>1 DEF SerialInv, ShipInv, TypeOK, HistoryTypeOK
  <2>2. told' # told
    BY <1>1, <2>1
  <2>3. PICK k \in Slots : ReplyNow(k) \/ PostHeld(k) \/ ResolveWrite(k)
    BY <1>1, <2>2 DEF Next, vars, history, Start, ResolveStart, AnnounceStart, EngineeringReply, PostNow,
       Begin, Step, Fail, NudgeTick, Leave, Age, QueryDeployed, AddHold, UpsertRelease, AnnouncePRs,
       QueueCommits, DeployRelease, ListShipped, SelectHeld, MarkShipped, NextTicket, FetchTicket,
       CloseHolds, CancelHolds, NudgeNext, NudgeDM, NudgeMark
  <2>4. KnowsTicket(k)
    <3>1. PICK j \in Slots : InCharge(j)
      BY <1>1 DEF SerialInv
    <3>2. j = k
      BY <2>3, <3>1, MoverBusy DEF InCharge, Others, Step
    <3>q. QED
      BY <3>1, <3>2 DEF InCharge
  <2>5. CASE ResolveWrite(k)
    BY <1>1, <2>1, <2>5 DEF ResolveWrite
  <2>6. CASE ReplyNow(k) \/ PostHeld(k)
    <3>1. task[k].ticket = t
      BY <1>1, <2>1, <2>2, <2>6 DEF ReplyNow, PostHeld, Tell
    <3>q. QED
      BY <2>4, <2>6, <3>1 DEF KnowsTicket, ReplyNow, PostHeld
  <2>q. QED
    BY <2>3, <2>5, <2>6
<1>2. SerialInv /\ [Next /\ NoOverlap]_vars =>
        [\A t \in Tickets : told'[t] > told[t] => status[t] = "resolved"]_vars
  BY <1>1
<1>q. QED
  BY <1>2, SerialAlways, PTL DEF SerialSpec, ReplyOnlyWhenResolved

-----------------------------------------------------------------------------
(* A pass of the nudge job, whatever handlers overlap with it.  What the   *)
(* pass owes to a hold is done, or its ticket is still to come, or the     *)
(* pass is at that ticket.                                                 *)

Named(h) == hold[h] # "waiting" \/ raised[h] # "never"

PassInv ==
  LET r == task[Nudger] IN
  /\ TypeOK
  /\ r.pc \in {"idle", "nudge", "nudge_dm", "nudge_mark", "cancel"}
  /\ owed \subseteq Holds /\ owed \subseteq due
  /\ r.pc # "idle" => owed \subseteq r.listed
  /\ \A h \in owed :
       \/ ~Unserved(h)
       \/ h[1] \in r.queue
       \/ r.pc \in {"nudge_dm", "cancel"} /\ h[1] = r.ticket
       \/ r.pc = "nudge_mark" /\ h[1] = r.ticket /\ Named(h)

\* Only a new resolve makes a hold wait again, unmarks it or forgets its DM, and that hold
\* is not due.
LEMMA ServedStays ==
  ASSUME TypeOK, [Next]_vars, NEW h \in Holds, h \in due'
  PROVE  (Named(h) => Named(h)') /\ (~Unserved(h) => ~Unserved(h)')
<1>1. hold \in [Holds -> HoldStates] /\ raised \in [Holds -> Raised]
  BY DEF TypeOK, TablesTypeOK, HistoryTypeOK
<1> DEFINE Kept == /\ hold'[h] = "waiting" => hold[h] = "waiting"
                   /\ raised'[h] = "never" => raised[h] = "never"
                   /\ h \in nudged => h \in nudged'
<1>2. ASSUME NEW k \in Slots, AddHold(k) PROVE Kept
  <2>1. PICK p \in task[k].prs :
          /\ hold' = [hold EXCEPT ![<<task[k].ticket, p>>] = "waiting"]
          /\ due' = due \ {<<task[k].ticket, p>>}
          /\ nudged' = nudged \ {<<task[k].ticket, p>>}
          /\ raised' = [raised EXCEPT ![<<task[k].ticket, p>>] = "never"]
    BY <1>2 DEF AddHold
  <2>q. QED
    BY <1>1, <2>1
<1>3. ASSUME NEW k \in Slots, MarkShipped(k) PROVE Kept
  BY <1>1, <1>3 DEF MarkShipped, history
<1>4. ASSUME NEW k \in Slots, CloseHolds(k) \/ CancelHolds(k) PROVE Kept
  BY <1>1, <1>4 DEF CloseHolds, CancelHolds, CloseFor, history
<1>5. ASSUME NEW k \in Slots, NudgeDM(k) \/ NudgeMark(k) PROVE Kept
  BY <1>1, <1>5 DEF NudgeDM, NudgeMark, holdVars, history
<1>6. \/ UNCHANGED <<hold, nudged, raised>>
      \/ \E k \in Slots : \/ AddHold(k) \/ MarkShipped(k) \/ CloseHolds(k) \/ CancelHolds(k)
                          \/ NudgeDM(k) \/ NudgeMark(k)
  BY DEF Next, vars, holdVars, history, Start, ResolveStart, AnnounceStart, EngineeringReply, PostNow,
     Begin, Step, Fail, NudgeTick, Leave, Age, ResolveWrite, QueryDeployed, ReplyNow, UpsertRelease,
     AnnouncePRs, QueueCommits, DeployRelease, ListShipped, SelectHeld, NextTicket, FetchTicket,
     PostHeld, NudgeNext
<1>7. Kept
  BY <1>2, <1>3, <1>4, <1>5, <1>6
<1>q. QED
  BY <1>7 DEF Named, Unserved

\* The loop moves by its own steps only.
LEMMA NudgerMoves ==
  ASSUME TypeOK, [Next]_vars, task'[Nudger] # task[Nudger],
         task[Nudger].pc \in {"idle", "nudge", "nudge_dm", "nudge_mark", "cancel"}
  PROVE  \/ NudgeTick \/ NudgeNext(Nudger) \/ NudgeDM(Nudger) \/ NudgeMark(Nudger)
         \/ CancelHolds(Nudger) \/ Fail(Nudger)
<1>1. TaskTypeOK /\ TablesTypeOK /\ Nudger \notin Tasks
  BY ConstantsAssumption DEF TypeOK
<1>2. ASSUME NEW k \in Tasks, Start(k) PROVE FALSE
  BY <1>1, <1>2, StartTyped DEF Slots
<1>3. ASSUME NEW k \in Slots, k # Nudger, Step(k) \/ Fail(k) PROVE FALSE
  BY <1>1, <1>3, StepTyped DEF Slots
<1>4. ~UNCHANGED vars /\ (\A t \in Tickets : ~Leave(t)) /\ (\A h \in Holds : ~Age(h))
  BY DEF vars, Leave, Age
<1>5. CASE Step(Nudger)
  BY <1>5 DEF Step, ResolveWrite, QueryDeployed, ReplyNow, AddHold, UpsertRelease, AnnouncePRs,
     QueueCommits, DeployRelease, ListShipped, SelectHeld, MarkShipped, NextTicket, FetchTicket,
     PostHeld, CloseHolds
<1>q. QED
  BY <1>2, <1>3, <1>4, <1>5 DEF Next, Slots

\* The pass goes on to a ticket, or ends.
LEMMA NudgeNextFields ==
  ASSUME TypeOK, NudgeNext(Nudger)
  PROVE  \/ task[Nudger].queue = {} /\ task'[Nudger].pc = "idle"
         \/ \E t \in task[Nudger].queue :
              /\ task'[Nudger].queue = task[Nudger].queue \ {t}
              /\ task'[Nudger].ticket = t
              /\ task'[Nudger].pc \in {"nudge_dm", "cancel"}
              /\ task'[Nudger].listed = task[Nudger].listed
<1>1. task \in [Slots -> TaskRecord] /\ Nudger \in Slots
  BY DEF TypeOK, TaskTypeOK, Slots
<1>2. CASE task[Nudger].queue = {} /\ Return(Nudger)
  BY <1>1, <1>2, ReturnIdle
<1>3. CASE ~(task[Nudger].queue = {} /\ Return(Nudger))
  <2>1. PICK t \in task[Nudger].queue :
          task' = [task EXCEPT ![Nudger].queue = @ \ {t}, ![Nudger].ticket = t,
                               ![Nudger].pc = IF status[t] = "resolved" THEN "nudge_dm"
                                                                        ELSE "cancel"]
    BY <1>3 DEF NudgeNext
  <2>2. PICK pc \in {"nudge_dm", "cancel"} :
          pc = IF status[t] = "resolved" THEN "nudge_dm" ELSE "cancel"
    OBVIOUS
  <2>3. PICK r : r = [task[Nudger] EXCEPT !.queue = @ \ {t}, !.ticket = t, !.pc = pc]
    OBVIOUS
  <2>4. task'[Nudger] = r
    BY <1>1, <2>1, <2>2, <2>3
  <2>5. /\ r.queue = task[Nudger].queue \ {t} /\ r.ticket = t /\ r.pc = pc
        /\ r.listed = task[Nudger].listed
    BY <1>1, <2>3 DEF TaskRecord
  <2>q. QED
    BY <2>4, <2>5
<1>q. QED
  BY <1>2, <1>3

\* Every step keeps what the pass owes.
LEMMA PassStep == PassInv /\ [Next /\ Remember]_passVars => PassInv'
<1> SUFFICES ASSUME PassInv, [Next /\ Remember]_passVars PROVE PassInv'
  OBVIOUS
<1> DEFINE r == task[Nudger]
           Owing(h) == \/ ~Unserved(h)
                       \/ h[1] \in r.queue
                       \/ r.pc \in {"nudge_dm", "cancel"} /\ h[1] = r.ticket
                       \/ r.pc = "nudge_mark" /\ h[1] = r.ticket /\ Named(h)
<1>1. /\ TypeOK /\ [Next]_vars /\ task \in [Slots -> TaskRecord] /\ Nudger \in Slots
      /\ r.pc \in {"idle", "nudge", "nudge_dm", "nudge_mark", "cancel"}
      /\ owed \subseteq Holds /\ owed \subseteq due
      /\ r.pc # "idle" => owed \subseteq r.listed
      /\ \A h \in owed : Owing(h)
  BY DEF PassInv, TypeOK, TaskTypeOK, Slots, passVars, vars
<1>2. TypeOK'
  BY <1>1, TypeStep
<1>3. r'.pc \in {"idle", "nudge", "nudge_dm", "nudge_mark", "cancel"}
  <2>1. CASE r' = r
    BY <1>1, <2>1
  <2>2. CASE NudgeTick
    BY <1>1, <2>2, TickTyped DEF TypeOK
  <2>3. CASE Step(Nudger) \/ Fail(Nudger)
    BY <1>1, <2>3, NudgerStep
  <2>q. QED
    BY <1>1, <2>1, <2>2, <2>3, NudgerMoves DEF Step
<1>4. CASE UNCHANGED passVars
  BY <1>1, <1>2, <1>3, <1>4 DEF PassInv, Unserved, Named, passVars, vars, holdVars
<1>5. CASE Remember /\ r'.pc = "idle"
  BY <1>2, <1>5 DEF PassInv, Remember
<1>6. CASE Remember /\ r'.pc # "idle" /\ r.pc = "idle"
  <2>1. NudgeTick
    BY <1>1, <1>6, NudgerMoves, MoverBusy DEF Step
  <2>2. owed' = DueHolds /\ UNCHANGED <<hold, due, nudged>>
    BY <1>6, <2>1 DEF Remember, NudgeTick, holdVars
  <2>3. r'.listed = DueHolds /\ r'.queue = {t \in Tickets : \E h \in DueHolds : h[1] = t}
    BY <1>1, <2>1, TickTyped DEF TypeOK
  <2>4. \A h \in DueHolds : h \in Holds /\ h \in due /\ h[1] \in r'.queue
    BY <2>3 DEF DueHolds, Holds
  <2>q. QED
    BY <1>2, <1>3, <2>2, <2>3, <2>4 DEF PassInv
<1>7. CASE Remember /\ r'.pc # "idle" /\ r.pc # "idle"
  <2>1. owed' = owed \cap due'
    BY <1>7 DEF Remember
  <2>2. \A h \in owed' : /\ h \in Holds /\ h \in due' /\ h \in r.listed /\ Owing(h)
                         /\ Named(h) => Named(h)'
                         /\ ~Unserved(h) => ~Unserved(h)'
    BY <1>1, <1>7, <2>1, ServedStays
  <2>3. r'.listed = r.listed /\ \A h \in owed' : Owing(h)'
    <3>1. CASE r' = r
      BY <2>2, <3>1
    <3>2. CASE NudgeNext(Nudger)
      <4>1. PICK t \in r.queue :
              /\ r'.queue = r.queue \ {t} /\ r'.ticket = t /\ r'.listed = r.listed
              /\ r'.pc \in {"nudge_dm", "cancel"}
        BY <1>1, <1>7, <3>2, NudgeNextFields
      <4>2. r.pc = "nudge"
        BY <3>2 DEF NudgeNext
      <4>q. QED
        BY <2>2, <4>1, <4>2
    <3>3. CASE NudgeDM(Nudger)
      <4>1. /\ r.pc = "nudge_dm" /\ r'.pc = "nudge_mark" /\ r'.ticket = r.ticket
            /\ r'.queue = r.queue /\ r'.listed = r.listed
        BY <1>1, <3>3, GotoFields DEF NudgeDM
      <4>2. \A h \in owed' : h[1] = r.ticket => Named(h)'
        BY <2>2, <3>3 DEF NudgeDM, Named
      <4>q. QED
        BY <2>2, <4>1, <4>2
    <3>4. CASE NudgeMark(Nudger)
      <4>1. nudged' = nudged \cup OpenHolds(r.ticket) /\ UNCHANGED <<hold, raised>>
        BY <3>4 DEF NudgeMark, history
      <4>2. r.pc = "nudge_mark" /\ r'.queue = r.queue /\ r'.listed = r.listed
        BY <1>1, <3>4, GotoFields DEF NudgeMark
      <4>3. \A h \in owed' : h[1] = r.ticket /\ Named(h) => ~Unserved(h)'
        BY <2>2, <4>1 DEF Unserved, Named, OpenHolds, OpenStates
      <4>q. QED
        BY <2>2, <4>2, <4>3
    <3>5. CASE CancelHolds(Nudger)
      <4>1. hold' = [g \in Holds |-> IF g \in OpenHolds(r.ticket) THEN "cancelled" ELSE hold[g]]
        BY <3>5 DEF CancelHolds, CloseFor
      <4>2. r.pc = "cancel" /\ r'.queue = r.queue /\ r'.listed = r.listed
        BY <1>1, <3>5, GotoFields DEF CancelHolds
      <4>3. \A h \in owed' : h[1] = r.ticket => hold'[h] # "waiting"
        BY <2>2, <4>1 DEF OpenHolds, OpenStates
      <4>q. QED
        BY <2>2, <4>2, <4>3 DEF Unserved
    <3>6. ~NudgeTick
      BY <1>7 DEF NudgeTick
    <3>7. CASE Fail(Nudger)
      BY <1>1, <1>7, <3>7, ReturnIdle DEF Fail
    <3>q. QED
      BY <1>1, <3>1, <3>2, <3>3, <3>4, <3>5, <3>6, <3>7, NudgerMoves
  <2>4. owed' \subseteq Holds /\ owed' \subseteq due' /\ owed' \subseteq r'.listed
    BY <2>2, <2>3
  <2>q. QED
    BY <1>2, <1>3, <2>3, <2>4 DEF PassInv
<1>q. QED
  BY <1>4, <1>5, <1>6, <1>7

\* A pass that comes to its end has no ticket left to come to.
LEMMA PassEnds ==
  ASSUME PassInv, [Next]_vars, task[Nudger].pc # "idle", task'[Nudger].pc = "idle", UNCHANGED faults
  PROVE  \A h \in owed : ~Unserved(h)
<1>1. TypeOK /\ task \in [Slots -> TaskRecord] /\ Nudger \in Slots
  BY DEF PassInv, TypeOK, TaskTypeOK, Slots
<1>2. ~Fail(Nudger) /\ ~NudgeTick
  BY <1>1 DEF Fail, NudgeTick, TypeOK, HistoryTypeOK
<1>3. ~NudgeDM(Nudger) /\ ~NudgeMark(Nudger) /\ ~CancelHolds(Nudger)
  BY <1>1, GotoFields DEF NudgeDM, NudgeMark, CancelHolds
<1>4. NudgeNext(Nudger)
  BY <1>1, <1>2, <1>3, NudgerMoves DEF PassInv
<1>5. task[Nudger].queue = {} /\ task[Nudger].pc = "nudge"
  BY <1>1, <1>4, NudgeNextFields DEF NudgeNext
<1>q. QED
  BY <1>5 DEF PassInv

\* Whatever is resolved, shipped, reopened or released while DeployHoldNudgeJob.execute goes
\* through its list: at its end every hold it found due has been named in a DM that was sent
\* or that Slack refused, and is marked, or waits no more, or is a fresh one of a new resolve.
THEOREM PassAlwaysServesAll == PassSpec => PassServesAll
<1>1. PassInit => PassInv
  BY TypeInit DEF PassInit, PassInv, Init, NoTask, Handler, Slots
<1>2. PassInv /\ [Next /\ Remember]_passVars =>
        [task[Nudger].pc # "idle" /\ task'[Nudger].pc = "idle" /\ UNCHANGED faults =>
           \A h \in owed : ~Unserved(h)]_passVars
  BY PassEnds
<1>q. QED
  BY <1>1, <1>2, PassStep, PTL DEF PassSpec, PassServesAll
=============================================================================

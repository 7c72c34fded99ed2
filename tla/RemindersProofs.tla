--------------------------- MODULE RemindersProofs ---------------------------
(***************************************************************************)
(* Theorems about Reminders for any tickets, owners, hours, month, targets *)
(* and bounds.                                                             *)
(***************************************************************************)
EXTENDS Reminders, Integers, TLAPS

-----------------------------------------------------------------------------
(* What each loop's memory is good for, as long as it lost nothing.         *)

\* A ticket that was urgent, due or a candidate all hour still is.
StillSo ==
  /\ urgentSince \subseteq UrgentOnes
  /\ \A t \in dueSince : Due(t)
  /\ \A t \in spreadSince : Candidate(t)

\* Nothing is remembered of a time to come.
Past ==
  /\ fired # None => fired <= Now
  /\ digestAt # None => digestAt <= Now

\* Those who have been reminded in this hour, or whose message Slack refused.
Served(o) == nags[o] > 0 \/ o \in refused

\* The owners that are still to be reminded, and those that have been served.
NagKnows ==
  LET run == job["nag"] IN
  /\ fired = Now => run.pc = "idle"
  /\ \A o \in Owners : nags[o] <= 1 + restarts
  /\ run.pc = "idle" /\ fired # Now =>
       /\ \A o \in Owners : nags[o] <= restarts
       /\ "nag" \in ticked => urgentSince = {}
  /\ run.pc = "send" =>
       /\ \A o \in run.owners : nags[o] <= restarts
       /\ \A p \in urgentSince : p[2] \in run.owners \/ Served(p[2])
  /\ run.pc = "mark" \/ fired = Now => \A p \in urgentSince : Served(p[2])

\* The digest of this hour: not yet, about to be sent, or sent with all that is due.
DigestKnows ==
  LET run == job["digest"]  sent == run.pc = "mark" \/ digestAt = Now IN
  /\ run.pc # "idle" => digestAt # Now
  /\ digests = IF sent THEN 1 ELSE 0
  /\ sent => dueSince \subseteq listed
  /\ run.pc = "send" => dueSince \subseteq run.list
  /\ run.pc = "idle" /\ digestAt # Now /\ "digest" \in ticked => dueSince = {}

Answered == Now < snoozeUntil \/ (ackAt # None /\ Month(ackAt) = Month(Now))

\* The review of this month: one at most, from its hour on, and what silences it.
ReviewKnows ==
  LET run == job["review"] IN
  /\ reviews <= 1
  /\ Date = 1 /\ hour < ReviewHour => reviews = 0
  /\ run.pc # "idle" => ReviewTime
  /\ run.pc = "send" => reviews = 0
  /\ run.pc = "mark" => reviews = 1
  /\ run.pc = "idle" /\ ReviewTime /\ (reviews > 0 \/ "review" \in ticked) => Answered

P0Knows ==
  /\ flagged \subseteq candidates
  /\ "p0" \in ticked => spreadSince \subseteq candidates

\* A clock has run no further than its ticket has been waiting.
ClocksTrail ==
  \A t \in Tickets :
    /\ tickets[t].created <= Now
    /\ tickets[t].responded # None => tickets[t].responded <= Now
    /\ \A s \in Stages :
         clocks[t][s].state # 0 =>
           /\ tickets[t].status # "none"
           /\ s = "status_update" => tickets[t].responded # None
           /\ clocks[t][s].state <= State(Now - Reference(t, s), clocks[t][s].target)

Inv ==
  /\ TypeOK /\ StillSo /\ Past /\ ClocksTrail
  /\ NagKnows
  /\ "digest" \notin lost => DigestKnows
  /\ "review" \notin lost => ReviewKnows
  /\ "p0" \notin lost => P0Knows

-----------------------------------------------------------------------------
(* The clock.                                                              *)

Runs == {"nag", "digest", "review"}
RunRecord == [pc: {"idle", "send", "mark"}, owners: SUBSET Owners, list: SUBSET Tickets, snooze: Time]
Clock == [state: 0 .. 3, target: Nat]

\* A set of hours has a first one.
LEMMA FirstHour ==
  ASSUME NEW H, H \subseteq 0 .. 23, H # {}
  PROVE  (CHOOSE h \in H : \A g \in H : h <= g) \in H
<1>1. PICK n \in H : TRUE
  OBVIOUS
<1>2. PICK m \in Nat : m \in H /\ \A k \in 0 .. m - 1 : k \notin H
  <2>1. n \in 0 .. 23 /\ n \in H
    OBVIOUS
  <2>q. QED
    BY <2>1
<1>3. \A g \in H : m <= g
  <2>1. \A g \in H : g \in Nat /\ g \notin 0 .. m - 1
    BY <1>2
  <2>q. QED
    BY <2>1
<1>q. QED
  BY <1>2, <1>3

LEMMA TimeTyped ==
  ASSUME TypeOK
  PROVE  day \in Nat \ {0} /\ hour \in 0 .. 23 /\ Now \in Time
BY ConstantsAssumption DEF TypeOK, Now, Time

LEMMA InitTyped == Init => TypeOK
<1> SUFFICES ASSUME Init PROVE TypeOK
  OBVIOUS
<1>1. hour \in Hours /\ day \in 1 .. Horizon
  <2>1. Hours \subseteq 0 .. 23 /\ Hours # {} /\ Horizon \in Nat \ {0}
    BY ConstantsAssumption
  <2>2. (CHOOSE h \in Hours : \A g \in Hours : h <= g) \in Hours
    BY <2>1, FirstHour
  <2>3. hour \in Hours
    BY <2>2 DEF Init
  <2>q. QED
    BY <2>1, <2>3 DEF Init
<1>2. Unlogged \in Ticket /\ Unlogged.status = "none"
  <2>1. (CHOOSE p \in Priorities : TRUE) \in Priorities
    BY ConstantsAssumption DEF Priorities
  <2>q. QED
    BY <2>1 DEF Unlogged, Ticket, Statuses, Time
<1>3. NoRun \in RunRecord
  BY DEF NoRun, RunRecord, Time
<1>4. job \in [Runs -> RunRecord]
  BY <1>3 DEF Init, Runs
<1>5. tickets \in [Tickets -> Ticket] /\ \A t \in Tickets : tickets[t].status = "none"
  BY <1>2 DEF Init
<1>6. clocks \in [Tickets -> [Stages -> Clock]]
  BY DEF Init, Clock
<1>7. /\ fired \in Time \cup {None} /\ digestAt \in Time \cup {None} /\ ackAt \in Time \cup {None}
      /\ snoozeUntil \in Time /\ flagged \in SUBSET Tickets /\ nags \in [Owners -> Nat]
      /\ refused \in SUBSET Owners /\ urgentSince \in SUBSET (Tickets \X Owners)
  BY DEF Init, Time
<1>q. QED
  BY <1>1, <1>4, <1>5, <1>6, <1>7 DEF Init, TypeOK, Runs, RunRecord, Clock

-----------------------------------------------------------------------------
(* What the steps are, and that they keep the shape of the tables.         *)

\* Something happens to a ticket.
TicketStep ==
  \/ \E t \in Tickets, o \in Owners \cup {None}, urgent \in BOOLEAN, d \in {0, day},
        p \in Priorities : Log(t, o, urgent, d, p)
  \/ \E t \in Tickets, s \in Statuses \ {"none"} : SetStatus(t, s)
  \/ \E t \in Tickets, l \in {"SE", "Dev"} : SetLane(t, l)
  \/ \E t \in Tickets, o \in Owners \cup {None} : SetOwner(t, o)
  \/ \E t \in Tickets, d \in {day, day + 1} : SetDeadline(t, d)
  \/ \E t \in Tickets, p \in Priorities : SetPriority(t, p)
  \/ \E t \in Tickets : Spread(t)

\* A ticket is logged now, or keeps its times except for the first response.
LEMMA TicketChanged ==
  ASSUME TypeOK, TicketStep
  PROVE  \E t \in Tickets, r \in Ticket :
           /\ Change(t, r)
           /\ \/ /\ tickets[t].status = "none" /\ r.created = Now /\ r.responded = None
              \/ /\ r.status = "none" <=> tickets[t].status = "none"
                 /\ r.created = tickets[t].created
                 /\ \/ r.responded = tickets[t].responded
                    \/ tickets[t].responded = None /\ r.responded = Now
<1>1. /\ Now \in Time /\ day \in Time /\ day + 1 \in Time /\ 0 \in Time
      /\ \A t \in Tickets : tickets[t] \in Ticket
  BY TimeTyped DEF TypeOK, Time
<1>2. ASSUME NEW t \in Tickets, NEW o \in Owners \cup {None}, NEW urgent \in BOOLEAN, NEW d \in {0, day},
             NEW p \in Priorities, Log(t, o, urgent, d, p)
      PROVE  \E r \in Ticket : /\ Change(t, r) /\ tickets[t].status = "none"
                               /\ r.created = Now /\ r.responded = None
  <2>1. PICK r : r = [status |-> "new", urgent |-> urgent, lane |-> "SE", owner |-> o, deadline |-> d,
                      priority |-> p, created |-> Now, responded |-> None, spread |-> FALSE]
    OBVIOUS
  <2>2. r \in Ticket /\ r.created = Now /\ r.responded = None
    BY <1>1, <2>1 DEF Ticket, Statuses
  <2>q. QED
    BY <1>2, <2>1, <2>2 DEF Log
<1>3. ASSUME NEW t \in Tickets, NEW s \in Statuses \ {"none"}, SetStatus(t, s)
      PROVE  \E r \in Ticket : /\ Change(t, r) /\ tickets[t].status # "none" /\ r.status # "none"
                               /\ r.created = tickets[t].created
                               /\ \/ r.responded = tickets[t].responded
                                  \/ tickets[t].responded = None /\ r.responded = Now
  <2>1. PICK at : at = IF s = "in-progress" /\ tickets[t].responded = None THEN Now
                       ELSE tickets[t].responded
    OBVIOUS
  <2>2. PICK r : r = [tickets[t] EXCEPT !.status = s, !.responded = at]
    OBVIOUS
  <2>3. /\ r \in Ticket /\ r.status = s /\ r.responded = at
        /\ r.created = tickets[t].created
    BY <1>1, <2>1, <2>2 DEF Ticket
  <2>4. Change(t, r) /\ tickets[t].status # "none"
    BY <1>3, <2>1, <2>2 DEF SetStatus
  <2>q. QED
    BY <2>1, <2>3, <2>4
<1> DEFINE Kept(t) == \E r \in Ticket : /\ Change(t, r) /\ r.status = tickets[t].status
                                        /\ r.created = tickets[t].created
                                        /\ r.responded = tickets[t].responded
<1>4. ASSUME NEW t \in Tickets, NEW l \in {"SE", "Dev"}, SetLane(t, l)
      PROVE  Kept(t)
  <2>1. PICK r : r = [tickets[t] EXCEPT !.lane = l]
    OBVIOUS
  <2>2. /\ r \in Ticket /\ r.status = tickets[t].status
        /\ r.created = tickets[t].created /\ r.responded = tickets[t].responded
    BY <1>1, <2>1 DEF Ticket
  <2>3. Change(t, r)
    BY <1>4, <2>1 DEF SetLane
  <2>q. QED
    BY <2>2, <2>3
<1>8. ASSUME NEW t \in Tickets, NEW o \in Owners \cup {None}, SetOwner(t, o)
      PROVE  Kept(t)
  <2>1. PICK r : r = [tickets[t] EXCEPT !.owner = o]
    OBVIOUS
  <2>2. /\ r \in Ticket /\ r.status = tickets[t].status
        /\ r.created = tickets[t].created /\ r.responded = tickets[t].responded
    BY <1>1, <2>1 DEF Ticket
  <2>3. Change(t, r)
    BY <1>8, <2>1 DEF SetOwner
  <2>q. QED
    BY <2>2, <2>3
<1>5. ASSUME NEW t \in Tickets, NEW d \in {day, day + 1}, SetDeadline(t, d)
      PROVE  Kept(t)
  <2>1. PICK r : r = [tickets[t] EXCEPT !.deadline = d]
    OBVIOUS
  <2>2. /\ r \in Ticket /\ r.status = tickets[t].status
        /\ r.created = tickets[t].created /\ r.responded = tickets[t].responded
    BY <1>1, <2>1 DEF Ticket
  <2>3. Change(t, r)
    BY <1>5, <2>1 DEF SetDeadline
  <2>q. QED
    BY <2>2, <2>3
<1>6. ASSUME NEW t \in Tickets, NEW p \in Priorities, SetPriority(t, p)
      PROVE  Kept(t)
  <2>1. PICK r : r = [tickets[t] EXCEPT !.priority = p]
    OBVIOUS
  <2>2. /\ r \in Ticket /\ r.status = tickets[t].status
        /\ r.created = tickets[t].created /\ r.responded = tickets[t].responded
    BY <1>1, <2>1 DEF Ticket
  <2>3. Change(t, r)
    BY <1>6, <2>1 DEF SetPriority
  <2>q. QED
    BY <2>2, <2>3
<1>7. ASSUME NEW t \in Tickets, Spread(t)
      PROVE  Kept(t)
  <2>1. PICK r : r = [tickets[t] EXCEPT !.spread = TRUE]
    OBVIOUS
  <2>2. /\ r \in Ticket /\ r.status = tickets[t].status
        /\ r.created = tickets[t].created /\ r.responded = tickets[t].responded
    BY <1>1, <2>1 DEF Ticket
  <2>3. Change(t, r)
    BY <1>7, <2>1 DEF Spread
  <2>q. QED
    BY <2>2, <2>3
<1>q. QED
  BY <1>1, <1>2, <1>3, <1>4, <1>5, <1>6, <1>7, <1>8 DEF TicketStep

\* A ticket belongs to somebody.
LEMMA OwnerTyped ==
  ASSUME TypeOK, NEW t \in Tickets
  PROVE  Owner(t) \in Owners
<1>1. tickets[t].owner \in Owners \cup {None} /\ MainSE \in Owners
  BY ConstantsAssumption DEF TypeOK, Ticket
<1>q. QED
  BY <1>1 DEF Owner

ClockOK == day \in 1 .. Horizon /\ hour \in Hours /\ late \in BOOLEAN /\ ticked \in SUBSET Jobs
RunsOK == job \in [Runs -> RunRecord]
TicketsOK == tickets \in [Tickets -> Ticket]
MemoryOK ==
  /\ fired \in Time \cup {None} /\ flagged \in SUBSET Tickets /\ digestAt \in Time \cup {None}
  /\ ackAt \in Time \cup {None} /\ snoozeUntil \in Time
  /\ clocks \in [Tickets -> [Stages -> Clock]]
HistoryOK ==
  /\ nags \in [Owners -> Nat] /\ refused \in SUBSET Owners /\ restarts \in Nat
  /\ digests \in Nat /\ reviews \in Nat /\ asked \in BOOLEAN
  /\ listed \in SUBSET Tickets /\ candidates \in SUBSET Tickets
  /\ urgentSince \in SUBSET (Tickets \X Owners) /\ dueSince \in SUBSET Tickets
  /\ spreadSince \in SUBSET Tickets
BoundsOK == lost \in SUBSET Jobs /\ extra \in Nat /\ world \in Nat /\ faults \in Nat

LEMMA TypeParts == TypeOK <=> ClockOK /\ RunsOK /\ TicketsOK /\ MemoryOK /\ HistoryOK /\ BoundsOK
BY DEF TypeOK, ClockOK, RunsOK, TicketsOK, MemoryOK, HistoryOK, BoundsOK, Runs, RunRecord, Clock

LEMMA BoundsNext ==
  ASSUME TypeOK, [Next]_vars
  PROVE  BoundsOK' /\ lost \ {"digest"} \subseteq lost' /\ (NextHour \/ lost \subseteq lost')
<1>1. BoundsOK /\ Runs \subseteq Jobs
  BY TypeParts DEF Runs, Jobs
<1>2. CASE World
  <2>1. UNCHANGED <<lost, extra, faults>> /\ world' = world + 1
    BY <1>2 DEF World, Log, SetStatus, SetLane, SetOwner, SetDeadline, SetPriority, Spread, Change, Acknowledge,
       Snooze, Answer
  <2>q. QED
    BY <1>1, <2>1 DEF BoundsOK
<1>3. ASSUME NEW j \in Jobs, Refused(j) PROVE lost' \in SUBSET Jobs /\ faults' \in Nat /\ lost \subseteq lost'
  BY <1>1, <1>3 DEF Refused, BoundsOK
<1>8. ASSUME NEW o \in Owners, NagSend(o) PROVE lost' = lost /\ faults' \in Nat
  BY <1>1, <1>8 DEF NagSend, BoundsOK
<1>4. ASSUME NEW j \in Jobs, Tick(j) PROVE extra' \in Nat
  BY <1>1, <1>4 DEF Tick, BoundsOK
<1>5. CASE Run
  <2>1. /\ lost' \in SUBSET Jobs /\ faults' \in Nat /\ lost \subseteq lost'
    BY <1>1, <1>3, <1>5, <1>8 DEF Run, NagTick, NagMark, DigestTick, DigestSend, DigestMark, ReviewTick,
       ReviewSend, ReviewMark, SlaTick, P0Tick, bounds, BoundsOK, Jobs
  <2>2. extra' \in Nat
    BY <1>1, <1>4, <1>5 DEF Run, NagTick, NagSend, NagMark, DigestTick, DigestSend, DigestMark, ReviewTick,
       ReviewSend, ReviewMark, SlaTick, P0Tick, bounds, BoundsOK, Jobs
  <2>3. world' = world
    BY <1>5 DEF Run, NagTick, NagSend, NagMark, DigestTick, DigestSend, DigestMark, ReviewTick,
       ReviewSend, ReviewMark, SlaTick, P0Tick, bounds
  <2>q. QED
    BY <1>1, <2>1, <2>2, <2>3 DEF BoundsOK
<1>6. CASE Restart
  <2>1. DOMAIN job = Runs
    BY TypeParts DEF RunsOK
  <2>2. lost' \in SUBSET Jobs /\ lost \subseteq lost'
    BY <1>1, <1>6, <2>1 DEF Restart, BoundsOK, Jobs
  <2>q. QED
    BY <1>1, <1>6, <2>2 DEF Restart, BoundsOK
<1>7. CASE CloseWindow \/ NextHour \/ UNCHANGED vars
  BY <1>1, <1>7 DEF CloseWindow, NextHour, vars, bounds, BoundsOK
<1>q. QED
  BY <1>2, <1>5, <1>6, <1>7 DEF Next

LEMMA HourAfter ==
  \A d \in Nat \ {0} : \A h, g \in 0 .. 23 :
    /\ h < g => (d - 1) * 24 + h < (d - 1) * 24 + g
    /\ (d - 1) * 24 + h < ((d + 1) - 1) * 24 + g
OBVIOUS

LEMMA ClockNext ==
  ASSUME TypeOK, [Next]_vars
  PROVE  ClockOK' /\ (UNCHANGED <<day, hour>> \/ (NextHour /\ Now < Now'))
<1>1. ClockOK /\ hour \in 0 .. 23 /\ day \in Nat \ {0}
  BY TypeParts, TimeTyped
<1>2. CASE NextHour
  <2>1. Hours \subseteq 0 .. 23 /\ Hours # {}
    BY ConstantsAssumption
  <2>2. PICK later : later = {h \in Hours : h > hour}
    OBVIOUS
  <2>3. CASE later # {}
    <3>1. hour' = (CHOOSE h \in later : \A g \in later : h <= g) /\ day' = day
      BY <1>2, <2>2, <2>3 DEF NextHour
    <3>2. hour' \in later
      BY <2>1, <2>2, <2>3, <3>1, FirstHour
    <3>3. hour' \in Hours /\ hour' \in 0 .. 23 /\ hour < hour'
      BY <2>1, <2>2, <3>2
    <3>4. Now < Now'
      BY <1>1, <3>1, <3>3, HourAfter DEF Now
    <3>q. QED
      BY <1>1, <1>2, <3>1, <3>3, <3>4 DEF ClockOK, NextHour
  <2>4. CASE later = {}
    <3>1. /\ hour' = (CHOOSE h \in Hours : \A g \in Hours : h <= g)
          /\ day < Horizon /\ day' = day + 1
      BY <1>2, <2>2, <2>4 DEF NextHour
    <3>2. hour' \in Hours
      BY <2>1, <3>1, FirstHour
    <3>3. day' \in 1 .. Horizon
      BY <1>1, <3>1, ConstantsAssumption DEF ClockOK
    <3>4. Now < Now'
      <4>1. hour' \in 0 .. 23
        BY <2>1, <3>2
      <4>q. QED
        BY <1>1, <3>1, <4>1, HourAfter DEF Now
    <3>q. QED
      BY <1>2, <3>2, <3>3, <3>4 DEF ClockOK, NextHour
  <2>q. QED
    BY <2>3, <2>4
<1>3. CASE World \/ Restart \/ CloseWindow \/ UNCHANGED vars
  BY <1>1, <1>3 DEF ClockOK, World, Log, SetStatus, SetLane, SetOwner, SetDeadline, SetPriority, Spread, Change,
     Acknowledge, Snooze, Answer, Restart, CloseWindow, vars, clock
<1>4. CASE Run
  BY <1>1, <1>4 DEF ClockOK, Run, NagTick, NagSend, NagMark, DigestTick, DigestSend, DigestMark, ReviewTick,
     ReviewSend, ReviewMark, SlaTick, P0Tick, Tick, Jobs, clock
<1>q. QED
  BY <1>2, <1>3, <1>4 DEF Next

\* A run of one loop goes on, and the others stay as they are.
LEMMA RunsNext ==
  ASSUME TypeOK, [Next]_vars
  PROVE  RunsOK'
<1>1. RunsOK /\ NoRun \in RunRecord /\ NoRun.pc = "idle"
  BY TypeParts DEF NoRun, RunRecord, Time
<1>2. CASE NagTick
  <2>1. PICK owners \in SUBSET Owners : owners = {Owner(t) : t \in {u \in Tickets : Urgent(u)}}
    BY OwnerTyped
  <2>2. PICK rec \in RunRecord : rec = [NoRun EXCEPT !.pc = "send", !.owners = owners]
    BY <1>1 DEF RunRecord
  <2>3. job' \in {job, [job EXCEPT !["nag"] = rec]}
    BY <1>2, <2>1, <2>2 DEF NagTick
  <2>q. QED
    BY <1>1, <2>3 DEF RunsOK, Runs
<1>3. ASSUME NEW o \in Owners, NagSend(o) PROVE RunsOK'
  <2>1. job["nag"] \in RunRecord
    BY <1>1 DEF RunsOK, Runs
  <2>2. PICK pc \in {"send", "mark"} :
          job' = [job EXCEPT !["nag"].owners = @ \ {o}, !["nag"].pc = pc]
    <3>1. CASE job["nag"].owners = {o}
      BY <1>3, <3>1 DEF NagSend
    <3>2. CASE job["nag"].owners # {o}
      BY <1>3, <3>2 DEF NagSend
    <3>q. QED
      BY <3>1, <3>2
  <2>3. PICK rec : rec = [job["nag"] EXCEPT !.owners = @ \ {o}, !.pc = pc]
    OBVIOUS
  <2>4. rec \in RunRecord
    BY <2>1, <2>2, <2>3 DEF RunRecord
  <2>5. job' = [job EXCEPT !["nag"] = rec]
    BY <1>1, <2>2, <2>3 DEF RunsOK, Runs
  <2>q. QED
    BY <1>1, <2>4, <2>5 DEF RunsOK, Runs
<1>4. CASE DigestTick
  <2>1. PICK list \in SUBSET Tickets : list = {t \in Tickets : Due(t)}
    OBVIOUS
  <2>2. PICK rec \in RunRecord : rec = [NoRun EXCEPT !.pc = "send", !.list = list]
    BY <1>1 DEF RunRecord
  <2>3. job' \in {job, [job EXCEPT !["digest"] = rec]}
    BY <1>4, <2>1, <2>2 DEF DigestTick
  <2>q. QED
    BY <1>1, <2>3 DEF RunsOK, Runs
<1>5. CASE ReviewTick
  <2>1. PICK rec \in RunRecord : rec = [NoRun EXCEPT !.pc = "send", !.snooze = snoozeUntil]
    BY <1>1, TypeParts DEF RunRecord, MemoryOK
  <2>2. job' \in {job, [job EXCEPT !["review"] = rec]}
    BY <1>5, <2>1 DEF ReviewTick
  <2>q. QED
    BY <1>1, <2>2 DEF RunsOK, Runs
<1>6. ASSUME NEW j \in Runs, job' = [job EXCEPT ![j].pc = "mark"] PROVE RunsOK'
  <2>1. PICK rec : rec = [job[j] EXCEPT !.pc = "mark"]
    OBVIOUS
  <2>2. rec \in RunRecord
    BY <1>1, <2>1 DEF RunsOK, RunRecord
  <2>3. job' = [job EXCEPT ![j] = rec]
    BY <1>1, <1>6, <2>1 DEF RunsOK
  <2>q. QED
    BY <1>1, <2>2, <2>3 DEF RunsOK
<1>7. CASE DigestSend \/ ReviewSend
  BY <1>6, <1>7 DEF DigestSend, ReviewSend, Runs
<1>8. CASE NagMark \/ DigestMark \/ ReviewMark \/ Restart
  BY <1>1, <1>8 DEF NagMark, DigestMark, ReviewMark, Restart, RunsOK, Runs
<1>9. CASE World \/ SlaTick \/ P0Tick \/ CloseWindow \/ NextHour \/ UNCHANGED vars
  BY <1>1, <1>9 DEF World, Log, SetStatus, SetLane, SetOwner, SetDeadline, SetPriority, Spread, Change,
     Acknowledge, Snooze, Answer, SlaTick, P0Tick, CloseWindow, NextHour, vars, RunsOK
<1>q. QED
  BY <1>2, <1>3, <1>4, <1>5, <1>7, <1>8, <1>9 DEF Next, Run

\* The tickets, and what is counted while they are so, change in ticket steps only.
LEMMA TablesNext ==
  ASSUME TypeOK, [Next]_vars
  PROVE  /\ TicketsOK'
         /\ TicketStep \/ UNCHANGED tickets
         /\ TicketStep => UNCHANGED <<day, hour, ticked, job, fired, flagged, digestAt, ackAt, snoozeUntil,
                                      clocks, told, lost>>
         /\ ~TicketStep /\ ~NextHour => UNCHANGED <<urgentSince, dueSince, spreadSince>>
<1>1. TicketsOK
  BY TypeParts
<1>2. CASE TicketStep
  <2>1. PICK t \in Tickets, r \in Ticket :
          /\ Change(t, r)
          /\ \/ tickets[t].status = "none"
             \/ r.status = "none" <=> tickets[t].status = "none"
    BY <1>2, TicketChanged
  <2>2. TicketsOK'
    BY <1>1, <2>1 DEF Change, TicketsOK
  <2>q. QED
    BY <1>2, <2>1, <2>2 DEF Change, clock, memory, told, NextHour
<1>3. CASE ~TicketStep
  <2>1. UNCHANGED tickets /\ (~NextHour => UNCHANGED <<urgentSince, dueSince, spreadSince>>)
    BY <1>3 DEF Next, World, TicketStep, Acknowledge, Snooze, Answer, Run, NagTick, NagSend, NagMark,
       DigestTick, DigestSend, DigestMark, ReviewTick, ReviewSend, ReviewMark, SlaTick, P0Tick,
       Restart, CloseWindow, NextHour, vars, history, since
  <2>q. QED
    BY <1>1, <1>3, <2>1 DEF TicketsOK
<1>q. QED
  BY <1>2, <1>3

LEMMA ScanTyped ==
  ASSUME TypeOK, NEW t \in Tickets, NEW s \in Stages
  PROVE  ScannedClock(t, s) \in Clock
<1>1. clocks[t][s] \in Clock /\ tickets[t].priority \in Priorities
  BY TypeParts DEF MemoryOK, TicketsOK, Ticket
<1>2. Targets[tickets[t].priority][s] \in Nat \cup {None}
  BY <1>1, ConstantsAssumption DEF Priorities
<1>3. \A e, g : State(e, g) \in 0 .. 3
  BY DEF State
<1>4. Targets[tickets[t].priority][s] # None => Evaluated(t, s) \in Clock
  BY <1>2, <1>3 DEF Evaluated, Clock
<1>q. QED
  BY <1>1, <1>4 DEF ScannedClock

LEMMA MemoryNext ==
  ASSUME TypeOK, [Next]_vars
  PROVE  MemoryOK'
<1>1. MemoryOK /\ RunsOK /\ Now \in Time /\ Now + SnoozeHours \in Time
  BY TypeParts, TimeTyped DEF Time, SnoozeHours
<1>2. CASE Acknowledge \/ Snooze
  BY <1>1, <1>2 DEF Acknowledge, Snooze, Answer, MemoryOK, Time
<1>3. CASE NagMark \/ DigestMark
  BY <1>1, <1>3 DEF NagMark, DigestMark, MemoryOK
<1>4. CASE ReviewMark
  <2>1. job["review"].snooze \in Time
    BY <1>1 DEF RunsOK, Runs, RunRecord
  <2>q. QED
    BY <1>1, <1>4, <2>1 DEF ReviewMark, MemoryOK
<1>5. CASE SlaTick
  <2>1. clocks' \in [Tickets -> [Stages -> Clock]]
    BY <1>5, ScanTyped DEF SlaTick
  <2>q. QED
    BY <1>1, <1>5, <2>1 DEF SlaTick, MemoryOK
<1>6. CASE P0Tick \/ Restart
  BY <1>1, <1>6 DEF P0Tick, Restart, MemoryOK
<1>7. CASE \/ TicketStep \/ NagTick \/ (\E o \in Owners : NagSend(o)) \/ DigestTick \/ DigestSend
           \/ ReviewTick \/ ReviewSend \/ CloseWindow \/ NextHour \/ UNCHANGED vars
  <2>1. UNCHANGED memory
    BY <1>7 DEF TicketStep, Log, SetStatus, SetLane, SetOwner, SetDeadline, SetPriority, Spread, Change, NagTick,
       NagSend, DigestTick, DigestSend, ReviewTick, ReviewSend, CloseWindow, NextHour, vars
  <2>q. QED
    BY <1>1, <2>1 DEF memory, MemoryOK
<1>q. QED
  BY <1>2, <1>3, <1>4, <1>5, <1>6, <1>7 DEF Next, World, TicketStep, Run

LEMMA HistoryNext ==
  ASSUME TypeOK, [Next]_vars
  PROVE  HistoryOK'
<1>1. HistoryOK /\ RunsOK
  BY TypeParts
<1>2. CASE TicketStep
  <2>1. /\ UNCHANGED told
        /\ urgentSince' \subseteq urgentSince /\ dueSince' \subseteq dueSince
        /\ spreadSince' \subseteq spreadSince
    BY <1>2 DEF TicketStep, Log, SetStatus, SetLane, SetOwner, SetDeadline, SetPriority, Spread, Change
  <2>q. QED
    BY <1>1, <2>1 DEF HistoryOK, told, reminded, reviewed
<1>3. CASE \E o \in Owners : NagSend(o)
  <2>1. /\ nags' \in [Owners -> Nat] /\ refused' \in SUBSET Owners
        /\ UNCHANGED <<restarts, digests, listed, reviewed, candidates, since>>
    BY <1>1, <1>3 DEF NagSend, HistoryOK
  <2>q. QED
    BY <1>1, <2>1 DEF HistoryOK, reviewed, since
<1>4. CASE DigestSend \/ ReviewSend
  <2>1. job["digest"].list \subseteq Tickets
    BY <1>1 DEF RunsOK, Runs, RunRecord
  <2>2. CASE DigestSend
    <3>1. digests' \in Nat /\ listed' \in SUBSET Tickets /\ UNCHANGED <<reminded, reviewed, candidates, since>>
      BY <1>1, <2>1, <2>2 DEF DigestSend, HistoryOK
    <3>q. QED
      BY <1>1, <3>1 DEF HistoryOK, reminded, reviewed, since
  <2>3. CASE ReviewSend
    <3>1. reviews' \in Nat /\ asked' \in BOOLEAN
      <4>1. reviews \in Nat /\ asked \in BOOLEAN
        BY <1>1 DEF HistoryOK
      <4>2. \/ reviews' = reviews + 1 /\ asked' = TRUE
            \/ UNCHANGED reviewed
        BY <2>3 DEF ReviewSend
      <4>3. CASE UNCHANGED reviewed
        <5>1. reviews' = reviews /\ asked' = asked
          BY <4>3, Zenon DEF reviewed
        <5>q. QED
          BY <4>1, <5>1
      <4>4. CASE reviews' = reviews + 1 /\ asked' = TRUE
        <5>1. reviews' \in Nat
          BY <4>1, <4>4
        <5>2. asked' \in BOOLEAN
          BY <4>4, Zenon
        <5>q. QED
          BY <5>1, <5>2
      <4>q. QED
        BY <4>2, <4>3, <4>4
    <3>2. UNCHANGED <<reminded, digests, listed, candidates, since>>
      BY <2>3 DEF ReviewSend
    <3>q. QED
      BY <1>1, <3>1, <3>2 DEF HistoryOK, reminded, since
  <2>q. QED
    BY <1>4, <2>2, <2>3
<1>5. CASE P0Tick
  BY <1>1, <1>5 DEF P0Tick, HistoryOK, reminded, reviewed, since
<1>6. CASE NextHour
  BY <1>1, <1>6, OwnerTyped DEF NextHour, HistoryOK, UrgentOnes
<1>7. CASE \/ Acknowledge \/ Snooze \/ NagTick \/ NagMark \/ DigestTick \/ DigestMark \/ ReviewTick
           \/ ReviewMark \/ SlaTick \/ CloseWindow \/ UNCHANGED vars
  <2>1. UNCHANGED history
    BY <1>7 DEF Acknowledge, Snooze, Answer, NagTick, NagMark, DigestTick, DigestMark, ReviewTick,
       ReviewMark, SlaTick, CloseWindow, vars
  <2>q. QED
    BY <1>1, <2>1 DEF history, told, since, reminded, reviewed, HistoryOK
<1>8. CASE Restart
  BY <1>1, <1>8 DEF Restart, HistoryOK, reviewed, since
<1>q. QED
  BY <1>2, <1>3, <1>4, <1>5, <1>6, <1>7, <1>8 DEF Next, World, TicketStep, Run

LEMMA TypeNext == TypeOK /\ [Next]_vars => TypeOK'
<1> SUFFICES ASSUME TypeOK, [Next]_vars PROVE TypeOK'
  OBVIOUS
<1>1. ClockOK' /\ RunsOK' /\ TicketsOK' /\ MemoryOK' /\ HistoryOK' /\ BoundsOK'
  BY ClockNext, RunsNext, TablesNext, MemoryNext, HistoryNext, BoundsNext
<1>q. QED
  BY <1>1 DEF TypeOK, ClockOK, RunsOK, TicketsOK, MemoryOK, HistoryOK, BoundsOK, Runs, RunRecord, Clock

-----------------------------------------------------------------------------
(* The memory of each loop.                                                *)

LEMMA InitInv == Init => Inv
<1> SUFFICES ASSUME Init PROVE Inv
  OBVIOUS
<1>1. TypeOK /\ Now \in Time
  BY InitTyped, TimeTyped
<1>2. job["nag"].pc = "idle" /\ job["digest"].pc = "idle" /\ job["review"].pc = "idle"
  BY DEF Init, NoRun
<1>3. StillSo /\ Past /\ NagKnows /\ ReviewKnows /\ P0Knows
  BY <1>1, <1>2, ConstantsAssumption DEF Init, StillSo, Past, NagKnows, ReviewKnows, P0Knows, Time
<1>4. DigestKnows
  BY <1>1, <1>2, ConstantsAssumption DEF Init, DigestKnows, Time
<1>5. ClocksTrail
  <2>1. ASSUME NEW t \in Tickets
        PROVE  tickets[t].created = 0 /\ tickets[t].responded = None
    BY DEF Init, Unlogged
  <2>2. \A t \in Tickets, s \in Stages : clocks[t][s].state = 0
    BY DEF Init
  <2>q. QED
    BY <1>1, <2>1, <2>2 DEF ClocksTrail, Time
<1>q. QED
  BY <1>1, <1>3, <1>4, <1>5 DEF Inv

LEMMA StillNext ==
  ASSUME TypeOK, StillSo, [Next]_vars
  PROVE  StillSo'
<1>1. CASE TicketStep
  <2>1. PICK t \in Tickets, r \in Ticket : Change(t, r)
    BY <1>1, TicketChanged
  <2>q. QED
    BY <2>1 DEF Change, StillSo
<1>2. CASE NextHour
  BY <1>2 DEF NextHour, StillSo, UrgentOnes, Urgent, Owner
<1>3. CASE ~TicketStep /\ ~NextHour
  BY <1>3, TablesNext, ClockNext DEF StillSo, UrgentOnes, Owner, Urgent, Due, Candidate, Live, Now
<1>q. QED
  BY <1>1, <1>2, <1>3

LEMMA HourNumber == \A d \in Nat \ {0} : \A h \in 0 .. 23 : (d - 1) * 24 + h \in Nat
OBVIOUS

\* The time never goes back, and what is remembered of it is of now at the latest.
LEMMA Later ==
  ASSUME TypeOK, [Next]_vars
  PROVE  Now \in Nat /\ Now' \in Nat /\ Now <= Now' /\ (NextHour => Now < Now')
         /\ (~NextHour => UNCHANGED <<day, hour>> /\ Now' = Now)
<1>1. Now \in Nat /\ Now' \in Nat
  <2>1. day' \in Nat \ {0} /\ hour' \in 0 .. 23
    <3>1. day' \in 1 .. Horizon /\ hour' \in Hours
      BY TypeNext DEF TypeOK
    <3>2. Hours \subseteq 0 .. 23 /\ Horizon \in Nat
      BY ConstantsAssumption
    <3>q. QED
      BY <3>1, <3>2
  <2>q. QED
    BY <2>1, TimeTyped, HourNumber DEF Now, Time
<1>2. CASE NextHour
  <2>1. ~UNCHANGED <<day, hour>>
    <3>1. Hours \subseteq 0 .. 23 /\ Hours # {} /\ day \in Nat
      BY ConstantsAssumption, TimeTyped
    <3>2. CASE {h \in Hours : h > hour} = {}
      BY <1>2, <3>1, <3>2 DEF NextHour
    <3>3. CASE {h \in Hours : h > hour} # {}
      <4>1. hour' \in {h \in Hours : h > hour}
        BY <1>2, <3>1, <3>3, FirstHour DEF NextHour
      <4>q. QED
        BY <3>1, <4>1, TimeTyped
    <3>q. QED
      BY <3>2, <3>3
  <2>2. Now < Now'
    BY <2>1, ClockNext
  <2>q. QED
    BY <1>1, <1>2, <2>2
<1>3. CASE ~NextHour
  BY <1>1, <1>3, ClockNext DEF Now
<1>q. QED
  BY <1>2, <1>3

LEMMA PastNext ==
  ASSUME TypeOK, Past, [Next]_vars
  PROVE  Past'
<1>1. fired' \in {fired, Now, None} /\ digestAt' \in {digestAt, Now}
  BY TablesNext DEF Next, World, TicketStep, Acknowledge, Snooze, Answer, Run, NagTick, NagSend, NagMark,
     DigestTick, DigestSend, DigestMark, ReviewTick, ReviewSend, ReviewMark, SlaTick, P0Tick,
     Restart, CloseWindow, NextHour, vars, memory
<1>2. fired \in Nat \cup {None} /\ digestAt \in Nat \cup {None}
  BY DEF TypeOK, Time
<1>q. QED
  BY <1>1, <1>2, Later DEF Past

\* More time, or a shorter target, only makes a clock redder.
LEMMA Redder ==
  \A e, f \in Int : \A g, h \in Nat :
    e <= f /\ h <= g => State(e, g) <= State(f, h) /\ State(e, g) \in 1 .. 3 /\ State(f, h) \in 1 .. 3
BY DEF State

\* What the scan makes of a clock that does not go back unless its target grows.
LEMMA Scanned ==
  ASSUME TypeOK, ClocksTrail, NEW t \in Tickets, NEW s \in Stages
  PROVE  LET new == ScannedClock(t, s) IN
         /\ new.state # 0 =>
              /\ tickets[t].status # "none"
              /\ s = "status_update" => tickets[t].responded # None
              /\ new.state <= State(Now - Reference(t, s), new.target)
         /\ new.state < clocks[t][s].state => new.target > clocks[t][s].target
<1>1. /\ clocks[t][s] \in Clock /\ tickets[t] \in Ticket /\ Now \in Nat
      /\ clocks[t][s].state \in Nat /\ clocks[t][s].target \in Nat
  BY TypeParts, TimeTyped DEF MemoryOK, TicketsOK, Clock, Time
<1>2. CASE ScannedClock(t, s) = clocks[t][s]
  BY <1>1, <1>2 DEF ClocksTrail
<1>3. CASE ScannedClock(t, s) # clocks[t][s]
  <2>1. /\ s \in Running(t) /\ ScannedClock(t, s) = Evaluated(t, s)
        /\ Targets[tickets[t].priority][s] # None
    BY <1>3 DEF ScannedClock
  <2>2. /\ tickets[t].status # "none"
        /\ s = "status_update" => tickets[t].responded # None
    BY <2>1 DEF Running
  <2>3. PICK g \in Nat : g = Targets[tickets[t].priority][s]
    BY <1>1, <2>1, ConstantsAssumption DEF Ticket, Priorities
  <2>4. PICK e \in Int : e = Now - Reference(t, s)
    BY <1>1, <2>2 DEF Reference, Ticket, Time
  <2>5. Evaluated(t, s) = [state |-> State(e, g), target |-> g]
    BY <2>3, <2>4 DEF Evaluated
  <2>6. clocks[t][s].state = 0 \/ clocks[t][s].state <= State(e, clocks[t][s].target)
    BY <2>4 DEF ClocksTrail
  <2>7. State(e, g) < clocks[t][s].state => g > clocks[t][s].target
    BY <1>1, <2>6, Redder
  <2>8. State(e, g) <= State(e, g)
    BY Redder
  <2>q. QED
    BY <2>1, <2>2, <2>4, <2>5, <2>7, <2>8
<1>q. QED
  BY <1>2, <1>3

\* The clocks change in the scan of the SLA clocks only.
LEMMA ClocksOnlyScanned ==
  ASSUME TypeOK, [Next]_vars
  PROVE  SlaTick \/ UNCHANGED clocks
BY TablesNext DEF Next, World, TicketStep, Acknowledge, Snooze, Answer, Run, NagTick, NagSend, NagMark,
   DigestTick, DigestSend, DigestMark, ReviewTick, ReviewSend, ReviewMark, P0Tick,
   Restart, CloseWindow, NextHour, vars, memory

LEMMA ClocksNext ==
  ASSUME TypeOK, ClocksTrail, [Next]_vars
  PROVE  ClocksTrail'
<1> DEFINE Times(t) == /\ tickets[t].created <= Now
                       /\ tickets[t].responded # None => tickets[t].responded <= Now
<1> DEFINE Trails(t, s) ==
      clocks[t][s].state # 0 =>
        /\ tickets[t].status # "none"
        /\ s = "status_update" => tickets[t].responded # None
        /\ clocks[t][s].state <= State(Now - Reference(t, s), clocks[t][s].target)
<1> SUFFICES ASSUME NEW t \in Tickets PROVE Times(t)' /\ \A s \in Stages : Trails(t, s)'
  BY DEF ClocksTrail
<1>1. /\ Now \in Nat /\ Now' \in Nat /\ Now <= Now' /\ (~NextHour => Now' = Now)
      /\ tickets[t] \in Ticket
      /\ \A s \in Stages : clocks[t][s].state \in Nat /\ clocks[t][s].target \in Nat
  BY TypeParts, Later DEF MemoryOK, TicketsOK, Clock
<1>2. Times(t) /\ \A s \in Stages : Trails(t, s)
  BY DEF ClocksTrail
<1>3. CASE UNCHANGED <<tickets[t], clocks[t]>>
  <2>1. Times(t)'
    BY <1>1, <1>2, <1>3 DEF Ticket, Time
  <2>2. ASSUME NEW s \in Stages, clocks[t][s].state # 0 PROVE Trails(t, s)'
    <3>1. /\ tickets[t].status # "none" /\ (s = "status_update" => tickets[t].responded # None)
          /\ clocks[t][s].state <= State(Now - Reference(t, s), clocks[t][s].target)
      BY <1>2, <2>2
    <3>2. PICK r \in Nat : r = Reference(t, s) /\ r = Reference(t, s)'
      BY <1>1, <1>3, <3>1 DEF Reference, Ticket, Time
    <3>3. PICK e \in Int, f \in Int : e = Now - r /\ f = Now' - r /\ e <= f
      <4>1. \A n, m, k \in Nat : n <= m => n - k \in Int /\ m - k \in Int /\ n - k <= m - k
        OBVIOUS
      <4>q. QED
        BY <1>1, <4>1
    <3>4. State(e, clocks[t][s].target) <= State(f, clocks[t][s].target)
          /\ State(e, clocks[t][s].target) \in 1 .. 3 /\ State(f, clocks[t][s].target) \in 1 .. 3
      BY <1>1, <3>3, Redder
    <3>5. clocks[t][s].state <= State(f, clocks[t][s].target)
      BY <1>1, <3>1, <3>2, <3>3, <3>4
    <3>q. QED
      BY <1>3, <3>1, <3>2, <3>3, <3>5
  <2>q. QED
    BY <1>3, <2>1, <2>2
<1>4. CASE TicketStep
  <2>1. PICK u \in Tickets, r \in Ticket :
          /\ Change(u, r)
          /\ \/ /\ tickets[u].status = "none" /\ r.created = Now /\ r.responded = None
             \/ /\ r.status = "none" <=> tickets[u].status = "none"
                /\ r.created = tickets[u].created
                /\ \/ r.responded = tickets[u].responded
                   \/ tickets[u].responded = None /\ r.responded = Now
    BY <1>4, TicketChanged
  <2>2. /\ tickets' = [tickets EXCEPT ![u] = r] /\ UNCHANGED clocks /\ Now' = Now
        /\ tickets'[t] = IF t = u THEN r ELSE tickets[t]
    BY <1>4, <2>1, TablesNext, TypeParts DEF Change, Now, TicketsOK
  <2>3. CASE t # u
    BY <1>3, <2>2, <2>3
  <2>4. CASE t = u /\ tickets[u].status = "none" /\ r.created = Now /\ r.responded = None
    <3>1. \A s \in Stages : clocks[t][s].state = 0
      BY <1>2, <2>4
    <3>q. QED
      BY <1>1, <2>2, <2>4, <3>1
  <2>5. CASE /\ t = u /\ (r.status = "none" <=> tickets[u].status = "none")
             /\ r.created = tickets[u].created
             /\ \/ r.responded = tickets[u].responded
                \/ tickets[u].responded = None /\ r.responded = Now
    <3>1. Times(t)'
      BY <1>1, <1>2, <2>2, <2>5
    <3>2. ASSUME NEW s \in Stages, clocks[t][s].state # 0 PROVE Trails(t, s)'
      <4>1. /\ tickets[t].status # "none" /\ (s = "status_update" => tickets[t].responded # None)
            /\ clocks[t][s].state <= State(Now - Reference(t, s), clocks[t][s].target)
        BY <1>2, <3>2
      <4>2. /\ s = "status_update" => r.responded = tickets[t].responded
            /\ Reference(t, s)' = Reference(t, s)
        BY <2>2, <2>5, <4>1 DEF Reference
      <4>q. QED
        BY <2>2, <2>5, <4>1, <4>2
    <3>q. QED
      BY <2>2, <3>1, <3>2
  <2>q. QED
    BY <2>1, <2>3, <2>4, <2>5
<1>5. CASE SlaTick
  <2>1. UNCHANGED tickets /\ Now' = Now /\ \A s \in Stages : clocks'[t][s] = ScannedClock(t, s)
    BY <1>5 DEF SlaTick, Now
  <2>2. \A s \in Stages : Reference(t, s)' = Reference(t, s)
    BY <2>1 DEF Reference
  <2>3. \A s \in Stages :
          LET new == ScannedClock(t, s) IN
          new.state # 0 => /\ tickets[t].status # "none"
                           /\ s = "status_update" => tickets[t].responded # None
                           /\ new.state <= State(Now - Reference(t, s), new.target)
    BY Scanned
  <2>q. QED
    BY <1>2, <2>1, <2>2, <2>3
<1>q. QED
  BY <1>3, <1>4, <1>5, TablesNext, ClocksOnlyScanned

\* The nag serves every owner of a ticket that was urgent all hour, and nobody more
\* often than once for each start of the process.
LEMMA NagNext ==
  ASSUME TypeOK, StillSo, Past, NagKnows, [Next]_vars
  PROVE  NagKnows'
<1>1. /\ RunsOK /\ job["nag"] \in RunRecord /\ nags \in [Owners -> Nat] /\ restarts \in Nat
      /\ Now \in Nat /\ Now' \in Nat /\ fired \in Nat \cup {None} /\ None \notin Nat
      /\ urgentSince \subseteq UrgentOnes /\ HistoryOK /\ refused \subseteq Owners
  BY TypeParts, Later, ConstantsAssumption DEF RunsOK, Runs, HistoryOK, MemoryOK, Time, StillSo
<1>2. CASE TicketStep
  <2>1. UNCHANGED <<job, nags, refused, restarts, fired, ticked>> /\ Now' = Now
    BY <1>2, TablesNext DEF Now, told, reminded
  <2>2. urgentSince' \subseteq urgentSince
    BY <1>2, TicketChanged DEF Change
  <2>q. QED
    BY <1>1, <2>1, <2>2 DEF NagKnows, Served
<1>3. CASE NagTick
  <2>1. /\ job["nag"].pc = "idle" /\ UNCHANGED <<nags, refused, restarts, fired, urgentSince>>
        /\ Now' = Now
    BY <1>1, <1>3 DEF NagTick, Tick, memory, history, told, reminded, since, Now, RunsOK, Runs
  <2>2. PICK owners : owners = {Owner(t) : t \in {u \in Tickets : Urgent(u)}}
    OBVIOUS
  <2>3. \A p \in urgentSince : p[2] \in owners
    BY <1>1, <2>2 DEF UrgentOnes
  <2>4. CASE fired = Now
    <3>1. job' = job
      BY <1>3, <2>4 DEF NagTick
    <3>q. QED
      BY <1>1, <2>1, <2>4, <3>1 DEF NagKnows, Served
  <2>5. CASE fired # Now /\ owners = {}
    <3>1. job' = job /\ urgentSince = {}
      BY <1>3, <2>2, <2>3, <2>5 DEF NagTick
    <3>q. QED
      BY <1>1, <2>1, <2>5, <3>1 DEF NagKnows, Served
  <2>6. CASE fired # Now /\ owners # {}
    <3>1. PICK rec : rec = [NoRun EXCEPT !.pc = "send", !.owners = owners]
      OBVIOUS
    <3>2. job' = [job EXCEPT !["nag"] = rec] /\ rec.pc = "send" /\ rec.owners = owners
      BY <1>3, <2>2, <2>6, <3>1 DEF NagTick, NoRun
    <3>3. job'["nag"] = rec /\ owners \subseteq Owners
      BY <1>1, <2>2, <3>2, OwnerTyped DEF RunsOK, Runs
    <3>q. QED
      BY <1>1, <2>1, <2>3, <2>6, <3>2, <3>3 DEF NagKnows, Served
  <2>q. QED
    BY <2>4, <2>5, <2>6
<1>4. ASSUME NEW o \in Owners, NagSend(o) PROVE NagKnows'
  <2>1. /\ job["nag"].pc = "send" /\ o \in job["nag"].owners
        /\ UNCHANGED <<restarts, fired, urgentSince>> /\ Now' = Now
    BY <1>4 DEF NagSend, memory, clock, since, Now
  <2>2. /\ job'["nag"].owners = job["nag"].owners \ {o}
        /\ job'["nag"].pc = IF job["nag"].owners = {o} THEN "mark" ELSE "send"
    <3>1. PICK pc : pc = IF job["nag"].owners = {o} THEN "mark" ELSE job["nag"].pc
      OBVIOUS
    <3>2. job' = [job EXCEPT !["nag"].owners = @ \ {o}, !["nag"].pc = pc]
      BY <1>4, <3>1 DEF NagSend
    <3>3. job'["nag"] = [job["nag"] EXCEPT !.owners = @ \ {o}, !.pc = pc]
      BY <1>1, <3>2 DEF RunsOK, Runs
    <3>q. QED
      BY <1>1, <2>1, <3>1, <3>3 DEF RunRecord
  <2>3. nags[o] <= restarts /\ job["nag"].owners \subseteq Owners /\ fired # Now
    BY <1>1, <2>1 DEF NagKnows, RunRecord
  <2>4. /\ nags'[o] \in {nags[o], nags[o] + 1}
        /\ \A p \in Owners \ {o} : nags'[p] = nags[p]
        /\ Served(o)' /\ \A p : Served(p) /\ p \in Owners => Served(p)'
    <3>1. CASE nags' = [nags EXCEPT ![o] = @ + 1] /\ UNCHANGED refused
      BY <1>1, <3>1 DEF Served
    <3>2. CASE refused' = refused \cup {o} /\ UNCHANGED nags
      BY <1>1, <3>2 DEF Served
    <3>q. QED
      BY <1>4, <3>1, <3>2 DEF NagSend
  <2>5. \A p \in Owners : nags'[p] <= 1 + restarts
    BY <1>1, <2>3, <2>4 DEF NagKnows
  <2>6. \A p \in job'["nag"].owners : nags'[p] <= restarts
    BY <1>1, <2>1, <2>2, <2>3, <2>4 DEF NagKnows
  <2>7. \A p \in urgentSince : p[2] \in job'["nag"].owners \/ Served(p[2])'
    <3>1. \A p \in urgentSince : p[2] \in Owners
      BY <1>1 DEF HistoryOK
    <3>2. \A p \in urgentSince : p[2] \in job["nag"].owners \/ Served(p[2])
      BY <2>1 DEF NagKnows
    <3>q. QED
      BY <2>2, <2>4, <3>1, <3>2
  <2>8. job["nag"].owners = {o} => job'["nag"].owners = {}
    BY <2>2
  <2>q. QED
    BY <1>1, <2>1, <2>2, <2>3, <2>5, <2>6, <2>7, <2>8 DEF NagKnows
<1>5. CASE NagMark
  <2>1. /\ job["nag"].pc = "mark" /\ job'["nag"] = NoRun /\ fired' = Now /\ Now' = Now
        /\ UNCHANGED <<nags, refused, restarts, urgentSince>>
    BY <1>1, <1>5 DEF NagMark, RunsOK, Runs, clock, history, told, reminded, since, Now
  <2>q. QED
    BY <1>1, <2>1 DEF NagKnows, NoRun, Served
<1>6. CASE NextHour
  <2>1. /\ job' = job /\ job["nag"].pc = "idle" /\ fired' = fired /\ ticked' = {}
        /\ (\A o \in Owners : nags'[o] = 0) /\ restarts' = 0
    BY <1>1, <1>6 DEF NextHour, NothingInFlight, RunsOK, Runs, memory
  <2>2. fired # Now'
    BY <1>1, <1>6, Later DEF Past
  <2>q. QED
    BY <2>1, <2>2 DEF NagKnows
<1>7. CASE Restart
  <2>1. /\ job'["nag"] = NoRun /\ fired' = None /\ ticked' = {} /\ restarts' = restarts + 1
        /\ UNCHANGED nags /\ Now' = Now
    BY <1>1, <1>7 DEF Restart, RunsOK, Runs, Now
  <2>2. \A o \in Owners : nags'[o] <= restarts'
    BY <1>1, <2>1 DEF NagKnows
  <2>3. \A o \in Owners : nags'[o] <= 1 + restarts'
    BY <1>1, <2>1, <2>2
  <2>q. QED
    BY <1>1, <2>1, <2>2, <2>3 DEF NagKnows, NoRun
<1>8. CASE \/ Acknowledge \/ Snooze \/ DigestTick \/ DigestSend \/ DigestMark \/ ReviewTick
           \/ ReviewSend \/ ReviewMark \/ SlaTick \/ P0Tick \/ CloseWindow \/ UNCHANGED vars
  <2>1. UNCHANGED <<nags, refused, restarts, fired, urgentSince, day, hour>>
    BY <1>8 DEF Acknowledge, Snooze, Answer, DigestTick, DigestSend, DigestMark, ReviewTick,
       ReviewSend, ReviewMark, SlaTick, P0Tick, CloseWindow, vars, memory, history, told, reminded,
       since, clock
  <2>2. "nag" \in ticked' <=> "nag" \in ticked
    BY <1>8 DEF Acknowledge, Snooze, Answer, DigestTick, DigestSend, DigestMark, ReviewTick,
       ReviewSend, ReviewMark, SlaTick, P0Tick, CloseWindow, vars, clock, Tick
  <2>3. job'["nag"] = job["nag"]
    BY <1>1, <1>8 DEF Acknowledge, Snooze, Answer, DigestTick, DigestSend, DigestMark, ReviewTick,
       ReviewSend, ReviewMark, SlaTick, P0Tick, CloseWindow, vars, RunsOK, Runs
  <2>q. QED
    BY <1>1, <2>1, <2>2, <2>3 DEF NagKnows, Served, Now
<1>q. QED
  BY <1>2, <1>3, <1>4, <1>5, <1>6, <1>7, <1>8 DEF Next, World, TicketStep, Run

\* The digest is sent once, with every ticket that was due all hour.
LEMMA DigestNext ==
  ASSUME TypeOK, StillSo, Past, "digest" \notin lost => DigestKnows, [Next]_vars, "digest" \notin lost'
  PROVE  DigestKnows'
<1>0. Now' = Now => DigestKnows
  BY BoundsNext, Later
<1>1. /\ RunsOK /\ job["digest"] \in RunRecord /\ HistoryOK
      /\ Now \in Nat /\ Now' \in Nat /\ digestAt \in Nat \cup {None} /\ None \notin Nat
  BY BoundsNext, TypeParts, Later, ConstantsAssumption DEF RunsOK, Runs, MemoryOK, Time
<1>2. CASE TicketStep
  <2>1. UNCHANGED <<job, digests, listed, digestAt, ticked>> /\ Now' = Now
    BY <1>2, TablesNext DEF told, Now
  <2>2. dueSince' \subseteq dueSince
    BY <1>2, TicketChanged DEF Change
  <2>q. QED
    BY <1>0, <1>1, <2>1, <2>2 DEF DigestKnows
<1>3. CASE DigestTick
  <2>1. /\ job["digest"].pc = "idle" /\ UNCHANGED <<digests, listed, digestAt, dueSince>> /\ Now' = Now
    BY <1>1, <1>3 DEF DigestTick, Tick, memory, history, told, since, Now, RunsOK, Runs
  <2>2. PICK list : list = {t \in Tickets : Due(t)}
    OBVIOUS
  <2>3. dueSince \subseteq list
    BY <1>0, <1>1, <2>2 DEF StillSo, HistoryOK
  <2>4. CASE digestAt = Now
    <3>1. job' = job
      BY <1>3, <2>4 DEF DigestTick
    <3>q. QED
      BY <1>0, <1>1, <2>1, <2>4, <3>1 DEF DigestKnows
  <2>5. CASE digestAt # Now /\ list = {}
    <3>1. job' = job
      BY <1>3, <2>2, <2>5 DEF DigestTick
    <3>q. QED
      BY <1>0, <1>1, <2>1, <2>3, <2>5, <3>1 DEF DigestKnows
  <2>6. CASE digestAt # Now /\ list # {}
    <3>1. PICK rec : rec = [NoRun EXCEPT !.pc = "send", !.list = list]
      OBVIOUS
    <3>2. job' = [job EXCEPT !["digest"] = rec] /\ rec.pc = "send" /\ rec.list = list
      BY <1>3, <2>2, <2>6, <3>1 DEF DigestTick, NoRun
    <3>3. job'["digest"] = rec
      BY <1>0, <1>1, <3>2 DEF RunsOK, Runs
    <3>q. QED
      BY <1>0, <1>1, <2>1, <2>3, <2>6, <3>2, <3>3 DEF DigestKnows
  <2>q. QED
    BY <2>4, <2>5, <2>6
<1>4. CASE DigestSend
  <2>1. /\ job["digest"].pc = "send" /\ digests' = digests + 1
        /\ listed' = listed \cup job["digest"].list
        /\ UNCHANGED <<digestAt, dueSince>> /\ Now' = Now
    BY <1>4 DEF DigestSend, Refused, memory, clock, since, Now
  <2>2. job'["digest"].pc = "mark"
    BY <1>0, <1>1, <1>4 DEF DigestSend, RunsOK, Runs, RunRecord
  <2>q. QED
    BY <1>0, <1>1, <2>1, <2>2 DEF DigestKnows
<1>5. CASE DigestMark
  <2>1. /\ job["digest"].pc = "mark" /\ job'["digest"] = NoRun /\ digestAt' = Now /\ Now' = Now
        /\ UNCHANGED <<digests, listed, dueSince>>
    BY <1>0, <1>1, <1>5 DEF DigestMark, RunsOK, Runs, clock, history, told, since, Now
  <2>q. QED
    BY <1>0, <1>1, <2>1 DEF DigestKnows, NoRun
<1>6. CASE NextHour
  <2>1. /\ job' = job /\ job["digest"].pc = "idle" /\ digestAt' = digestAt /\ ticked' = {}
        /\ digests' = 0
    BY <1>0, <1>1, <1>6 DEF NextHour, NothingInFlight, RunsOK, Runs, memory
  <2>2. digestAt # Now'
    BY <1>0, <1>1, <1>6, Later DEF Past
  <2>q. QED
    BY <2>1, <2>2 DEF DigestKnows
<1>7. CASE Restart
  <2>1. job["digest"].pc = "idle" /\ job'["digest"].pc = "idle" /\ ticked' = {}
        /\ UNCHANGED <<digestAt, digests, listed, dueSince, day, hour>>
    BY <1>0, <1>1, <1>7 DEF Restart, RunsOK, Runs, NoRun, since
  <2>q. QED
    BY <1>0, <1>1, <2>1 DEF DigestKnows, Now
<1>8. CASE \/ Acknowledge \/ Snooze \/ NagTick \/ (\E o \in Owners : NagSend(o)) \/ NagMark
           \/ ReviewTick \/ ReviewSend \/ ReviewMark \/ SlaTick \/ P0Tick \/ CloseWindow \/ UNCHANGED vars
  <2>1. UNCHANGED <<digests, listed, digestAt, dueSince, day, hour>>
    BY <1>8 DEF Acknowledge, Snooze, Answer, NagTick, NagSend, NagMark, ReviewTick,
       ReviewSend, ReviewMark, SlaTick, P0Tick, CloseWindow, vars, memory, history, told, since, clock
  <2>2. "digest" \in ticked' <=> "digest" \in ticked
    BY <1>8 DEF Acknowledge, Snooze, Answer, NagTick, NagSend, NagMark, ReviewTick,
       ReviewSend, ReviewMark, SlaTick, P0Tick, CloseWindow, vars, clock, Tick
  <2>3. job'["digest"] = job["digest"]
    BY <1>0, <1>1, <1>8 DEF Acknowledge, Snooze, Answer, NagTick, NagSend, NagMark, ReviewTick,
       ReviewSend, ReviewMark, SlaTick, P0Tick, CloseWindow, vars, RunsOK, Runs
  <2>q. QED
    BY <1>0, <1>1, <2>1, <2>2, <2>3 DEF DigestKnows, Now
<1>q. QED
  BY <1>2, <1>3, <1>4, <1>5, <1>6, <1>7, <1>8 DEF Next, World, TicketStep, Run

\* Whoever was a candidate all hour has been found, if the scan ran.
LEMMA P0Next ==
  ASSUME TypeOK, StillSo, "p0" \notin lost => P0Knows, [Next]_vars, "p0" \notin lost'
  PROVE  P0Knows'
<1>1. P0Knows /\ HistoryOK /\ MemoryOK
  BY BoundsNext, TypeParts
<1>2. CASE P0Tick
  <2>1. PICK found : found = {t \in Tickets \ flagged : Candidate(t)}
    OBVIOUS
  <2>2. /\ flagged' = flagged \cup found /\ candidates' = candidates \cup found
        /\ UNCHANGED spreadSince
    BY <1>2, <2>1 DEF P0Tick, Refused, since
  <2>3. spreadSince \subseteq flagged \cup found
    BY <1>1, <2>1 DEF StillSo, HistoryOK
  <2>q. QED
    BY <1>1, <2>2, <2>3 DEF P0Knows
<1>3. CASE TicketStep
  BY <1>1, <1>3, TablesNext, TicketChanged DEF Change, told, P0Knows
<1>4. CASE NextHour \/ Restart
  BY <1>1, <1>4 DEF NextHour, Restart, memory, since, P0Knows
<1>5. CASE \/ Acknowledge \/ Snooze \/ NagTick \/ (\E o \in Owners : NagSend(o)) \/ NagMark
           \/ DigestTick \/ DigestSend \/ DigestMark
           \/ ReviewTick \/ ReviewSend \/ ReviewMark \/ SlaTick \/ CloseWindow \/ UNCHANGED vars
  <2>1. UNCHANGED <<flagged, candidates, spreadSince>>
    BY <1>5 DEF Acknowledge, Snooze, Answer, NagTick, NagSend, NagMark, DigestTick, DigestSend, DigestMark,
       ReviewTick, ReviewSend, ReviewMark, SlaTick, CloseWindow, vars, memory, history, told, since, clock
  <2>2. "p0" \in ticked' <=> "p0" \in ticked
    BY <1>5 DEF Acknowledge, Snooze, Answer, NagTick, NagSend, NagMark, DigestTick, DigestSend, DigestMark,
       ReviewTick, ReviewSend, ReviewMark, SlaTick, CloseWindow, vars, clock, Tick
  <2>q. QED
    BY <1>1, <2>1, <2>2 DEF P0Knows
<1>q. QED
  BY <1>2, <1>3, <1>4, <1>5 DEF Next, World, TicketStep, Run

LEMMA DayOfHour == \A a \in Nat : \A h \in 0 .. 23 : (a * 24 + h) \div 24 = a
OBVIOUS

LEMMA NewMonth == \A a \in Nat : \A m \in Nat \ {0} : (a + 1) % m = 0 => (a + 1) \div m # a \div m
OBVIOUS

LEMMA DayTyped == \A d \in Nat \ {0} : d - 1 \in Nat /\ (d + 1) - 1 = (d - 1) + 1
OBVIOUS

\* The first of a month, before the review's hour is over, has had no review.
LEMMA FirstOfMonth ==
  ASSUME TypeOK, ReviewKnows, NextHour, Date' = 1, hour' <= ReviewHour
  PROVE  reviews' = 0
<1>1. /\ day \in Nat \ {0} /\ hour \in 0 .. 23 /\ Hours \subseteq 0 .. 23 /\ Hours # {}
      /\ MonthDays \in Nat \ {0}
  BY TimeTyped, ConstantsAssumption
<1>2. CASE {h \in Hours : h > hour} # {}
  <2>1. day' = day /\ hour' \in {h \in Hours : h > hour}
    BY <1>1, <1>2, FirstHour DEF NextHour
  <2>2. Date = 1 /\ hour < ReviewHour
    BY <1>1, <2>1 DEF Date, ReviewHour
  <2>q. QED
    BY <2>2 DEF ReviewKnows, NextHour
<1>3. CASE {h \in Hours : h > hour} = {}
  <2>1. day' = day + 1 /\ hour' \in Hours
    BY <1>1, <1>3, FirstHour DEF NextHour
  <2>2. PICK a \in Nat : a = day - 1
    BY <1>1, DayTyped
  <2>3. day' - 1 = a + 1 /\ (a + 1) % MonthDays = 0
    <3>1. day' - 1 = a + 1
      BY <1>1, <2>1, <2>2, DayTyped
    <3>2. (a + 1) % MonthDays \in Nat
      BY <1>1
    <3>q. QED
      BY <3>1, <3>2 DEF Date
  <2>4. Month(Now) = a \div MonthDays
    <3>1. Now = a * 24 + hour
      BY <2>2 DEF Now
    <3>q. QED
      BY <1>1, <3>1, DayOfHour DEF Month
  <2>5. Month(Now)' = (a + 1) \div MonthDays
    <3>1. Now' = (a + 1) * 24 + hour' /\ hour' \in 0 .. 23
      BY <1>1, <2>1, <2>3 DEF Now
    <3>2. a + 1 \in Nat
      OBVIOUS
    <3>q. QED
      BY <1>1, <3>1, <3>2, DayOfHour DEF Month
  <2>6. Month(Now)' # Month(Now)
    BY <1>1, <2>3, <2>4, <2>5, NewMonth
  <2>q. QED
    BY <2>6 DEF NextHour, Month
<1>q. QED
  BY <1>2, <1>3

\* The review is sent once a month, on the first, unless it was answered.
LEMMA ReviewNext ==
  ASSUME TypeOK, "review" \notin lost => ReviewKnows, [Next]_vars, "review" \notin lost'
  PROVE  ReviewKnows'
<1>1. /\ ReviewKnows /\ RunsOK /\ job["review"] \in RunRecord /\ HistoryOK /\ reviews \in Nat
      /\ Now \in Nat /\ ackAt \in Nat \cup {None} /\ snoozeUntil \in Nat /\ None \notin Nat
  BY BoundsNext, TypeParts, Later, ConstantsAssumption DEF RunsOK, Runs, MemoryOK, HistoryOK, Time
<1>2. CASE Acknowledge \/ Snooze
  <2>1. UNCHANGED <<job, reviews, day, hour>> /\ Now' = Now
    BY <1>2 DEF Acknowledge, Snooze, Answer, clock, history, told, reviewed, Now
  <2>2. Answered'
    <3>1. CASE Acknowledge
      BY <1>1, <2>1, <3>1 DEF Acknowledge, Answer, Answered
    <3>2. CASE Snooze
      BY <1>1, <2>1, <3>2 DEF Snooze, Answer, Answered, SnoozeHours
    <3>q. QED
      BY <1>2, <3>1, <3>2
  <2>q. QED
    BY <1>1, <2>1, <2>2 DEF ReviewKnows, ReviewTime, Date
<1>3. CASE ReviewTick
  <2>1. /\ job["review"].pc = "idle" /\ ReviewTime /\ Now' = Now
        /\ UNCHANGED <<reviews, day, hour, ackAt, snoozeUntil>>
    BY <1>1, <1>3 DEF ReviewTick, Tick, memory, history, told, reviewed, Now, RunsOK, Runs
  <2>2. Date' = Date /\ ReviewTime' /\ Answered' = Answered
    BY <2>1 DEF ReviewTime, Date, Answered
  <2>3. CASE Answered
    <3>1. job' = job
      BY <1>3, <2>3 DEF ReviewTick, Answered
    <3>q. QED
      BY <1>1, <2>1, <2>2, <2>3, <3>1 DEF ReviewKnows
  <2>4. CASE ~Answered
    <3>1. PICK rec : rec = [NoRun EXCEPT !.pc = "send", !.snooze = snoozeUntil]
      OBVIOUS
    <3>2. job' = [job EXCEPT !["review"] = rec] /\ rec.pc = "send"
      BY <1>3, <2>4, <3>1 DEF ReviewTick, NoRun, Answered
    <3>3. job'["review"] = rec
      BY <1>1, <3>2 DEF RunsOK, Runs
    <3>4. reviews = 0
      BY <1>1, <2>1, <2>4 DEF ReviewKnows
    <3>q. QED
      BY <1>1, <2>1, <2>2, <3>2, <3>3, <3>4 DEF ReviewKnows
  <2>q. QED
    BY <2>3, <2>4
<1>4. CASE ReviewSend
  <2>1. job["review"].pc = "send" /\ reviews' = reviews + 1 /\ UNCHANGED <<day, hour>>
    BY <1>4 DEF ReviewSend, Refused, clock
  <2>2. job'["review"].pc = "mark"
    BY <1>1, <1>4 DEF ReviewSend, RunsOK, Runs, RunRecord
  <2>3. reviews = 0 /\ ReviewTime /\ ReviewTime' /\ hour' = ReviewHour
    BY <1>1, <2>1 DEF ReviewKnows, ReviewTime, Date
  <2>q. QED
    BY <2>1, <2>2, <2>3 DEF ReviewKnows, ReviewHour
<1>5. CASE ReviewMark
  <2>1. /\ job["review"].pc = "mark" /\ job'["review"] = NoRun /\ ackAt' = Now /\ Now' = Now
        /\ UNCHANGED <<reviews, day, hour>>
    BY <1>1, <1>5 DEF ReviewMark, RunsOK, Runs, clock, history, told, reviewed, Now
  <2>2. Answered' /\ Date' = Date
    BY <1>1, <2>1 DEF Answered, Date
  <2>q. QED
    BY <1>1, <2>1, <2>2 DEF ReviewKnows, NoRun
<1>6. CASE NextHour
  <2>1. /\ job' = job /\ job["review"].pc = "idle" /\ ticked' = {} /\ reviews' \in {0, reviews}
    BY <1>1, <1>6 DEF NextHour, NothingInFlight, RunsOK, Runs
  <2>2. Date' = 1 /\ hour' <= ReviewHour => reviews' = 0
    BY <1>1, <1>6, FirstOfMonth
  <2>3. hour' \in Nat /\ reviews' <= 1
    <3>1. hour' \in Hours /\ Hours \subseteq 0 .. 23
      BY TypeNext, ConstantsAssumption DEF TypeOK
    <3>2. reviews' <= 1
      BY <1>1, <2>1 DEF ReviewKnows
    <3>q. QED
      BY <3>1, <3>2
  <2>4. ReviewTime' => reviews' = 0
    BY <2>2, <2>3 DEF ReviewTime, ReviewHour
  <2>5. Date' = 1 /\ hour' < ReviewHour => reviews' = 0
    BY <2>2, <2>3 DEF ReviewHour
  <2>q. QED
    BY <2>1, <2>3, <2>4, <2>5 DEF ReviewKnows
<1>7. CASE Restart
  <2>1. /\ job["review"].pc = "idle" /\ job'["review"].pc = "idle" /\ ticked' = {}
        /\ UNCHANGED <<reviews, ackAt, snoozeUntil, day, hour>>
    BY <1>1, <1>7 DEF Restart, RunsOK, Runs, NoRun, reviewed
  <2>q. QED
    BY <1>1, <2>1 DEF ReviewKnows, Answered, ReviewTime, Date, Now
<1>8. CASE \/ TicketStep \/ NagTick \/ (\E o \in Owners : NagSend(o)) \/ NagMark
           \/ DigestTick \/ DigestSend \/ DigestMark \/ SlaTick \/ P0Tick \/ CloseWindow \/ UNCHANGED vars
  <2>1. UNCHANGED <<reviews, ackAt, snoozeUntil, day, hour>>
    BY <1>8, TablesNext DEF NagTick, NagSend, NagMark, DigestTick, DigestSend, DigestMark,
       SlaTick, P0Tick, CloseWindow, vars, memory, history, told, reviewed, clock
  <2>2. "review" \in ticked' <=> "review" \in ticked
    BY <1>8, TablesNext DEF NagTick, NagSend, NagMark, DigestTick, DigestSend, DigestMark,
       SlaTick, P0Tick, CloseWindow, vars, clock, Tick
  <2>3. job'["review"] = job["review"]
    BY <1>1, <1>8, TablesNext DEF NagTick, NagSend, NagMark, DigestTick, DigestSend, DigestMark,
       SlaTick, P0Tick, CloseWindow, vars, RunsOK, Runs
  <2>q. QED
    BY <1>1, <2>1, <2>2, <2>3 DEF ReviewKnows, Answered, ReviewTime, Date, Now
<1>q. QED
  BY <1>2, <1>3, <1>4, <1>5, <1>6, <1>7, <1>8 DEF Next, World, TicketStep, Run

LEMMA InvNext == Inv /\ [Next]_vars => Inv'
<1> SUFFICES ASSUME Inv, [Next]_vars PROVE Inv'
  OBVIOUS
<1>1. /\ TypeOK /\ StillSo /\ Past /\ ClocksTrail
      /\ NagKnows
      /\ "digest" \notin lost => DigestKnows
      /\ "review" \notin lost => ReviewKnows
      /\ "p0" \notin lost => P0Knows
  BY DEF Inv
<1>2. TypeOK' /\ StillSo' /\ Past' /\ ClocksTrail'
  BY <1>1, TypeNext, StillNext, PastNext, ClocksNext
<1>3. NagKnows'
  BY <1>1, NagNext
<1>4. "digest" \notin lost' => DigestKnows'
  BY <1>1, DigestNext
<1>5. "review" \notin lost' => ReviewKnows'
  BY <1>1, ReviewNext
<1>6. "p0" \notin lost' => P0Knows'
  BY <1>1, P0Next
<1>q. QED
  BY <1>2, <1>3, <1>4, <1>5, <1>6 DEF Inv

-----------------------------------------------------------------------------
(* The theorems.                                                           *)

\* Every variable keeps its type, whatever the jobs, the tickets and the clock do.
THEOREM TypeCorrect == Spec => []TypeOK
<1>1. Init => TypeOK
  BY InitTyped
<1>2. TypeOK /\ [Next]_vars => TypeOK'
  BY TypeNext
<1>q. QED
  BY <1>1, <1>2, PTL DEF Spec

\* Each loop knows, from its memory and its run in flight, what it has told, and a
\* clock has run no further than its ticket waited: the inductive invariant.
THEOREM MemoryTrue == Spec => []Inv
<1>1. Init => Inv
  BY InitInv
<1>2. Inv /\ [Next]_vars => Inv'
  BY InvNext
<1>q. QED
  BY <1>1, <1>2, PTL DEF Spec

\* urgent_nag.py: whoever has a ticket that was his and urgent from the start of the
\* hour is reminded in it, whoever else's message is refused and however owners change;
\* and nobody more than once for each start of the process in the hour.
THEOREM NagAlwaysOnTheHour == Spec => NagOnTheHour
<1> DEFINE Told == \A o \in Owners :
                     /\ nags[o] <= 1 + restarts
                     /\ ("nag" \in ticked /\ \E t \in Tickets : <<t, o>> \in urgentSince) =>
                          (nags[o] > 0 \/ o \in refused)
<1>1. Inv /\ [Next]_vars => (late' /\ ~late /\ NagTime => Told)
  <2> SUFFICES ASSUME Inv, [Next]_vars, late', ~late, NagTime PROVE Told
    OBVIOUS
  <2>1. NagKnows /\ StillSo /\ TypeOK
    BY DEF Inv
  <2>2. CloseWindow
    BY TablesNext, <2>1 DEF Next, World, Log, SetStatus, SetLane, SetOwner, SetDeadline, SetPriority, Spread,
       Change, Acknowledge, Snooze, Answer, Run, NagTick, NagSend, NagMark, DigestTick, DigestSend, DigestMark,
       ReviewTick, ReviewSend, ReviewMark, SlaTick, P0Tick, Restart, NextHour, vars, clock
  <2>3. job["nag"].pc = "idle"
    BY <2>1, <2>2, TypeParts DEF CloseWindow, NothingInFlight, RunsOK, Runs
  <2>4. \A o \in Owners : nags[o] <= 1 + restarts
    BY <2>1 DEF NagKnows
  <2>5. ASSUME NEW o \in Owners, NEW t \in Tickets, "nag" \in ticked, <<t, o>> \in urgentSince
        PROVE  nags[o] > 0 \/ o \in refused
    <3>1. fired = Now
      BY <2>1, <2>3, <2>5 DEF NagKnows
    <3>q. QED
      BY <2>1, <2>5, <3>1 DEF NagKnows, Served
  <2>q. QED
    BY <2>4, <2>5
<1>2. Spec => []Inv
  BY MemoryTrue
<1>3. Spec => [][late' /\ ~late /\ NagTime => Told]_vars
  BY <1>1, <1>2, PTL DEF Spec
<1>q. QED
  BY <1>3 DEF NagOnTheHour

\* open_tickets_digest.py: at 10 and at 17, what was due all hour is listed, and once,
\* a restart in the hour or not, unless Slack refused or the restart came in its midst.
THEOREM DueAlwaysTold == Spec => DueIsTold
<1> DEFINE Told == digests <= 1 /\ (dueSince \subseteq listed)
<1>1. Inv /\ [Next]_vars => (hour' # hour /\ hour \in FireHours /\ "digest" \notin lost => Told)
  <2> SUFFICES ASSUME Inv, [Next]_vars, hour' # hour, hour \in FireHours, "digest" \notin lost PROVE Told
    OBVIOUS
  <2>1. DigestKnows /\ TypeOK
    BY DEF Inv
  <2>2. NextHour
    BY <2>1, ClockNext
  <2>3. "digest" \in ticked /\ job["digest"].pc = "idle"
    BY <2>1, <2>2, TypeParts DEF NextHour, NothingInFlight, RunsOK, Runs
  <2>q. QED
    BY <2>1, <2>3 DEF DigestKnows
<1>2. Spec => []Inv
  BY MemoryTrue
<1>3. Spec => [][hour' # hour /\ hour \in FireHours /\ "digest" \notin lost => Told]_vars
  BY <1>1, <1>2, PTL DEF Spec
<1>q. QED
  BY <1>3 DEF DueIsTold

\* monthly_review.py: the review comes on the first and once a month, unless it was
\* answered this month or snoozed until later.
THEOREM ReviewAlwaysOnceAMonth == Spec => ReviewOnceAMonth
<1> DEFINE Once == /\ reviews <= 1
                   /\ ReviewTime => \/ reviews = 1 \/ Now < snoozeUntil
                                    \/ ackAt # None /\ Month(ackAt) = Month(Now)
<1>1. Inv /\ [Next]_vars => (hour' # hour /\ "review" \notin lost => Once)
  <2> SUFFICES ASSUME Inv, [Next]_vars, hour' # hour, "review" \notin lost PROVE Once
    OBVIOUS
  <2>1. ReviewKnows /\ TypeOK
    BY DEF Inv
  <2>2. NextHour
    BY <2>1, ClockNext
  <2>3. (ReviewTime => "review" \in ticked) /\ job["review"].pc = "idle"
    BY <2>1, <2>2, TypeParts DEF NextHour, NothingInFlight, RunsOK, Runs
  <2>q. QED
    BY <2>1, <2>3 DEF ReviewKnows, Answered
<1>2. Spec => []Inv
  BY MemoryTrue
<1>3. Spec => [][hour' # hour /\ "review" \notin lost => Once]_vars
  BY <1>1, <1>2, PTL DEF Spec
<1>q. QED
  BY <1>3 DEF ReviewOnceAMonth

\* p0_scan.py: a ticket that was a P0 candidate all hour has been flagged to somebody,
\* the process restarted or not, unless Slack refused.
THEOREM CandidatesAlwaysTold == Spec => CandidatesTold
<1>1. Inv /\ [Next]_vars => (hour' # hour /\ "p0" \notin lost => spreadSince \subseteq candidates)
  <2> SUFFICES ASSUME Inv, [Next]_vars, hour' # hour, "p0" \notin lost PROVE spreadSince \subseteq candidates
    OBVIOUS
  <2>1. P0Knows /\ TypeOK
    BY DEF Inv
  <2>2. NextHour
    BY <2>1, ClockNext
  <2>q. QED
    BY <2>1, <2>2 DEF NextHour, P0Knows
<1>2. Spec => []Inv
  BY MemoryTrue
<1>3. Spec => [][hour' # hour /\ "p0" \notin lost => spreadSince \subseteq candidates]_vars
  BY <1>1, <1>2, PTL DEF Spec
<1>q. QED
  BY <1>3 DEF CandidatesTold

\* sla/targets.py: a clock goes back only when its target has become longer, over
\* any sequence of scans, answers and changes of priority and status.
THEOREM ClocksAlwaysRise == Spec => ClocksOnlyRise
<1> DEFINE Rise == \A t \in Tickets, s \in Stages :
                     clocks'[t][s].state < clocks[t][s].state =>
                       clocks'[t][s].target > clocks[t][s].target
<1>1. Inv /\ [Next]_vars => Rise
  <2> SUFFICES ASSUME Inv, [Next]_vars, NEW t \in Tickets, NEW s \in Stages,
                      clocks'[t][s].state < clocks[t][s].state
               PROVE  clocks'[t][s].target > clocks[t][s].target
    OBVIOUS
  <2>1. TypeOK /\ ClocksTrail /\ clocks[t][s].state \in Nat
    BY TypeParts DEF Inv, MemoryOK, Clock
  <2>2. CASE SlaTick
    <3>1. clocks'[t][s] = ScannedClock(t, s)
      BY <2>2 DEF SlaTick
    <3>q. QED
      BY <2>1, <3>1, Scanned
  <2>3. CASE UNCHANGED clocks
    BY <2>1, <2>3
  <2>q. QED
    BY <2>1, <2>2, <2>3, ClocksOnlyScanned
<1>2. Spec => []Inv
  BY MemoryTrue
<1>3. Spec => [][Rise]_vars
  BY <1>1, <1>2, PTL DEF Spec
<1>q. QED
  BY <1>3 DEF ClocksOnlyRise
=============================================================================

----------------------------- MODULE Reminders ------------------------------
(***************************************************************************)
(* The jobs that watch the clock.                                          *)
(*                                                                         *)
(* Five loops wake up every few minutes: the hourly nag about urgent       *)
(* tickets, the digest of what is due at 10 and at 17, the monthly review  *)
(* of the priority matrix, the SLA clocks and the scan for P0 candidates.  *)
(* Each decides from the hour, the tickets and what it remembers whether   *)
(* there is something to do; the nag and the P0 scan remember in memory,   *)
(* the others in the database.  People work on the tickets meanwhile, and  *)
(* answer the review with Acknowledged or Snooze.                          *)
(*                                                                         *)
(* Time goes from one hour of interest to the next, and only when every    *)
(* loop that cares for the hour has run in it: their periods are shorter.  *)
(* The SE's time zone is UTC.  Texts are left out.                         *)
(***************************************************************************)
EXTENDS Naturals, FiniteSets

CONSTANTS
  Tickets,
  Owners,
  MainSE,       \* the configured SE, who is told of a ticket that has no owner
  None,
  Hours,        \* the hours of interest, from 0 to 23
  NagHours,     \* those within the nag's working day
  MonthDays,    \* how long a month is
  FirstWeekday, \* 0 is a Monday
  Horizon,      \* bound: the last day
  Targets,      \* SLA targets in hours, by priority and stage; None where nothing is promised
  UrgentPriority,   \* what an urgent ticket is logged with
  MaxExtra,     \* bound: how often a loop runs again in the same hour
  MaxWorld,     \* bound: what happens to the tickets and the review
  MaxFaults     \* bound: refused messages and restarts

Stages == {"first_response", "status_update", "resolution"}
FireHours == {10, 17}
ReviewHour == 9
P0Window == 6
SnoozeHours == 7 * 24

ASSUME ConstantsAssumption ==
  /\ Hours \subseteq 0 .. 23 /\ NagHours \subseteq Hours /\ IsFiniteSet(Hours) /\ Hours # {}
  /\ MonthDays \in Nat \ {0} /\ Horizon \in Nat \ {0} /\ FirstWeekday \in 0 .. 6
  /\ MaxExtra \in Nat /\ MaxWorld \in Nat /\ MaxFaults \in Nat
  /\ DOMAIN Targets # {} /\ \A p \in DOMAIN Targets : Targets[p] \in [Stages -> Nat \cup {None}]
  /\ UrgentPriority \in DOMAIN Targets
  /\ MainSE \in Owners /\ None \notin Owners /\ None \notin Nat

Priorities == DOMAIN Targets
Jobs == {"nag", "digest", "review", "sla", "p0"}

VARIABLES
  day, hour,    \* what the clock shows
  late,         \* are the first five minutes of the hour over
  ticked,       \* the loops that ran in this hour
  job,          \* the runs in flight of the nag, the digest and the review
  tickets,      \* the tickets that were logged
  fired,        \* UrgentNagJob._last_fired
  flagged,      \* P0CandidateScan._already_flagged
  digestAt,     \* weekly_digest_state.last_fired_at
  ackAt, snoozeUntil,   \* prio_matrix_review_state
  clocks,       \* sla_dm_state: 1 is green, 2 amber, 3 red, 0 no row; and its target
  nags, refused, restarts, digests, listed,   \* in this hour: the reminders by owner, the
                \* owners whose reminder Slack refused, the restarts, the digests, their tickets
  reviews, asked, candidates,   \* the reviews sent this month, whether there ever was one,
                \* the tickets that were flagged to somebody
  urgentSince,  \* the urgent tickets, with whom they belong to, that have been so all hour
  dueSince, spreadSince,   \* the tickets that have been so all hour
  lost,         \* the jobs that lost a message or their memory
  extra, world, faults  \* bounds

clock == <<day, hour, late, ticked>>
memory == <<fired, flagged, digestAt, ackAt, snoozeUntil, clocks>>
reminded == <<nags, refused, restarts>>
reviewed == <<reviews, asked>>
told == <<reminded, digests, listed, reviewed, candidates>>
since == <<urgentSince, dueSince, spreadSince>>
history == <<told, since>>
bounds == <<lost, extra, world, faults>>
vars == <<clock, job, tickets, memory, history, bounds>>

\* Hours since the beginning.
Time == Nat
Now == (day - 1) * 24 + hour
Date == ((day - 1) % MonthDays) + 1
Month(time) == (time \div 24) \div MonthDays
Weekend == (day - 1 + FirstWeekday) % 7 \in {5, 6}

Statuses == {"none", "new", "in-progress", "awaiting-customer", "resolved"}
Ticket == [status: Statuses, urgent: BOOLEAN, lane: {"SE", "Dev"}, owner: Owners \cup {None},
           deadline: Time, priority: Priorities, created: Time, responded: Time \cup {None},
           spread: BOOLEAN]
Unlogged == [status |-> "none", urgent |-> FALSE, lane |-> "SE", owner |-> None,
             deadline |-> 0, priority |-> CHOOSE p \in Priorities : TRUE, created |-> 0,
             responded |-> None, spread |-> FALSE]

NoRun == [pc |-> "idle", owners |-> {}, list |-> {}, snooze |-> 0]

TypeOK ==
  /\ day \in 1 .. Horizon /\ hour \in Hours /\ late \in BOOLEAN /\ ticked \in SUBSET Jobs
  /\ job \in [{"nag", "digest", "review"} ->
                [pc: {"idle", "send", "mark"}, owners: SUBSET Owners, list: SUBSET Tickets,
                 snooze: Time]]
  /\ tickets \in [Tickets -> Ticket]
  /\ fired \in Time \cup {None} /\ digestAt \in Time \cup {None}
  /\ ackAt \in Time \cup {None} /\ snoozeUntil \in Time
  /\ flagged \in SUBSET Tickets
  /\ clocks \in [Tickets -> [Stages -> [state: 0 .. 3, target: Nat]]]
  /\ nags \in [Owners -> Nat] /\ refused \in SUBSET Owners /\ restarts \in Nat
  /\ digests \in Nat /\ reviews \in Nat /\ asked \in BOOLEAN
  /\ listed \in SUBSET Tickets /\ candidates \in SUBSET Tickets
  /\ urgentSince \in SUBSET (Tickets \X Owners) /\ dueSince \in SUBSET Tickets
  /\ spreadSince \in SUBSET Tickets
  /\ lost \in SUBSET Jobs /\ extra \in Nat /\ world \in Nat /\ faults \in Nat

Init ==
  /\ day = 1 /\ hour = CHOOSE h \in Hours : \A g \in Hours : h <= g
  /\ late = FALSE /\ ticked = {}
  /\ job = [j \in {"nag", "digest", "review"} |-> NoRun]
  /\ tickets = [t \in Tickets |-> Unlogged]
  /\ fired = None /\ flagged = {} /\ digestAt = None /\ ackAt = None /\ snoozeUntil = 0
  /\ clocks = [t \in Tickets |-> [s \in Stages |-> [state |-> 0, target |-> 0]]]
  /\ nags = [o \in Owners |-> 0] /\ refused = {} /\ restarts = 0
  /\ digests = 0 /\ listed = {} /\ reviews = 0 /\ asked = FALSE
  /\ candidates = {} /\ urgentSince = {} /\ dueSince = {} /\ spreadSince = {}
  /\ lost = {} /\ extra = 0 /\ world = 0 /\ faults = 0

-----------------------------------------------------------------------------
(* The tickets.                                                            *)

\* query_live.
Live(t) == tickets[t].status \in {"new", "in-progress", "awaiting-customer"}

\* is_urgent.
Urgent(t) == tickets[t].urgent /\ tickets[t].status = "new" /\ tickets[t].lane = "SE"

\* Whom a ticket belongs to: its owner, or the configured SE.
Owner(t) == IF tickets[t].owner = None THEN MainSE ELSE tickets[t].owner

UrgentOnes == {<<t, Owner(t)>> : t \in {u \in Tickets : Urgent(u)}}

\* What the digest lists: a deadline that is today or was before.
Due(t) ==
  /\ tickets[t].status \in {"new", "in-progress"}
  /\ tickets[t].deadline # 0 /\ tickets[t].deadline <= day

\* What the P0 scan looks for, in a ticket about a critical-path feature.
Candidate(t) ==
  Live(t) /\ tickets[t].spread /\ tickets[t].priority # "P0"
  /\ Now - tickets[t].created <= P0Window

\* Something happens to a ticket: who was urgent, due or spread all hour may not be.
Change(t, r) ==
  /\ world < MaxWorld
  /\ world' = world + 1
  /\ tickets' = [tickets EXCEPT ![t] = r]
  /\ UNCHANGED <<clock, job, memory, told, lost, extra, faults>>
  /\ urgentSince' = urgentSince \cap UrgentOnes'
  /\ dueSince' = {u \in dueSince : Due(u)'}
  /\ spreadSince' = {u \in spreadSince : Candidate(u)'}

\* Of the owners and lanes, only those of urgent tickets matter here.  An urgent ticket
\* has no deadline; one of CSM Help has no owner until somebody claims it.
Log(t, o, urgent, d, p) ==
  /\ tickets[t].status = "none"
  /\ IF urgent THEN d = 0 /\ p = UrgentPriority ELSE o = None
  /\ Change(t, [status |-> "new", urgent |-> urgent, lane |-> "SE", owner |-> o, deadline |-> d,
                priority |-> p, created |-> Now, responded |-> None, spread |-> FALSE])

\* update_status, with first_response_at on the first move to in-progress.
SetStatus(t, s) ==
  /\ tickets[t].status \notin {"none", s}
  /\ Change(t, [tickets[t] EXCEPT !.status = s,
                  !.responded = IF s = "in-progress" /\ @ = None THEN Now ELSE @])

SetLane(t, l) ==
  tickets[t].urgent /\ tickets[t].lane # l /\ Change(t, [tickets[t] EXCEPT !.lane = l])

\* The owner select, an absence that moves the tickets, an assignee chosen in Linear,
\* or taken away there.
SetOwner(t, o) ==
  /\ tickets[t].urgent /\ tickets[t].owner # o
  /\ Change(t, [tickets[t] EXCEPT !.owner = o])

SetDeadline(t, d) == Live(t) /\ Change(t, [tickets[t] EXCEPT !.deadline = d])
SetPriority(t, p) == Live(t) /\ Change(t, [tickets[t] EXCEPT !.priority = p])

\* A fifth organisation joins.
Spread(t) == Live(t) /\ ~tickets[t].spread /\ Change(t, [tickets[t] EXCEPT !.spread = TRUE])

-----------------------------------------------------------------------------
(* A loop wakes up.                                                        *)

\* The nag has the first five minutes to itself: the periods of the others are longer,
\* and what they would do in them they can do after.
Tick(j) ==
  /\ late = (j # "nag")
  /\ j \in DOMAIN job => job[j].pc = "idle"
  /\ IF j \in ticked THEN extra < MaxExtra /\ extra' = extra + 1 ELSE UNCHANGED extra
  /\ ticked' = ticked \cup {j}

Refused(j) ==
  /\ faults < MaxFaults
  /\ faults' = faults + 1
  /\ lost' = lost \cup {j}

\* The nag has something to look at.
NagTime == ~Weekend /\ hour \in NagHours

\* UrgentNagJob groups the urgent tickets by owner, unless it has fired this hour.
NagTick ==
  LET owners == {Owner(t) : t \in {u \in Tickets : Urgent(u)}} IN
  /\ NagTime
  /\ Tick("nag")
  /\ job' = IF fired = Now \/ owners = {} THEN job
            ELSE [job EXCEPT !["nag"] = [NoRun EXCEPT !.pc = "send", !.owners = owners]]
  /\ UNCHANGED <<day, hour, late, tickets, memory, history, lost, world, faults>>

\* Mutant of NagSend: a refused message ends the run.
NagSendStops(o) ==
  LET rest == job["nag"].owners \ {o} IN
  /\ job["nag"].pc = "send" /\ o \in job["nag"].owners
  /\ faults' \in faults .. MaxFaults /\ faults' <= faults + 1
  /\ refused' = IF faults' = faults THEN refused ELSE refused \cup {o}
  /\ nags' = IF faults' = faults THEN [nags EXCEPT ![o] = @ + 1] ELSE nags
  /\ job' = [job EXCEPT !["nag"].owners = IF faults' = faults THEN rest ELSE {},
                        !["nag"].pc = IF faults' # faults \/ rest = {} THEN "mark" ELSE @]
  /\ UNCHANGED <<clock, tickets, memory, restarts, digests, listed, reviewed, candidates, since,
                 lost, extra, world>>

\* One message per owner; a refused one is logged, and the next one sent.
NagSend(o) ==
  /\ job["nag"].pc = "send" /\ o \in job["nag"].owners
  /\ job' = [job EXCEPT !["nag"].owners = @ \ {o},
                        !["nag"].pc = IF job["nag"].owners = {o} THEN "mark" ELSE @]
  /\ \/ nags' = [nags EXCEPT ![o] = @ + 1] /\ UNCHANGED <<refused, faults>>
     \/ /\ faults < MaxFaults /\ faults' = faults + 1
        /\ refused' = refused \cup {o} /\ UNCHANGED nags
  /\ UNCHANGED <<clock, tickets, memory, restarts, digests, listed, reviewed, candidates, since,
                 lost, extra, world>>

NagMark ==
  /\ job["nag"].pc = "mark"
  /\ fired' = Now
  /\ job' = [job EXCEPT !["nag"] = NoRun]
  /\ UNCHANGED <<clock, tickets, flagged, digestAt, ackAt, snoozeUntil, clocks, history, bounds>>

\* Mutant of DigestTick: it fires once a day.
DigestTickDaily ==
  LET list == {t \in Tickets : Due(t)} IN
  /\ hour \in FireHours
  /\ Tick("digest")
  /\ job' = IF (digestAt # None /\ digestAt \div 24 = day - 1) \/ list = {} THEN job
            ELSE [job EXCEPT !["digest"] = [NoRun EXCEPT !.pc = "send", !.list = list]]
  /\ UNCHANGED <<day, hour, late, tickets, memory, history, lost, world, faults>>

\* OpenTicketsDigestJob: what is due, unless it has fired in this window.
DigestTick ==
  LET list == {t \in Tickets : Due(t)} IN
  /\ hour \in FireHours
  /\ Tick("digest")
  /\ job' = IF digestAt = Now \/ list = {} THEN job
            ELSE [job EXCEPT !["digest"] = [NoRun EXCEPT !.pc = "send", !.list = list]]
  /\ UNCHANGED <<day, hour, late, tickets, memory, history, lost, world, faults>>

DigestSend ==
  /\ job["digest"].pc = "send"
  /\ job' = [job EXCEPT !["digest"].pc = "mark"]
  /\ \/ /\ digests' = digests + 1 /\ listed' = listed \cup job["digest"].list
        /\ UNCHANGED <<lost, faults>>
     \/ Refused("digest") /\ UNCHANGED <<digests, listed>>
  /\ UNCHANGED <<clock, tickets, memory, reminded, reviewed, candidates, since, extra, world>>

DigestMark ==
  /\ job["digest"].pc = "mark"
  /\ digestAt' = Now
  /\ job' = [job EXCEPT !["digest"] = NoRun]
  /\ UNCHANGED <<clock, tickets, fired, flagged, ackAt, snoozeUntil, clocks, history, bounds>>

ReviewTime == Date = 1 /\ hour = ReviewHour

\* MonthlyMatrixReview, unless it is snoozed or has fired this month.
ReviewTick ==
  /\ ReviewTime
  /\ Tick("review")
  /\ job' = IF Now < snoozeUntil \/ (ackAt # None /\ Month(ackAt) = Month(Now)) THEN job
            ELSE [job EXCEPT !["review"] = [NoRun EXCEPT !.pc = "send",
                                              !.snooze = snoozeUntil]]
  /\ UNCHANGED <<day, hour, late, tickets, memory, history, lost, world, faults>>

ReviewSend ==
  /\ job["review"].pc = "send"
  /\ job' = [job EXCEPT !["review"].pc = "mark"]
  /\ \/ reviews' = reviews + 1 /\ asked' = TRUE /\ UNCHANGED <<lost, faults>>
     \/ Refused("review") /\ UNCHANGED reviewed
  /\ UNCHANGED <<clock, tickets, memory, reminded, digests, listed, candidates, since, extra, world>>

\* Mutant of ReviewMark: nothing is remembered.
ReviewForget ==
  /\ job["review"].pc = "mark"
  /\ job' = [job EXCEPT !["review"] = NoRun]
  /\ UNCHANGED <<clock, tickets, memory, history, bounds>>

\* It writes the whole row back, the snooze as it was read.
ReviewMark ==
  /\ job["review"].pc = "mark"
  /\ ackAt' = Now /\ snoozeUntil' = job["review"].snooze
  /\ job' = [job EXCEPT !["review"] = NoRun]
  /\ UNCHANGED <<clock, tickets, fired, flagged, digestAt, clocks, history, bounds>>

-----------------------------------------------------------------------------
(* The SLA clocks.                                                         *)

\* applicable_stages.
Running(t) ==
  IF tickets[t].status \notin {"new", "in-progress"} THEN {}
  ELSE {"resolution", IF tickets[t].responded = None THEN "first_response" ELSE "status_update"}

\* Mutant of Reference: the resolution clock starts with the first response.
ReferenceLate(t, s) ==
  IF s = "first_response" \/ tickets[t].responded = None THEN tickets[t].created
  ELSE tickets[t].responded

\* stage_reference_time.
Reference(t, s) == IF s = "status_update" THEN tickets[t].responded ELSE tickets[t].created

\* compute_state: amber from half of the target, red from the target, so that a target
\* of nothing is red at once; and green before the reference time.
State(elapsed, target) ==
  IF 2 * elapsed < target THEN 1 ELSE IF elapsed < target THEN 2 ELSE 3

Evaluated(t, s) ==
  LET target == Targets[tickets[t].priority][s] IN
  [state |-> State(Now - Reference(t, s), target), target |-> target]

\* The row of a clock after the scan: one that does not run keeps what it had.
ScannedClock(t, s) ==
  IF s \in Running(t) /\ Targets[tickets[t].priority][s] # None THEN Evaluated(t, s)
  ELSE clocks[t][s]

\* SLAStateMachine; nobody else writes these rows, and nobody is told.
SlaTick ==
  /\ Tick("sla")
  /\ clocks' = [t \in Tickets |-> [s \in Stages |-> ScannedClock(t, s)]]
  /\ UNCHANGED <<day, hour, late, job, tickets, fired, flagged, digestAt, ackAt, snoozeUntil,
                 history, lost, world, faults>>

-----------------------------------------------------------------------------
(* The P0 candidates.                                                      *)

\* Mutant of P0Tick: a ticket that is not yet a candidate is not looked at again.
P0TickOnce ==
  LET found == {t \in Tickets \ flagged : Candidate(t)} IN
  /\ Tick("p0")
  /\ flagged' = flagged \cup {t \in Tickets : Live(t)}
  /\ \/ candidates' = candidates \cup found /\ UNCHANGED <<lost, faults>>
     \/ found # {} /\ Refused("p0") /\ UNCHANGED candidates
  /\ UNCHANGED <<day, hour, late, job, tickets, fired, digestAt, ackAt, snoozeUntil, clocks,
                 reminded, digests, listed, reviewed, since, world>>

\* P0CandidateScan: each candidate is told, and flagged even if Slack refused.
P0Tick ==
  LET found == {t \in Tickets \ flagged : Candidate(t)} IN
  /\ Tick("p0")
  /\ flagged' = flagged \cup found
  /\ \/ candidates' = candidates \cup found /\ UNCHANGED <<lost, faults>>
     \/ found # {} /\ Refused("p0") /\ UNCHANGED candidates
  /\ UNCHANGED <<day, hour, late, job, tickets, fired, digestAt, ackAt, snoozeUntil, clocks,
                 reminded, digests, listed, reviewed, since, world>>

-----------------------------------------------------------------------------
(* The SE answers the review, the process restarts, time passes.           *)

\* The buttons of any review that was ever sent.
Answer(at, until) ==
  /\ asked
  /\ world < MaxWorld /\ world' = world + 1
  /\ ackAt' = at /\ snoozeUntil' = until
  /\ UNCHANGED <<clock, job, tickets, fired, flagged, digestAt, clocks, history, lost, extra,
                 faults>>

Acknowledge == Answer(Now, 0)
Snooze == Answer(None, Now + SnoozeHours)

Restart ==
  /\ faults < MaxFaults
  /\ faults' = faults + 1
  /\ lost' = lost \cup {j \in DOMAIN job : job[j].pc # "idle"}
  /\ restarts' = restarts + 1
  /\ job' = [j \in DOMAIN job |-> NoRun]
  /\ fired' = None /\ flagged' = {}
  /\ ticked' = {}
  /\ UNCHANGED <<day, hour, late, tickets, digestAt, ackAt, snoozeUntil, clocks, nags, refused,
                 digests, listed, reviewed, candidates, since, extra, world>>

NothingInFlight == \A j \in DOMAIN job : job[j].pc = "idle"

\* The first five minutes are over; after a restart the loop may not have run again.
CloseWindow ==
  /\ ~late /\ NothingInFlight
  /\ NagTime => "nag" \in ticked \/ restarts > 0
  /\ late' = TRUE
  /\ UNCHANGED <<day, hour, ticked, job, tickets, memory, history, bounds>>

NextHour ==
  LET later == {h \in Hours : h > hour}
      first == CHOOSE h \in Hours : \A g \in Hours : h <= g IN
  /\ late /\ NothingInFlight
  /\ hour \in FireHours => "digest" \in ticked
  /\ ReviewTime => "review" \in ticked
  /\ {"sla", "p0"} \subseteq ticked
  /\ IF later # {}
       THEN hour' = (CHOOSE h \in later : \A g \in later : h <= g) /\ day' = day
       ELSE day < Horizon /\ day' = day + 1 /\ hour' = first
  /\ late' = FALSE /\ ticked' = {}
  /\ lost' = lost \ {"digest"}
  /\ UNCHANGED <<job, tickets, memory, asked, candidates, extra, world, faults>>
  /\ nags' = [o \in Owners |-> 0] /\ refused' = {} /\ restarts' = 0 /\ digests' = 0 /\ listed' = {}
  /\ reviews' = IF Month(Now') = Month(Now) THEN reviews ELSE 0
  /\ urgentSince' = UrgentOnes
  /\ dueSince' = {t \in Tickets : Due(t)'}
  /\ spreadSince' = {t \in Tickets : Candidate(t)'}

-----------------------------------------------------------------------------
World ==
  \/ \E t \in Tickets, o \in Owners \cup {None}, urgent \in BOOLEAN, d \in {0, day},
        p \in Priorities : Log(t, o, urgent, d, p)
  \/ \E t \in Tickets, s \in Statuses \ {"none"} : SetStatus(t, s)
  \/ \E t \in Tickets, l \in {"SE", "Dev"} : SetLane(t, l)
  \/ \E t \in Tickets, o \in Owners \cup {None} : SetOwner(t, o)
  \/ \E t \in Tickets, d \in {day, day + 1} : SetDeadline(t, d)
  \/ \E t \in Tickets, p \in Priorities : SetPriority(t, p)
  \/ \E t \in Tickets : Spread(t)
  \/ Acknowledge \/ Snooze

Run ==
  \/ NagTick \/ (\E o \in Owners : NagSend(o)) \/ NagMark
  \/ DigestTick \/ DigestSend \/ DigestMark
  \/ ReviewTick \/ ReviewSend \/ ReviewMark
  \/ SlaTick \/ P0Tick

Next == World \/ Run \/ Restart \/ CloseWindow \/ NextHour

Spec == Init /\ [][Next]_vars

-----------------------------------------------------------------------------
(* Properties.                                                             *)

\* urgent_nag.py: whoever has a ticket that is his and urgent from the start of the
\* hour until the window closes has been reminded in it, unless Slack refused him his
\* own message, or the process has restarted and the loop did not run again in time;
\* and "a restart mid-hour can at worst re-fire once for that hour".
NagOnTheHour ==
  [][(late' /\ ~late /\ NagTime) =>
       \A o \in Owners :
         /\ nags[o] <= 1 + restarts
         /\ ("nag" \in ticked /\ \E t \in Tickets : <<t, o>> \in urgentSince) =>
              (nags[o] > 0 \/ o \in refused)]_vars

\* open_tickets_digest.py: what is due when the window opens, and all through it,
\* is listed at 10 and at 17, unless that digest was refused or cut short; "a process
\* restart inside a fire hour doesn't re-send the digest".
DueIsTold ==
  [][(hour' # hour /\ hour \in FireHours /\ "digest" \notin lost) =>
       (digests <= 1 /\ (dueSince \subseteq listed))]_vars

\* monthly_review.py: the review comes on the first, once a month, unless the SE
\* has answered the last one this month or snoozed it until later.
ReviewOnceAMonth ==
  [][(hour' # hour /\ "review" \notin lost) =>
       /\ reviews <= 1
       /\ ReviewTime => \/ reviews = 1 \/ Now < snoozeUntil
                        \/ ackAt # None /\ Month(ackAt) = Month(Now)]_vars

\* p0_scan.py: a ticket that was a candidate all hour has been flagged to somebody.
CandidatesTold ==
  [][(hour' # hour /\ "p0" \notin lost) => (spreadSince \subseteq candidates)]_vars

\* targets.py, "RED -> AMBER shouldn't happen": a clock goes back only when its
\* target has become longer.
ClocksOnlyRise ==
  [][\A t \in Tickets, s \in Stages :
       clocks'[t][s].state < clocks[t][s].state =>
         clocks'[t][s].target > clocks[t][s].target]_vars
=============================================================================

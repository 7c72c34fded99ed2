---------------------------- MODULE TriageProofs ----------------------------
(***************************************************************************)
(* Theorems about Triage for any tickets, organisations and handlers.      *)
(***************************************************************************)
EXTENDS Triage, FiniteSetTheorems, TLAPS

\* The tables, and the handlers in flight.
TablesOK ==
  /\ row \in [Tickets -> Row]
  /\ orgs \in [Tickets -> SUBSET Orgs]
  /\ csm \in [Orgs -> Csms \cup {None}]
  /\ card \in [Tickets -> View]
  /\ linear \in [Tickets -> [priority: 1 .. 4, labels: SUBSET Types]]
  /\ logged \in [Tickets -> [priority: Priorities, type: Types]]
  /\ buttons \in SUBSET [ticket: Tickets, priority: Priorities]
  /\ best \in [Tickets -> Priorities]
TasksOK ==
  /\ task \in [Tasks -> TaskRecord]
  /\ \A k \in Tasks : SlotOK(task[k])
BoundsOK == raced \in BOOLEAN /\ runs \in Nat /\ faults \in Nat

LEMMA TypeParts == TypeOK <=> TablesOK /\ TasksOK /\ BoundsOK
BY DEF TypeOK, TablesOK, TasksOK, BoundsOK

-----------------------------------------------------------------------------
(* The values that the model is built from.                                *)

LEMMA BugSubtypes ==
  /\ "bug" \in Types
  /\ SubtypesFor["bug"] = {"platform-wide", "customer-specific"}
  /\ \A y \in Types : SubtypesFor[y] \subseteq Subtypes
BY DEF SubtypesFor, Types, Subtypes

LEMMA NoRowTyped == NoRow \in Row
BY BugSubtypes DEF NoRow, Row, Priorities

LEMMA NoTaskTyped == SlotOK(NoTask) /\ NoTask.pc = "idle"
<1>1. [row |-> NoRow, orgs |-> {}, csms |-> {}] \in View
  BY NoRowTyped DEF View
<1>2. NoTask \in TaskRecord /\ NoTask.pc = "idle"
  BY <1>1, NoRowTyped DEF NoTask, TaskRecord, PCs
<1>q. QED
  BY <1>2 DEF SlotOK

LEMMA ToLinearTyped == ToLinear \in [Priorities -> 1 .. 4]
BY DEF ToLinear, Priorities

\* Whatever the customer and the matrix, a bug is logged with P1 to P4.
LEMMA AssignedTyped ==
  ASSUME NEW o, NEW s \in Severities
  PROVE  Assigned(o, s) \in 1 .. 4
<1>1. CustomerWeight(o) \in Weights
  BY DEF CustomerWeight, Weights
<1>2. \A w \in Weights : DefaultCells[w][s] \in 1 .. 4
  BY DEF Weights, Severities, DefaultCells
<1>q. QED
  BY <1>1, <1>2 DEF Assigned

LEMMA LookupTyped ==
  ASSUME NEW w \in Weights, NEW s \in Severities, NEW f \in Files(w, s)
  PROVE  Lookup(f, w, s) \in 1 .. 4
<1>1. CASE <<w, s>> \in DOMAIN f
  <2>1. f # <<>>
    BY <1>1
  <2>2. PICK entry \in 0 .. 5 : f \in [{<<w, s>>} -> {entry}]
    BY <2>1 DEF Files
  <2>3. f[<<w, s>>] \in 0 .. 5
    BY <2>2
  <2>4. LoadCell(f[<<w, s>>]) \in 1 .. 4
    BY <2>3 DEF LoadCell
  <2>q. QED
    BY <1>1, <2>4 DEF Lookup
<1>2. CASE <<w, s>> \notin DOMAIN f
  BY <1>2 DEF Lookup
<1>q. QED
  BY <1>1, <1>2

\* tests/.../test_matrix.py: "P0 must never be assigned by the matrix".
THEOREM MatrixNeverP0 == LoggedWith \subseteq 1 .. 4
BY AssignedTyped, LookupTyped DEF LoggedWith

\* A customer with any renewal date, not only those around the thresholds.
Customer == [acv: DOMAIN AcvWeight, sentiment: DOMAIN SentimentMultiplier,
             renewal: DOMAIN RenewalMultiplier, days: {{}} \cup {{d} : d \in Int}]

LEMMA Factors ==
  ASSUME NEW o \in Customer
  PROVE  /\ AcvWeight[o.acv] \in Nat
         /\ SentimentMultiplier[o.sentiment] \in Nat
         /\ RenewalMultiplier[o.renewal] \in Nat
         /\ RenewalFactor(o) \in Nat
         /\ o.days = {} => RenewalFactor(o) = RenewalMultiplier[o.renewal]
         /\ \A d \in Int : o.days = {d} => RenewalFactor(o) = RenewalProximity(d)
<1>1. /\ o.acv \in {"unknown", "small", "mid", "large", "enterprise"}
      /\ o.sentiment \in {"positive", "neutral", "unknown", "negative"}
      /\ o.renewal \in {"committed", "stable", "unknown", "at_risk"}
      /\ o.days = {} \/ \E d \in Int : o.days = {d}
  BY DEF Customer, AcvWeight, SentimentMultiplier, RenewalMultiplier
<1>2. AcvWeight[o.acv] \in Nat
  BY <1>1 DEF AcvWeight
<1>3. SentimentMultiplier[o.sentiment] \in Nat
  BY <1>1 DEF SentimentMultiplier
<1>4. RenewalMultiplier[o.renewal] \in Nat
  BY <1>1 DEF RenewalMultiplier
<1>5. o.days = {} => RenewalFactor(o) = RenewalMultiplier[o.renewal]
  BY DEF RenewalFactor
<1>6. ASSUME NEW d \in Int, o.days = {d} PROVE RenewalFactor(o) = RenewalProximity(d)
  <2>1. RenewalFactor(o) = CHOOSE m \in {RenewalProximity(e) : e \in {d}} : TRUE
    BY <1>6 DEF RenewalFactor
  <2>2. {RenewalProximity(e) : e \in {d}} = {RenewalProximity(d)}
    OBVIOUS
  <2>q. QED
    BY <2>1, <2>2
<1>7. RenewalFactor(o) \in Nat
  BY <1>1, <1>4, <1>5, <1>6 DEF RenewalProximity
<1>q. QED
  BY <1>2, <1>3, <1>4, <1>5, <1>6, <1>7

LEMMA Products ==
  \A a, b, c, d \in Nat : a >= b /\ c >= d => a * c >= b * d /\ a * c \in Nat /\ b * d \in Nat
<1>1. SUFFICES ASSUME NEW a \in Nat, NEW b \in Nat, NEW c \in Nat, NEW d \in Nat, a >= b, c >= d
               PROVE  a * c >= b * d /\ a * c \in Nat /\ b * d \in Nat
  OBVIOUS
<1>2. PICK e \in Nat, f \in Nat : a = b + e /\ c = d + f
  <2>1. a - b \in Nat /\ c - d \in Nat /\ a = b + (a - b) /\ c = d + (c - d)
    BY <1>1
  <2>q. QED
    BY <2>1
<1>3. a * c = b * d + b * f + e * d + e * f
  BY <1>2
<1>4. b * d \in Nat /\ b * f \in Nat /\ e * d \in Nat /\ e * f \in Nat
  OBVIOUS
<1>q. QED
  BY <1>3, <1>4

Score(o) == AcvWeight[o.acv] * SentimentMultiplier[o.sentiment] * RenewalFactor(o)

\* The nearer a renewal, the more it counts.
LEMMA ScoreRises ==
  ASSUME NEW o \in Customer, NEW p \in Customer, AtLeast(o, p)
  PROVE  Score(o) \in Nat /\ Score(p) \in Nat /\ Score(p) <= Score(o)
<1>1. RenewalFactor(o) >= RenewalFactor(p)
  <2>1. CASE o.days = {} /\ p.days = {}
    BY <2>1, Factors DEF AtLeast
  <2>2. CASE \E d \in o.days : \E e \in p.days : d <= e
    <3>1. PICK d \in Int, e \in Int : o.days = {d} /\ p.days = {e} /\ d <= e
      BY <2>2 DEF Customer
    <3>2. RenewalFactor(o) = RenewalProximity(d) /\ RenewalFactor(p) = RenewalProximity(e)
      BY <3>1, Factors
    <3>q. QED
      BY <3>1, <3>2 DEF RenewalProximity
  <2>q. QED
    BY <2>1, <2>2 DEF AtLeast
<1>2. /\ AcvWeight[o.acv] >= AcvWeight[p.acv]
      /\ SentimentMultiplier[o.sentiment] >= SentimentMultiplier[p.sentiment]
  BY DEF AtLeast
<1>3. PICK a \in Nat, b \in Nat, c \in Nat, d \in Nat, e \in Nat, f \in Nat :
        /\ a = AcvWeight[o.acv] /\ b = AcvWeight[p.acv]
        /\ c = SentimentMultiplier[o.sentiment] /\ d = SentimentMultiplier[p.sentiment]
        /\ e = RenewalFactor(o) /\ f = RenewalFactor(p)
  BY Factors
<1>4. a * c >= b * d /\ a * c \in Nat /\ b * d \in Nat
  BY <1>2, <1>3, Products
<1>5. (a * c) * e >= (b * d) * f /\ (a * c) * e \in Nat /\ (b * d) * f \in Nat
  BY <1>1, <1>3, <1>4, Products
<1>q. QED
  BY <1>3, <1>5 DEF Score

\* A higher score is never a lower weight, and a higher weight never a lower priority.
LEMMA CellsRise ==
  ASSUME NEW o \in Customer, NEW p \in Customer, NEW s \in Severities,
         Score(o) \in Nat, Score(p) \in Nat, Score(p) <= Score(o)
  PROVE  Assigned(o, s) <= Assigned(p, s)
<1> DEFINE Band(w, n) == \/ w = "low" /\ n < 300
                         \/ w = "medium" /\ n \in 300 .. 599
                         \/ w = "high" /\ n \in 600 .. 999
                         \/ w = "critical" /\ n >= 1000
<1>1. ASSUME NEW x \in Customer, Score(x) \in Nat
      PROVE  Band(CustomerWeight(x), Score(x))
  <2>1. PICK n \in Nat : n = Score(x)
    BY <1>1
  <2>2. CustomerWeight(x) = CASE n < 300 -> "low"
                              [] n \in 300 .. 599 -> "medium"
                              [] n \in 600 .. 999 -> "high"
                              [] OTHER -> "critical"
    BY <2>1 DEF CustomerWeight, Score
  <2>3. CASE n < 300
    BY <2>1, <2>2, <2>3
  <2>4. CASE n \in 300 .. 599
    <3>1. ~(n < 300)
      BY <2>4
    <3>2. CustomerWeight(x) = "medium"
      BY <2>2, <2>4, <3>1
    <3>q. QED
      BY <2>1, <2>4, <3>2
  <2>5. CASE n \in 600 .. 999
    BY <2>1, <2>2, <2>5
  <2>6. CASE n >= 1000
    BY <2>1, <2>2, <2>6
  <2>q. QED
    BY <2>3, <2>4, <2>5, <2>6
<1>2. PICK v, w : v = CustomerWeight(o) /\ w = CustomerWeight(p)
  OBVIOUS
<1>3. \/ v = w /\ v \in Weights
      \/ v = "critical" /\ w \in {"low", "medium", "high"}
      \/ v = "high" /\ w \in {"low", "medium"}
      \/ v = "medium" /\ w = "low"
  BY <1>1, <1>2 DEF Weights
<1>4. DefaultCells[v][s] <= DefaultCells[w][s]
  <2>1. s \in {"blocking", "degraded", "cosmetic", "unsure"}
    BY DEF Severities
  <2>2. CASE v = w
    <3>1. DefaultCells[v][s] \in Nat
      BY <1>3, <2>1, <2>2 DEF DefaultCells, Weights
    <3>q. QED
      BY <2>2, <3>1
  <2>3. CASE v # w
    BY <1>3, <2>1, <2>3 DEF DefaultCells
  <2>q. QED
    BY <2>2, <2>3
<1>q. QED
  BY <1>2, <1>4 DEF Assigned

\* matrix.py, entities.py: with the built-in matrix, a customer who is worth at least
\* as much, is as unhappy and renews as soon never gets a lower priority for a bug as
\* bad, whatever the days to renewal.
THEOREM MoreIsNeverLess ==
  ASSUME NEW o \in Customer, NEW p \in Customer, NEW s \in Severities, AtLeast(o, p)
  PROVE  Assigned(o, s) <= Assigned(p, s)
BY ScoreRises, CellsRise

LEMMA NoneOvertaken == Overtaken = {}
<1>1. Worth \subseteq Customer
  <2>1. {{}, {-1}, {90}, {91}, {182}, {183}} \subseteq {{}} \cup {{d} : d \in Int}
    OBVIOUS
  <2>q. QED
    BY <2>1 DEF Worth, Customer
<1>2. ASSUME NEW o \in Worth, NEW p \in Worth, NEW s \in Severities, AtLeast(o, p)
      PROVE  ~(Assigned(o, s) > Assigned(p, s))
  BY <1>1, <1>2, MoreIsNeverLess, AssignedTyped
<1>q. QED
  BY <1>2 DEF Overtaken

\* entities.py: "their tickets float up": no bug is logged behind one, as bad, of a
\* customer who asks for no more.
THEOREM NobodyEverOvertaken == Spec => []NobodyOvertaken
<1>1. NobodyOvertaken
  BY NoneOvertaken DEF NobodyOvertaken
<1>q. QED
  BY <1>1, PTL

-----------------------------------------------------------------------------
(* Types, and the subtype that fits.                                       *)

Inv == TypeOK /\ SubtypeFits

LEMMA LoggedTyped ==
  ASSUME NEW c \in Choices, NEW r \in Logged(c)
  PROVE  r \in Row /\ r.subtype \in SubtypesFor[r.type]
<1>1. c.type \in Types /\ c.subtype \in SubtypesFor[c.type] /\ c.subtype \in Subtypes
  BY ConstantsAssumption, BugSubtypes
<1>2. PICK p \in LoggedWith \cup {2, 4} :
        r = [NoRow EXCEPT !.type = c.type, !.subtype = c.subtype, !.priority = p]
  BY DEF Logged
<1>3. p \in Priorities
  BY <1>2, MatrixNeverP0 DEF Priorities
<1>q. QED
  BY <1>1, <1>2, <1>3, NoRowTyped DEF Row, NoRow

LEMMA InitInv == Init => Inv
<1>1. SUFFICES ASSUME Init PROVE Inv
  OBVIOUS
<1>2. \A t \in Tickets : row[t] \in Row /\ row[t].subtype \in SubtypesFor[row[t].type]
  BY <1>1, LoggedTyped DEF Init
<1>3. row \in [Tickets -> Row]
  BY <1>1, <1>2 DEF Init
<1>4. \A t \in Tickets : row[t].priority \in Priorities /\ row[t].type \in Types
  BY <1>2 DEF Row
<1>5. orgs \in [Tickets -> SUBSET Orgs] /\ csm \in [Orgs -> Csms \cup {None}]
  BY <1>1 DEF Init
<1>6. \A t \in Tickets : Shown(t) \in View
  BY <1>2, <1>5 DEF Shown, View, CsmsOf
<1>7. TablesOK
  BY <1>1, <1>3, <1>4, <1>5, <1>6, ToLinearTyped DEF Init, TablesOK
<1>8. TasksOK /\ BoundsOK
  BY <1>1, NoTaskTyped DEF Init, TasksOK, BoundsOK, SlotOK
<1>q. QED
  BY <1>2, <1>7, <1>8, TypeParts DEF Inv, SubtypeFits

\* A slot that gets a good record stays good, and so do the others.
LEMMA SlotWritten ==
  ASSUME TasksOK, NEW k \in Tasks, NEW rec, SlotOK(rec), task' = [task EXCEPT ![k] = rec]
  PROVE  TasksOK' /\ task'[k] = rec /\ \A j \in Tasks \ {k} : task'[j] = task[j]
BY DEF TasksOK, SlotOK

LEMMA Began ==
  ASSUME TypeOK, NEW k \in Tasks, NEW rec, SlotOK(rec), Begin(k, rec)
  PROVE  /\ TasksOK' /\ task'[k] = rec /\ \A j \in Tasks \ {k} : task'[j] = task[j]
         /\ raced' \in BOOLEAN /\ runs' \in Nat
<1>1. task' = [task EXCEPT ![k] = rec] /\ raced' \in BOOLEAN /\ runs' \in Nat
  BY DEF Begin, TypeOK, Idle
<1>q. QED
  BY <1>1, SlotWritten, TypeParts

-----------------------------------------------------------------------------
(* A handler starts.                                                       *)

\* A handler's first step is of its kind, and it knows the type it has read.
Fresh(r, t) ==
  \/ r.pc = "priority" /\ r.kind = "priority"
  \/ r.pc = "type" /\ r.kind = "reclassify" /\ r.seen.type = row[t].type
  \/ /\ r.pc = "type" /\ r.kind = "platform" /\ r.seen.type = row[t].type
     /\ r.to.type = row[t].type
  \/ r.pc \in {"reply", "deadline", "csm"} /\ r.kind \in {"reply", "deadline", "csm"}
  \/ r.pc = "org" /\ r.kind \in {"add", "merge"}

LEMMA StartTyped ==
  ASSUME Inv, NEW k \in Tasks, NEW t \in Tickets, Start(k, t)
  PROVE  /\ Inv' /\ UNCHANGED <<row, orgs, csm, card, linear, logged, buttons, best, faults>>
         /\ task[k].pc = "idle" /\ task'[k].ticket = t
         /\ task'[k].pc \in {"priority", "type", "reply", "deadline", "org", "csm"}
         /\ Fresh(task'[k], t)
         /\ \A j \in Tasks \ {k} : task'[j] = task[j]
<1>1. /\ NoTask \in TaskRecord /\ row[t] \in Row
      /\ row[t].subtype \in SubtypesFor[row[t].type]
  BY NoTaskTyped DEF Inv, TypeOK, SubtypeFits, SlotOK
<1>2. PICK rec \in TaskRecord :
        /\ Begin(k, rec)
        /\ UNCHANGED <<row, orgs, csm, card, linear, logged, buttons, best, faults>>
        /\ rec.ticket = t /\ Fresh(rec, t)
        /\ rec.pc \in {"priority", "type", "reply", "deadline", "org", "csm"}
        /\ rec.pc = "org" => rec.org \in Orgs
        /\ rec.pc = "type" => rec.to.subtype \in SubtypesFor[rec.to.type]
  <2>1. CASE \E p \in Priorities : SetPriority(k, t, p)
    <3>1. PICK p \in Priorities : SetPriority(k, t, p)
      BY <2>1
    <3>2. PICK to : to = [row[t] EXCEPT !.priority = p]
      OBVIOUS
    <3>3. to \in Row
      BY <1>1, <3>2 DEF Row
    <3>4. PICK rec : rec = [NoTask EXCEPT !.pc = "priority", !.kind = "priority", !.ticket = t,
                              !.seen = row[t], !.to = to]
      OBVIOUS
    <3>5. rec \in TaskRecord /\ rec.ticket = t /\ rec.pc = "priority" /\ Fresh(rec, t)
      BY <1>1, <3>3, <3>4 DEF TaskRecord, PCs, Kinds, Fresh
    <3>q. QED
      BY <3>1, <3>2, <3>4, <3>5 DEF SetPriority, data
  <2>2. CASE \E c \in Choices : Reclassify(k, t, c)
    <3>1. PICK c \in Choices : Reclassify(k, t, c)
      BY <2>2
    <3>2. PICK to : to = [row[t] EXCEPT !.type = c.type, !.subtype = c.subtype]
      OBVIOUS
    <3>3. to \in Row /\ to.subtype \in SubtypesFor[to.type]
      BY <1>1, <3>2, ConstantsAssumption, BugSubtypes DEF Row
    <3>4. PICK rec : rec = [NoTask EXCEPT !.pc = "type", !.kind = "reclassify", !.ticket = t,
                              !.seen = row[t], !.to = to]
      OBVIOUS
    <3>5. /\ rec \in TaskRecord /\ rec.ticket = t /\ rec.pc = "type" /\ rec.to = to
          /\ Fresh(rec, t)
      BY <1>1, <3>3, <3>4 DEF TaskRecord, PCs, Kinds, Fresh
    <3>q. QED
      BY <3>1, <3>2, <3>3, <3>4, <3>5 DEF Reclassify, data
  <2>3. CASE TogglePlatformWide(k, t)
    <3>1. PICK subtype : /\ subtype = IF row[t].subtype = "platform-wide" THEN "customer-specific"
                                      ELSE "platform-wide"
      OBVIOUS
    <3>2. PICK to : to = [row[t] EXCEPT !.subtype = subtype]
      OBVIOUS
    <3>3. to \in Row /\ to.subtype \in SubtypesFor[to.type] /\ to.type = row[t].type
      <4>1. row[t].type = "bug"
        BY <2>3 DEF TogglePlatformWide
      <4>2. subtype \in SubtypesFor["bug"] /\ subtype \in Subtypes
        BY <3>1, BugSubtypes
      <4>q. QED
        BY <1>1, <3>2, <4>1, <4>2 DEF Row
    <3>4. PICK rec : rec = [NoTask EXCEPT !.pc = "type", !.kind = "platform", !.ticket = t,
                              !.seen = row[t], !.to = to]
      OBVIOUS
    <3>5. /\ rec \in TaskRecord /\ rec.ticket = t /\ rec.pc = "type" /\ rec.to = to
          /\ Fresh(rec, t)
      BY <1>1, <3>3, <3>4 DEF TaskRecord, PCs, Kinds, Fresh
    <3>q. QED
      BY <2>3, <3>1, <3>2, <3>3, <3>4, <3>5 DEF TogglePlatformWide, data
  <2>4. CASE ToggleReplyNeeded(k, t)
    <3>1. PICK to : to = [row[t] EXCEPT !.reply = ~@]
      OBVIOUS
    <3>2. to \in Row
      BY <1>1, <3>1 DEF Row
    <3>3. PICK rec : rec = [NoTask EXCEPT !.pc = "reply", !.kind = "reply", !.ticket = t,
                              !.to = to]
      OBVIOUS
    <3>4. rec \in TaskRecord /\ rec.ticket = t /\ rec.pc = "reply" /\ Fresh(rec, t)
      BY <1>1, <3>2, <3>3 DEF TaskRecord, PCs, Kinds, Fresh
    <3>q. QED
      BY <2>4, <3>1, <3>3, <3>4 DEF ToggleReplyNeeded, data
  <2>5. CASE \E d \in Days \cup {None} : SetDeadline(k, t, d)
    <3>1. PICK d \in Days \cup {None} : SetDeadline(k, t, d)
      BY <2>5
    <3>2. PICK to : to = [row[t] EXCEPT !.deadline = d]
      OBVIOUS
    <3>3. to \in Row
      BY <1>1, <3>2 DEF Row
    <3>4. PICK rec : rec = [NoTask EXCEPT !.pc = "deadline", !.kind = "deadline", !.ticket = t,
                              !.to = to]
      OBVIOUS
    <3>5. rec \in TaskRecord /\ rec.ticket = t /\ rec.pc = "deadline" /\ Fresh(rec, t)
      BY <1>1, <3>3, <3>4 DEF TaskRecord, PCs, Kinds, Fresh
    <3>q. QED
      BY <3>1, <3>2, <3>4, <3>5 DEF SetDeadline, data
  <2>6. CASE \E o \in Orgs, kind \in {"add", "merge"} : AddOrg(k, t, o, kind)
    <3>1. PICK o \in Orgs, kind \in {"add", "merge"} : AddOrg(k, t, o, kind)
      BY <2>6
    <3>2. PICK rec : rec = [NoTask EXCEPT !.pc = "org", !.kind = kind, !.ticket = t, !.org = o]
      OBVIOUS
    <3>3. /\ rec \in TaskRecord /\ rec.ticket = t /\ rec.pc = "org" /\ rec.org = o
          /\ Fresh(rec, t)
      BY <1>1, <3>2 DEF TaskRecord, PCs, Kinds, Fresh
    <3>q. QED
      BY <3>1, <3>2, <3>3 DEF AddOrg, data
  <2>7. CASE \E os \in SUBSET Orgs, c \in Csms \cup {None} : SetStakeholder(k, t, os, c)
    <3>1. PICK os \in SUBSET Orgs, c \in Csms \cup {None} : SetStakeholder(k, t, os, c)
      BY <2>7
    <3>2. PICK rec : rec = [NoTask EXCEPT !.pc = "csm", !.kind = "csm", !.ticket = t, !.csm = c,
                              !.queue = {o \in os : csm[o] # c}]
      OBVIOUS
    <3>3. rec \in TaskRecord /\ rec.ticket = t /\ rec.pc = "csm" /\ Fresh(rec, t)
      BY <1>1, <3>2 DEF TaskRecord, PCs, Kinds, Fresh
    <3>q. QED
      BY <3>1, <3>2, <3>3 DEF SetStakeholder, data
  <2>q. QED
    BY <2>1, <2>2, <2>3, <2>4, <2>5, <2>6, <2>7 DEF Start
<1>3. SlotOK(rec)
  BY <1>2 DEF SlotOK
<1>4. /\ TasksOK' /\ task'[k] = rec /\ \A j \in Tasks \ {k} : task'[j] = task[j]
      /\ raced' \in BOOLEAN /\ runs' \in Nat
  BY <1>2, <1>3, Began DEF Inv
<1>5. TablesOK' /\ BoundsOK' /\ SubtypeFits'
  BY <1>2, <1>4, TypeParts DEF Inv, TablesOK, BoundsOK, SubtypeFits
<1>q. QED
  BY <1>2, <1>4, <1>5, TypeParts DEF Inv, Begin, TypeOK, TablesOK, TasksOK, BoundsOK

-----------------------------------------------------------------------------
(* A handler goes on.                                                      *)

LEMMA Moved ==
  ASSUME TasksOK, NEW k \in Tasks, task[k].pc # "idle",
         NEW pc \in PCs \ {"idle", "org", "type"}, Goto(k, pc)
  PROVE  /\ TasksOK' /\ task'[k] = [task[k] EXCEPT !.pc = pc]
         /\ \A j \in Tasks \ {k} : task'[j] = task[j]
<1>1. task[k] \in TaskRecord /\ task[k].ticket \in Tickets
  BY DEF TasksOK, SlotOK
<1>2. PICK rec : rec = [task[k] EXCEPT !.pc = pc]
  OBVIOUS
<1>3. rec \in TaskRecord /\ rec.ticket \in Tickets /\ rec.pc = pc
  BY <1>1, <1>2 DEF TaskRecord
<1>4. SlotOK(rec)
  BY <1>3 DEF SlotOK
<1>5. task' = [task EXCEPT ![k] = rec]
  BY <1>2 DEF Goto
<1>q. QED
  BY <1>2, <1>4, <1>5, SlotWritten

LEMMA Finished ==
  ASSUME TasksOK, NEW k \in Tasks, Finish(k)
  PROVE  TasksOK' /\ task'[k] = NoTask /\ \A j \in Tasks \ {k} : task'[j] = task[j]
BY NoTaskTyped, SlotWritten DEF Finish

LEMMA StepTasks ==
  ASSUME Inv, NEW k \in Tasks, Step(k) \/ Fail(k)
  PROVE  TasksOK' /\ \A j \in Tasks \ {k} : task'[j] = task[j]
<1>1. /\ TasksOK /\ TablesOK /\ task[k] \in TaskRecord
      /\ task[k].pc # "idle" => task[k].ticket \in Tickets
  BY TypeParts DEF Inv, TasksOK, SlotOK
<1>2. CASE WritePriority(k) \/ WriteType(k) \/ Audit(k) \/ WriteReply(k) \/ WriteDeadline(k)
             \/ WriteOrg(k) \/ RemoveLabel(k)
  <2>1. \E pc \in PCs \ {"idle", "org", "type"} : task[k].pc # "idle" /\ Goto(k, pc)
    BY <1>2 DEF WritePriority, WriteType, Audit, WriteReply, WriteDeadline, WriteOrg, RemoveLabel,
       PCs
  <2>q. QED
    BY <1>1, <2>1, Moved
<1>3. CASE PushPriority(k) \/ AddLabel(k) \/ Suggest(k) \/ Fail(k)
  BY <1>1, <1>3, Finished DEF PushPriority, AddLabel, Suggest, Fail
<1>4. CASE WriteCsm(k)
  <2>1. CASE Goto(k, "card")
    BY <1>1, <1>4, <2>1, Moved DEF WriteCsm, PCs
  <2>2. CASE \E o \in task[k].queue : task' = [task EXCEPT ![k].queue = @ \ {o}]
    <3>1. PICK o \in task[k].queue : task' = [task EXCEPT ![k].queue = @ \ {o}]
      BY <2>2
    <3>2. PICK rec : rec = [task[k] EXCEPT !.queue = @ \ {o}]
      OBVIOUS
    <3>3. rec \in TaskRecord /\ rec.pc = "csm" /\ rec.ticket \in Tickets
      BY <1>1, <1>4, <3>2 DEF WriteCsm, TaskRecord
    <3>4. SlotOK(rec) /\ task' = [task EXCEPT ![k] = rec]
      BY <3>1, <3>2, <3>3 DEF SlotOK
    <3>q. QED
      BY <1>1, <3>4, SlotWritten
  <2>q. QED
    BY <1>4, <2>1, <2>2 DEF WriteCsm
<1>5. CASE ReadTicket(k)
  <2>1. row[task[k].ticket] \in Row /\ task[k].ticket \in Tickets /\ task[k].view \in View
    BY <1>1, <1>5 DEF ReadTicket, TablesOK, TaskRecord
  <2>2. PICK view : view = [task[k].view EXCEPT !.row = row[task[k].ticket]]
    OBVIOUS
  <2>3. view \in View
    BY <2>1, <2>2 DEF View
  <2>4. PICK rec : rec = [task[k] EXCEPT !.pc = "names", !.view = view]
    OBVIOUS
  <2>5. rec \in TaskRecord /\ rec.pc = "names" /\ rec.ticket \in Tickets
    BY <1>1, <2>1, <2>3, <2>4 DEF TaskRecord, PCs
  <2>6. SlotOK(rec) /\ task' = [task EXCEPT ![k] = rec]
    BY <1>1, <1>5, <2>2, <2>4, <2>5 DEF SlotOK, ReadTicket, TasksOK, TaskRecord
  <2>q. QED
    BY <1>1, <2>6, SlotWritten
<1>6. CASE ReadOrgs(k)
  <2>1. /\ orgs[task[k].ticket] \in SUBSET Orgs /\ task[k].ticket \in Tickets
        /\ task[k].view \in View
    BY <1>1, <1>6 DEF ReadOrgs, TablesOK, TaskRecord
  <2>2. CsmsOf(orgs[task[k].ticket]) \in SUBSET Csms
    BY <1>1, <2>1 DEF CsmsOf, TablesOK
  <2>3. PICK view : view = [task[k].view EXCEPT !.orgs = orgs[task[k].ticket],
                                                !.csms = CsmsOf(orgs[task[k].ticket])]
    OBVIOUS
  <2>4. view \in View
    BY <2>1, <2>2, <2>3 DEF View
  <2>5. PICK rec : rec = [task[k] EXCEPT !.pc = "post", !.view = view]
    OBVIOUS
  <2>6. rec \in TaskRecord /\ rec.pc = "post" /\ rec.ticket \in Tickets
    BY <1>1, <2>1, <2>4, <2>5 DEF TaskRecord, PCs
  <2>7. SlotOK(rec) /\ task' = [task EXCEPT ![k] = rec]
    BY <1>1, <1>6, <2>3, <2>5, <2>6 DEF SlotOK, ReadOrgs, TasksOK, TaskRecord
  <2>q. QED
    BY <1>1, <2>7, SlotWritten
<1>7. CASE PostCard(k)
  <2>1. AfterCard(k) \in {"idle", "push", "unlabel", "count"}
    BY DEF AfterCard
  <2>q. QED
    BY <1>1, <1>7, <2>1, Moved, Finished DEF PostCard, PCs
<1>8. CASE ReadPriority(k)
  <2>1. row[task[k].ticket].priority \in Priorities /\ task[k].ticket \in Tickets
        /\ task[k].to \in Row
    BY <1>1, <1>8 DEF ReadPriority, TablesOK, TaskRecord, Row
  <2>2. PICK to : to = [task[k].to EXCEPT !.priority = row[task[k].ticket].priority]
    OBVIOUS
  <2>3. to \in Row
    BY <2>1, <2>2 DEF Row
  <2>4. PICK rec : rec = [task[k] EXCEPT !.pc = "linear", !.to = to]
    OBVIOUS
  <2>5. rec \in TaskRecord /\ rec.pc = "linear" /\ rec.ticket \in Tickets
    BY <1>1, <2>1, <2>3, <2>4 DEF TaskRecord, PCs
  <2>6. SlotOK(rec) /\ task' = [task EXCEPT ![k] = rec]
    BY <1>1, <1>8, <2>2, <2>4, <2>5 DEF SlotOK, ReadPriority, TasksOK, TaskRecord
  <2>q. QED
    BY <1>1, <2>6, SlotWritten
<1>9. CASE ReadForCount(k)
  <2>1. row[task[k].ticket] \in Row /\ task[k].ticket \in Tickets
    BY <1>1, <1>9 DEF ReadForCount, TablesOK
  <2>2. PICK rec : rec = [task[k] EXCEPT !.pc = "suggest", !.seen = row[task[k].ticket]]
    OBVIOUS
  <2>3. rec \in TaskRecord /\ rec.pc = "suggest" /\ rec.ticket \in Tickets
    BY <1>1, <2>1, <2>2 DEF TaskRecord, PCs
  <2>4. SlotOK(rec) /\ task' = [task EXCEPT ![k] = rec]
    BY <1>9, <2>2, <2>3 DEF SlotOK, ReadForCount
  <2>q. QED
    BY <1>1, <2>4, SlotWritten
<1>q. QED
  BY <1>2, <1>3, <1>4, <1>5, <1>6, <1>7, <1>8, <1>9 DEF Step

LEMMA StepTables ==
  ASSUME Inv, NEW k \in Tasks, Step(k) \/ Fail(k)
  PROVE  TablesOK' /\ BoundsOK' /\ SubtypeFits'
<1>1. /\ TablesOK /\ BoundsOK /\ SubtypeFits /\ task[k] \in TaskRecord
      /\ task[k].pc # "idle" => task[k].ticket \in Tickets
      /\ task[k].pc = "org" => task[k].org \in Orgs
      /\ task[k].pc = "type" => task[k].to.subtype \in SubtypesFor[task[k].to.type]
  BY TypeParts DEF Inv, TasksOK, SlotOK
<1>2. BoundsOK'
  <2>1. raced' = raced /\ runs' = runs /\ (faults' = faults \/ Outage)
    BY DEF Step, Fail, WritePriority, WriteType, Audit, WriteReply, WriteDeadline, WriteOrg,
       WriteCsm, ReadTicket, ReadOrgs, PostCard, ReadPriority, PushPriority, RemoveLabel, AddLabel,
       ReadForCount, Suggest
  <2>q. QED
    BY <1>1, <2>1 DEF BoundsOK, Outage
<1>3. CASE WritePriority(k)
  <2>1. PICK t \in Tickets, p \in Priorities :
          /\ row' = [row EXCEPT ![t].priority = p]
          /\ best' = [best EXCEPT ![t] = IF p < @ THEN p ELSE @]
          /\ UNCHANGED <<orgs, csm, card, linear, logged, buttons>>
    BY <1>1, <1>3 DEF WritePriority, TaskRecord, Row
  <2>2. PICK r : r = [row[t] EXCEPT !.priority = p]
    OBVIOUS
  <2>3. r \in Row /\ r.type = row[t].type /\ r.subtype = row[t].subtype
    BY <1>1, <2>2 DEF TablesOK, Row
  <2>4. row' = [row EXCEPT ![t] = r]
    BY <2>1, <2>2
  <2>5. row' \in [Tickets -> Row] /\ SubtypeFits'
    BY <1>1, <2>3, <2>4 DEF TablesOK, SubtypeFits
  <2>6. best' \in [Tickets -> Priorities]
    BY <1>1, <2>1 DEF TablesOK
  <2>q. QED
    BY <1>1, <1>2, <2>1, <2>5, <2>6 DEF TablesOK
<1>4. CASE WriteType(k)
  <2>1. PICK t \in Tickets, to \in Row :
          /\ row' = [row EXCEPT ![t].type = to.type, ![t].subtype = to.subtype]
          /\ to.subtype \in SubtypesFor[to.type]
          /\ UNCHANGED <<orgs, csm, card, linear, logged, buttons, best>>
    BY <1>1, <1>4 DEF WriteType, TaskRecord
  <2>2. row' \in [Tickets -> Row] /\ SubtypeFits'
    BY <1>1, <2>1 DEF TablesOK, SubtypeFits, Row
  <2>q. QED
    BY <1>1, <1>2, <2>1, <2>2 DEF TablesOK
<1>5. CASE Audit(k)
  <2>1. task[k].to.priority \in Priorities /\ task[k].to.type \in Types
    BY <1>1 DEF TaskRecord, Row
  <2>q. QED
    BY <1>1, <1>2, <1>5, <2>1 DEF Audit, TablesOK, SubtypeFits
<1>6. CASE WriteReply(k) \/ WriteDeadline(k)
  <2>1. PICK t \in Tickets, to \in Row :
          /\ \/ row' = [row EXCEPT ![t].reply = to.reply]
             \/ row' = [row EXCEPT ![t].deadline = to.deadline]
          /\ UNCHANGED <<orgs, csm, card, linear, logged, buttons, best>>
    BY <1>1, <1>6 DEF WriteReply, WriteDeadline, TaskRecord
  <2>2. PICK r : /\ r \in {[row[t] EXCEPT !.reply = to.reply], [row[t] EXCEPT !.deadline = to.deadline]}
                 /\ row' = [row EXCEPT ![t] = r]
    BY <2>1
  <2>3. r \in Row /\ r.type = row[t].type /\ r.subtype = row[t].subtype
    BY <1>1, <2>2 DEF TablesOK, Row
  <2>4. row' \in [Tickets -> Row] /\ SubtypeFits'
    BY <1>1, <2>2, <2>3 DEF TablesOK, SubtypeFits
  <2>q. QED
    BY <1>1, <1>2, <2>1, <2>4 DEF TablesOK
<1>7. CASE WriteOrg(k)
  BY <1>1, <1>2, <1>7 DEF WriteOrg, TablesOK, SubtypeFits
<1>8. CASE WriteCsm(k)
  <2>1. task[k].csm \in Csms \cup {None} /\ task[k].queue \subseteq Orgs
    BY <1>1 DEF TaskRecord
  <2>q. QED
    BY <1>1, <1>2, <1>8, <2>1 DEF WriteCsm, TablesOK, SubtypeFits
<1>9. CASE PostCard(k)
  <2>1. task[k].view \in View
    BY <1>1 DEF TaskRecord
  <2>q. QED
    BY <1>1, <1>2, <1>9, <2>1 DEF PostCard, TablesOK, SubtypeFits
<1>10. CASE PushPriority(k)
  <2>1. ToLinear[task[k].to.priority] \in 1 .. 4
    BY <1>1, ToLinearTyped DEF TaskRecord, Row
  <2>2. PICK t \in Tickets, p \in 1 .. 4 :
          /\ linear' \in {linear, [linear EXCEPT ![t].priority = p]}
          /\ UNCHANGED <<row, orgs, csm, card, logged, buttons, best>>
    BY <1>1, <1>10, <2>1 DEF PushPriority
  <2>q. QED
    BY <1>1, <1>2, <2>2 DEF TablesOK, SubtypeFits
<1>11. CASE RemoveLabel(k)
  BY <1>1, <1>2, <1>11 DEF RemoveLabel, TablesOK, SubtypeFits
<1>12. CASE AddLabel(k)
  <2>1. task[k].to.type \in Types
    BY <1>1 DEF TaskRecord, Row
  <2>q. QED
    BY <1>1, <1>2, <1>12, <2>1 DEF AddLabel, TablesOK, SubtypeFits
<1>13. CASE Suggest(k)
  <2>1. PICK t \in Tickets, ps \in SUBSET Priorities :
          /\ buttons' \in {buttons, buttons \cup {[ticket |-> t, priority |-> q] : q \in ps}}
          /\ UNCHANGED <<row, orgs, csm, card, linear, logged, best>>
    <3>1. task[k].seen.priority \in Priorities
      BY <1>1 DEF TaskRecord, Row
    <3>2. Suggestion(Cardinality(orgs[task[k].ticket]), task[k].seen.priority,
                     task[k].ticket \in Critical) \in SUBSET Priorities
      BY <3>1 DEF Suggestion, BumpOneTier, Priorities
    <3>q. QED
      BY <1>1, <1>13, <3>2 DEF Suggest
  <2>q. QED
    BY <1>1, <1>2, <2>1 DEF TablesOK, SubtypeFits
<1>14. CASE ReadTicket(k) \/ ReadOrgs(k) \/ ReadPriority(k) \/ ReadForCount(k) \/ Fail(k)
  BY <1>1, <1>2, <1>14 DEF ReadTicket, ReadOrgs, ReadPriority, ReadForCount, Fail, data, TablesOK,
     SubtypeFits
<1>q. QED
  BY <1>3, <1>4, <1>5, <1>6, <1>7, <1>8, <1>9, <1>10, <1>11, <1>12, <1>13, <1>14 DEF Step

LEMMA NextInv == Inv /\ [Next]_vars => Inv'
<1>1. SUFFICES ASSUME Inv, [Next]_vars PROVE Inv'
  OBVIOUS
<1>2. CASE \E k \in Tasks : Step(k) \/ Fail(k)
  BY <1>1, <1>2, StepTasks, StepTables, TypeParts DEF Inv, TypeOK, TablesOK, TasksOK, BoundsOK
<1>3. CASE \E k \in Tasks, t \in Tickets : Start(k, t)
  BY <1>1, <1>3, StartTyped
<1>4. CASE UNCHANGED vars
  BY <1>1, <1>4 DEF vars, Inv, TypeOK, SubtypeFits, SlotOK
<1>q. QED
  BY <1>1, <1>2, <1>3, <1>4 DEF Next

\* Whatever races, fails or is lost, the tables and the handlers keep their shape.
THEOREM TypeCorrect == Spec => []TypeOK
<1>1. Inv => TypeOK
  BY DEF Inv
<1>q. QED
  BY <1>1, InitInv, NextInv, PTL DEF Spec

\* No interleaving of edits leaves a ticket with a subtype of another type.
THEOREM SubtypeAlwaysFits == Spec => []SubtypeFits
<1>1. Inv => SubtypeFits
  BY DEF Inv
<1>q. QED
  BY <1>1, InitInv, NextInv, PTL DEF Spec

-----------------------------------------------------------------------------
(* Somebody sees the full count.                                           *)

\* A handler that will count the organisations of t.
WillCount(k, t) ==
  /\ task[k].ticket = t
  /\ \/ task[k].pc \in {"count", "suggest"}
     \/ task[k].kind = "add" /\ task[k].pc \in {"card", "names", "post"}

\* A handler about to suggest read no higher priority than the ticket has had.
BestKnown ==
  /\ \A t \in Tickets : best[t] <= row[t].priority
  /\ \A k \in Tasks : task[k].pc = "suggest" => best[task[k].ticket] <= task[k].seen.priority

\* What the organisations of a ticket ask for is there, or will be counted.
Counted(t, p) == Reached(t, p) \/ \E k \in Tasks : WillCount(k, t)
CountTrails ==
  faults = 0 =>
    \A t \in Tickets :
      /\ Cardinality(orgs[t]) >= Several => Counted(t, 1)
      /\ Cardinality(orgs[t]) >= Many /\ t \in Critical => Counted(t, 0)

CountInv == Inv /\ BestKnown /\ CountTrails

LEMMA InitCount == Init => CountInv
<1>1. SUFFICES ASSUME Init PROVE BestKnown /\ CountTrails
  BY InitInv DEF CountInv
<1>2. \A t \in Tickets : row[t].priority \in Priorities
  BY <1>1, InitInv DEF Inv, TypeOK, Row
<1>3. BestKnown
  <2>1. \A t \in Tickets : best[t] = row[t].priority
    BY <1>1 DEF Init
  <2>2. \A k \in Tasks : task[k].pc = "idle"
    BY <1>1, NoTaskTyped DEF Init
  <2>q. QED
    BY <1>2, <2>1, <2>2 DEF BestKnown, Priorities
<1>4. ASSUME NEW t \in Tickets PROVE Cardinality(orgs[t]) = 1
  <2>1. PICK o \in Orgs : orgs[t] = {o}
    BY <1>1 DEF Init
  <2>2. Cardinality({o}) = 1
    BY FS_Singleton
  <2>q. QED
    BY <2>1, <2>2
<1>5. CountTrails
  BY <1>4, ConstantsAssumption DEF CountTrails
<1>q. QED
  BY <1>3, <1>5

\* A step that takes no organisation, no button and no count away.
LEMMA CountKept ==
  ASSUME CountInv, NEW k \in Tasks, orgs' = orgs, buttons \subseteq buttons',
         faults' = 0 => faults = 0,
         \A t \in Tickets : best'[t] \in Priorities /\ best'[t] <= best[t],
         \A j \in Tasks \ {k} : task'[j] = task[j],
         faults' = 0 => \A t \in Tickets : WillCount(k, t) => WillCount(k, t)'
  PROVE  CountTrails'
<1>1. SUFFICES ASSUME faults' = 0, NEW t \in Tickets, NEW p \in {0, 1}, Counted(t, p)
               PROVE  Counted(t, p)'
  BY DEF CountInv, CountTrails, Counted, Reached
<1>2. CASE best[t] <= p
  <2>1. best[t] \in Priorities /\ best'[t] \in Priorities /\ best'[t] <= best[t]
    BY DEF CountInv, Inv, TypeOK
  <2>q. QED
    BY <1>2, <2>1 DEF Counted, Reached, Priorities
<1>3. CASE \E b \in buttons : b.ticket = t /\ b.priority <= p
  BY <1>3 DEF Counted, Reached
<1>4. CASE \E j \in Tasks : WillCount(j, t)
  BY <1>1, <1>4 DEF Counted, WillCount
<1>q. QED
  BY <1>1, <1>2, <1>3, <1>4 DEF Counted, Reached

LEMMA StartCount ==
  ASSUME CountInv, NEW k \in Tasks, NEW t \in Tickets, Start(k, t)
  PROVE  CountInv'
<1>1. /\ Inv' /\ UNCHANGED <<row, orgs, csm, card, linear, logged, buttons, best, faults>>
      /\ task[k].pc = "idle" /\ task'[k].pc \notin {"idle", "suggest"}
      /\ \A j \in Tasks \ {k} : task'[j] = task[j]
  BY StartTyped DEF CountInv
<1>2. BestKnown'
  BY <1>1 DEF CountInv, BestKnown
<1>3. CountTrails'
  <2>1. \A u \in Tickets : ~WillCount(k, u)
    BY <1>1 DEF WillCount
  <2>2. \A u \in Tickets : best'[u] \in Priorities /\ best'[u] <= best[u]
    BY <1>1 DEF CountInv, Inv, TypeOK, Priorities
  <2>q. QED
    BY <1>1, <2>1, <2>2, CountKept
<1>q. QED
  BY <1>1, <1>2, <1>3 DEF CountInv

LEMMA StepBest ==
  ASSUME CountInv, NEW k \in Tasks, Step(k) \/ Fail(k)
  PROVE  BestKnown' /\ \A t \in Tickets : best'[t] \in Priorities /\ best'[t] <= best[t]
<1>1. /\ TablesOK /\ TasksOK /\ TasksOK' /\ BestKnown
      /\ \A j \in Tasks \ {k} : task'[j] = task[j]
      /\ \A t \in Tickets : best[t] \in Priorities /\ row[t] \in Row
      /\ \A j \in Tasks : task[j] \in TaskRecord
      /\ \A j \in Tasks : task[j].pc # "idle" => task[j].ticket \in Tickets
  BY StepTasks, TypeParts DEF CountInv, Inv, TablesOK, TasksOK, SlotOK
<1>2. CASE WritePriority(k)
  <2>1. PICK t \in Tickets, p \in Priorities :
          /\ row' = [row EXCEPT ![t].priority = p]
          /\ best' = [best EXCEPT ![t] = IF p < @ THEN p ELSE @]
          /\ Goto(k, "audit")
    BY <1>1, <1>2 DEF WritePriority, TaskRecord, Row
  <2>2. \A u \in Tickets : best'[u] \in Priorities /\ best'[u] <= best[u]
    BY <1>1, <2>1 DEF TablesOK, Priorities
  <2>3. PICK r : r = [row[t] EXCEPT !.priority = p]
    OBVIOUS
  <2>4. r.priority = p /\ row' = [row EXCEPT ![t] = r]
    BY <1>1, <2>1, <2>3 DEF Row
  <2>5. \A u \in Tickets : best'[u] <= row'[u].priority
    BY <1>1, <2>1, <2>4 DEF TablesOK, BestKnown, Priorities
  <2>6. task'[k].pc = "audit"
    BY <1>1, <2>1 DEF Goto, TasksOK
  <2>7. ASSUME NEW j \in Tasks, task'[j].pc = "suggest"
        PROVE  best'[task'[j].ticket] <= task'[j].seen.priority
    <3>1. j # k /\ task'[j] = task[j] /\ task[j].ticket \in Tickets
      BY <1>1, <2>6, <2>7
    <3>2. best[task[j].ticket] <= task[j].seen.priority /\ task[j].seen.priority \in Priorities
      BY <1>1, <2>7, <3>1 DEF BestKnown, TaskRecord, Row
    <3>q. QED
      BY <1>1, <2>2, <3>1, <3>2 DEF Priorities
  <2>q. QED
    BY <2>2, <2>5, <2>7 DEF BestKnown
<1>3. CASE ReadForCount(k)
  <2>1. task'[k].seen = row[task[k].ticket] /\ task'[k].ticket = task[k].ticket
    BY <1>1, <1>3 DEF ReadForCount, TasksOK, TaskRecord
  <2>2. row' = row /\ best' = best /\ task[k].ticket \in Tickets
    BY <1>1, <1>3 DEF ReadForCount, data
  <2>q. QED
    BY <1>1, <2>1, <2>2 DEF BestKnown, Priorities
<1>4. CASE ~WritePriority(k) /\ ~ReadForCount(k)
  <2>1. best' = best /\ task'[k].pc # "suggest"
    <3>1. CASE PostCard(k)
      <4>1. AfterCard(k) \in {"idle", "push", "unlabel", "count"}
        BY DEF AfterCard
      <4>q. QED
        BY <1>1, <3>1, <4>1, NoTaskTyped DEF PostCard, Goto, Finish, TasksOK, TaskRecord
    <3>2. CASE ~PostCard(k)
      BY <1>1, <1>4, <3>2, NoTaskTyped DEF Step, Fail, WriteType, Audit, WriteReply, WriteDeadline,
         WriteOrg, WriteCsm, ReadTicket, ReadOrgs, ReadPriority, PushPriority, RemoveLabel,
         AddLabel, Suggest, Goto, Finish, TasksOK, TaskRecord, data
    <3>q. QED
      BY <3>1, <3>2
  <2>2. \A t \in Tickets : row'[t].priority = row[t].priority
    <3>1. CASE WriteType(k) \/ WriteReply(k) \/ WriteDeadline(k)
      <4>1. PICK t \in Tickets, to \in Row :
              \/ row' = [row EXCEPT ![t].type = to.type, ![t].subtype = to.subtype]
              \/ row' = [row EXCEPT ![t].reply = to.reply]
              \/ row' = [row EXCEPT ![t].deadline = to.deadline]
        BY <1>1, <3>1 DEF WriteType, WriteReply, WriteDeadline, TaskRecord
      <4>2. PICK r : /\ r \in {[row[t] EXCEPT !.type = to.type, !.subtype = to.subtype],
                               [row[t] EXCEPT !.reply = to.reply],
                               [row[t] EXCEPT !.deadline = to.deadline]}
                     /\ row' = [row EXCEPT ![t] = r]
        BY <4>1
      <4>3. r.priority = row[t].priority
        BY <1>1, <4>2 DEF Row
      <4>q. QED
        BY <1>1, <4>2, <4>3 DEF TablesOK
    <3>2. CASE ~(WriteType(k) \/ WriteReply(k) \/ WriteDeadline(k))
      BY <1>4, <3>2 DEF Step, Fail, Audit, WriteOrg, WriteCsm, ReadTicket, ReadOrgs, PostCard,
         ReadPriority, PushPriority, RemoveLabel, AddLabel, Suggest, data
    <3>q. QED
      BY <3>1, <3>2
  <2>q. QED
    BY <1>1, <2>1, <2>2 DEF BestKnown, Priorities
<1>q. QED
  BY <1>2, <1>3, <1>4

LEMMA StepTrails ==
  ASSUME CountInv, NEW k \in Tasks, Step(k) \/ Fail(k)
  PROVE  CountTrails'
<1>1. /\ Inv /\ TasksOK /\ task[k] \in TaskRecord /\ faults \in Nat
      /\ \A j \in Tasks \ {k} : task'[j] = task[j]
      /\ \A t \in Tickets : best'[t] \in Priorities /\ best'[t] <= best[t]
      /\ \A t \in Tickets : best[t] \in Priorities
      /\ task[k].pc # "idle" => task[k].ticket \in Tickets
  BY StepTasks, StepBest, TypeParts DEF CountInv, Inv, TablesOK, TasksOK, BoundsOK, SlotOK
<1>2. CASE Outage
  BY <1>1, <1>2 DEF Outage, CountTrails
<1>3. CASE WriteOrg(k)
  <2>1. PICK t \in Tickets : /\ t = task[k].ticket
                             /\ orgs' = [orgs EXCEPT ![t] = @ \cup {task[k].org}]
    BY <1>1, <1>3 DEF WriteOrg
  <2>2. UNCHANGED <<buttons, faults, best>>
    BY <1>3 DEF WriteOrg
  <2>3. WillCount(k, t)'
    BY <1>1, <1>3, <2>1 DEF WriteOrg, WillCount, Goto, TasksOK, TaskRecord
  <2>4. ASSUME faults' = 0, NEW u \in Tickets, u # t, NEW p \in {0, 1}, Counted(u, p)
        PROVE  Counted(u, p)'
    <3>1. ~WillCount(k, u)
      BY <2>1, <2>4 DEF WillCount
    <3>q. QED
      BY <1>1, <2>2, <2>4, <3>1 DEF Counted, Reached, WillCount
  <2>5. \A u \in Tickets : u # t => orgs'[u] = orgs[u]
    BY <2>1, <1>1 DEF Inv, TypeOK
  <2>6. \A p \in {0, 1} : Counted(t, p)'
    BY <2>3 DEF Counted
  <2>q. QED
    BY <2>2, <2>4, <2>5, <2>6 DEF CountInv, CountTrails
<1>4. CASE Suggest(k) /\ ~Outage
  <2>1. PICK t \in Tickets : t = task[k].ticket
    BY <1>1, <1>4 DEF Suggest
  <2>2. PICK p \in Priorities : p = task[k].seen.priority
    BY <1>1 DEF TaskRecord, Row
  <2>3. PICK n : n = Cardinality(orgs[t])
    OBVIOUS
  <2>4. PICK ps : ps = Suggestion(n, p, t \in Critical)
    OBVIOUS
  <2>5. /\ t = task[k].ticket /\ n = Cardinality(orgs[t]) /\ best[t] <= p
        /\ ps = Suggestion(n, p, t \in Critical)
        /\ buttons' = buttons \cup {[ticket |-> t, priority |-> q] : q \in ps}
        /\ UNCHANGED <<orgs, best, faults>>
    <3>1. best[t] <= p
      BY <1>4, <2>1, <2>2 DEF Suggest, CountInv, BestKnown
    <3>q. QED
      BY <1>4, <2>1, <2>2, <2>3, <2>4, <3>1 DEF Suggest
  <2>6. ASSUME NEW q \in ps, q \in Priorities
        PROVE  Reached(t, q)'
    <3>1. PICK b : b = [ticket |-> t, priority |-> q]
      OBVIOUS
    <3>2. b \in buttons'
      BY <2>5, <3>1
    <3>3. b.ticket = t /\ b.priority <= q
      BY <2>6, <3>1 DEF Priorities
    <3>q. QED
      BY <3>2, <3>3 DEF Reached
  <2>7. \A q \in {0, 1} : best[t] <= q => Reached(t, q)'
    BY <2>5 DEF Reached
  <2>8. ASSUME n >= Many, t \in Critical
        PROVE  Reached(t, 0)' /\ Reached(t, 1)'
    <3>1. p = 0 \/ 0 \in ps
      BY <2>5, <2>8 DEF Suggestion
    <3>2. Reached(t, 0)'
      BY <1>1, <2>5, <2>6, <2>7, <3>1 DEF Priorities
    <3>3. \A b \in buttons' : b.priority \in Priorities
      BY <1>1, StepTables DEF TablesOK
    <3>q. QED
      BY <1>1, <3>2, <3>3 DEF Reached, Priorities
  <2>9. ASSUME n >= Several, ~(n >= Many /\ t \in Critical)
        PROVE  Reached(t, 1)'
    <3>1. p <= 1 \/ 1 \in ps
      BY <2>5, <2>9 DEF Suggestion, Priorities
    <3>q. QED
      BY <1>1, <2>5, <2>6, <2>7, <3>1 DEF Priorities
  <2>10. ASSUME faults' = 0, NEW u \in Tickets, u # t, NEW q \in {0, 1}, Counted(u, q)
        PROVE  Counted(u, q)'
    <3>1. ~WillCount(k, u)
      BY <2>5, <2>10 DEF WillCount
    <3>q. QED
      BY <1>1, <2>5, <2>10, <3>1 DEF Counted, Reached, WillCount
  <2>q. QED
    BY <2>5, <2>8, <2>9, <2>10 DEF CountInv, CountTrails, Counted
<1>5. CASE PostCard(k) /\ ~Outage
  <2>1. UNCHANGED <<orgs, buttons, faults>>
    BY <1>5 DEF PostCard
  <2>2. \A t \in Tickets : WillCount(k, t) => WillCount(k, t)'
    <3>1. SUFFICES ASSUME NEW t \in Tickets, WillCount(k, t) PROVE WillCount(k, t)'
      OBVIOUS
    <3>2. AfterCard(k) = "count"
      BY <1>5, <3>1 DEF PostCard, WillCount, AfterCard
    <3>q. QED
      BY <1>1, <1>5, <3>1, <3>2 DEF PostCard, WillCount, Goto, TasksOK, TaskRecord
  <2>q. QED
    BY <1>1, <2>1, <2>2, CountKept
<1>6. CASE ~Outage /\ ~WriteOrg(k) /\ ~Suggest(k) /\ ~PostCard(k)
  <2>1. UNCHANGED <<orgs, buttons, faults>>
    BY <1>6 DEF Step, Fail, WritePriority, WriteType, Audit, WriteReply, WriteDeadline, WriteCsm,
       ReadTicket, ReadOrgs, ReadPriority, PushPriority, RemoveLabel, AddLabel, ReadForCount, data
  <2>2. \A t \in Tickets : WillCount(k, t) => WillCount(k, t)'
    BY <1>1, <1>6 DEF Step, Fail, WritePriority, WriteType, Audit, WriteReply, WriteDeadline,
       WriteCsm, ReadTicket, ReadOrgs, ReadPriority, PushPriority, RemoveLabel, AddLabel,
       ReadForCount, WillCount, Goto, Finish, TasksOK, TaskRecord
  <2>q. QED
    BY <1>1, <2>1, <2>2, CountKept
<1>q. QED
  BY <1>2, <1>3, <1>4, <1>5, <1>6

\* However handlers overlap, a ticket with enough organisations has had the priority
\* they ask for, or the SE was offered it, for any thresholds.
THEOREM AlwaysSuggestedInTime == Spec => []SuggestedInTime
<1>1. CountInv /\ [Next]_vars => CountInv'
  <2>1. SUFFICES ASSUME CountInv, [Next]_vars PROVE CountInv'
    OBVIOUS
  <2>2. CASE \E k \in Tasks : Step(k) \/ Fail(k)
    BY <2>1, <2>2, NextInv, StepBest, StepTrails DEF CountInv
  <2>3. CASE \E k \in Tasks, t \in Tickets : Start(k, t)
    BY <2>1, <2>3, StartCount
  <2>4. CASE UNCHANGED vars
    BY <2>1, <2>4, NextInv DEF vars, CountInv, BestKnown, CountTrails, Counted, Reached, WillCount
  <2>q. QED
    BY <2>1, <2>2, <2>3, <2>4 DEF Next
<1>2. CountInv => SuggestedInTime
  BY DEF CountInv, CountTrails, Counted, SuggestedInTime, Idle, WillCount
<1>q. QED
  BY <1>1, <1>2, InitCount, PTL DEF Spec

-----------------------------------------------------------------------------
(* The issue, the audit rows and the card follow the ticket.               *)

\* The issue and the audit rows of a ticket at rest.
Labelled(t) == linear[t].labels = {row[t].type}
Pushed(t) == linear[t].priority = ToLinear[row[t].priority]
Even(t) ==
  /\ Pushed(t) /\ Labelled(t)
  /\ logged[t].priority = row[t].priority /\ logged[t].type = row[t].type

\* What a handler with record r has read and decided is still true.
Knows(r) ==
  LET t == r.ticket IN
  /\ r.pc \in {"priority", "push", "linear"} => r.kind = "priority"
  /\ r.pc \in {"unlabel", "label"} => r.kind = "reclassify"
  /\ r.pc \in {"count", "suggest"} => r.kind \in {"add", "merge"}
  /\ r.pc = "type" => /\ r.kind \in {"reclassify", "platform"} /\ r.seen.type = row[t].type
                      /\ r.kind = "platform" => r.to.type = row[t].type
  /\ r.pc = "audit" => r.kind \in {"priority", "reclassify"}
  /\ r.pc = "audit" /\ r.kind = "priority" => r.to.priority = row[t].priority
  /\ r.pc = "linear" => r.to.priority = row[t].priority
  /\ r.kind = "reclassify" /\ r.pc \in {"audit", "card", "names", "post", "unlabel", "label"} =>
       r.to.type = row[t].type
  /\ r.pc \in {"reply", "deadline", "csm"} => r.kind \in {"reply", "deadline", "csm"}
  /\ r.pc = "org" => r.kind \in {"add", "merge"}

\* What it has still to do is all that is missing.
Books(r) ==
  LET t == r.ticket IN
  /\ logged[t].priority = row[t].priority \/ (r.pc = "audit" /\ r.kind = "priority")
  /\ logged[t].type = row[t].type \/ (r.pc = "audit" /\ r.kind = "reclassify")
  /\ \/ Pushed(t)
     \/ r.kind = "priority" /\ r.pc \in {"audit", "card", "names", "post", "push", "linear"}
  /\ IF r.pc = "label" THEN linear[t].labels = {}
     ELSE IF r.kind = "reclassify" /\ r.pc \in {"audit", "card", "names", "post", "unlabel"}
       THEN linear[t].labels = {r.seen.type}
       ELSE Labelled(t)

\* The card is, or will be, what the handler has drawn.
Drawn(r) ==
  LET t == r.ticket IN
  /\ r.pc = "names" => r.view.row = row[t]
  /\ r.pc = "post" => r.view = Shown(t)
  /\ r.pc \in {"push", "linear", "unlabel", "label", "count", "suggest"} /\ r.kind # "merge" =>
       card[t] = Shown(t)

InCharge(k) ==
  /\ \A j \in Tasks \ {k} : task[j].pc = "idle"
  /\ faults = 0 => /\ Knows(task[k]) /\ Books(task[k]) /\ Drawn(task[k])
                   /\ \A u \in Tickets \ {task[k].ticket} : Even(u)

FollowInv ==
  /\ Inv
  /\ ~raced => /\ \A k \in Tasks : task[k].pc # "idle" => InCharge(k)
               /\ Idle /\ faults = 0 => \A t \in Tickets : Even(t)

LEMMA FollowInit == Init => FollowInv
<1> SUFFICES ASSUME Init PROVE FollowInv
  OBVIOUS
<1>1. Inv /\ \A k \in Tasks : task[k].pc = "idle"
  BY InitInv, NoTaskTyped DEF Init
<1>2. \A t \in Tickets : Even(t)
  BY DEF Init, Even, Pushed, Labelled
<1>q. QED
  BY <1>1, <1>2 DEF FollowInv

\* A handler starts: it knows what it has just read.
LEMMA StartFollows ==
  ASSUME Inv, NEW k \in Tasks, NEW t \in Tickets, Start(k, t), Even(t)
  PROVE  Knows(task[k])' /\ Books(task[k])' /\ Drawn(task[k])'
<1>1. /\ UNCHANGED <<row, orgs, csm, card, linear, logged>> /\ task'[k].ticket = t
      /\ Fresh(task'[k], t)
  BY StartTyped
<1>2. Knows(task[k])'
  BY <1>1 DEF Knows, Fresh
<1>3. Books(task[k])' /\ Drawn(task[k])'
  BY <1>1 DEF Books, Drawn, Even, Pushed, Labelled, Fresh
<1>q. QED
  BY <1>2, <1>3

\* A handler at work, while nothing was lost.
Works(k) ==
  /\ task[k].pc # "idle" /\ Knows(task[k]) /\ Books(task[k]) /\ Drawn(task[k])
  /\ \A u \in Tickets \ {task[k].ticket} : Even(u)

\* What its steps have in common.
LEMMA AtWork ==
  ASSUME Inv, NEW k \in Tasks, Works(k)
  PROVE  /\ task \in [Tasks -> TaskRecord] /\ task[k] \in TaskRecord
         /\ task[k].ticket \in Tickets /\ task[k].to \in Row /\ task[k].view \in View
         /\ row \in [Tickets -> Row] /\ orgs \in [Tickets -> SUBSET Orgs]
         /\ card \in [Tickets -> View]
         /\ linear \in [Tickets -> [priority: 1 .. 4, labels: SUBSET Types]]
         /\ logged \in [Tickets -> [priority: Priorities, type: Types]]
BY DEF Works, Inv, TypeOK, SlotOK, TaskRecord

\* It writes the row.
LEMMA FollowWrite ==
  ASSUME Inv, NEW k \in Tasks, Works(k),
         WritePriority(k) \/ WriteType(k) \/ WriteReply(k) \/ WriteDeadline(k)
  PROVE  Works(k)'
<1>1. PICK t \in Tickets : t = task[k].ticket
  BY AtWork
<1>2. PICK r \in TaskRecord : r = task[k]
  BY AtWork
<1>3. UNCHANGED <<orgs, csm, card, linear, logged>>
  BY DEF WritePriority, WriteType, WriteReply, WriteDeadline
<1>4. PICK new :
        /\ row' = [row EXCEPT ![t] = new]
        /\ r.pc # "priority" => new.priority = row[t].priority
        /\ r.pc # "type" => new.type = row[t].type
        /\ r.pc = "priority" => new.priority = r.to.priority
        /\ r.pc = "type" => new.type = r.to.type
  <2>1. row[t] \in Row
    BY <1>1, AtWork
  <2>2. CASE WritePriority(k)
    <3>1. PICK new : new = [row[t] EXCEPT !.priority = r.to.priority]
      OBVIOUS
    <3>q. QED
      BY <1>1, <1>2, <2>1, <2>2, <3>1 DEF WritePriority, Row
  <2>3. CASE WriteType(k)
    <3>1. PICK new : new = [row[t] EXCEPT !.type = r.to.type, !.subtype = r.to.subtype]
      OBVIOUS
    <3>2. row' = [row EXCEPT ![t].type = r.to.type, ![t].subtype = r.to.subtype]
      BY <1>1, <1>2, <2>3 DEF WriteType
    <3>3. row' = [row EXCEPT ![t] = new]
      BY <3>1, <3>2, AtWork
    <3>4. new.type = r.to.type /\ new.priority = row[t].priority /\ r.pc = "type"
      BY <1>2, <2>1, <2>3, <3>1 DEF WriteType, Row
    <3>q. QED
      BY <3>3, <3>4
  <2>4. CASE WriteReply(k)
    <3>1. PICK new : new = [row[t] EXCEPT !.reply = r.to.reply]
      OBVIOUS
    <3>q. QED
      BY <1>1, <1>2, <2>1, <2>4, <3>1 DEF WriteReply, Row
  <2>5. CASE WriteDeadline(k)
    <3>1. PICK new : new = [row[t] EXCEPT !.deadline = r.to.deadline]
      OBVIOUS
    <3>q. QED
      BY <1>1, <1>2, <2>1, <2>5, <3>1 DEF WriteDeadline, Row
  <2>q. QED
    BY <2>2, <2>3, <2>4, <2>5
<1>5. row'[t] = new /\ \A u \in Tickets \ {t} : row'[u] = row[u]
  BY <1>4, AtWork
<1>6. PICK s : s = task'[k]
  OBVIOUS
<1>7. /\ s.ticket = t /\ s.kind = r.kind /\ s.to = r.to /\ s.seen = r.seen
      /\ s.pc = IF r.kind \in {"priority", "reclassify"} THEN "audit" ELSE "card"
      /\ r.pc \in {"priority", "type", "reply", "deadline"}
      /\ r.kind = "priority" => r.pc = "priority"
      /\ r.kind = "reclassify" => r.pc = "type"
  BY <1>1, <1>2, <1>6, AtWork DEF WritePriority, WriteType, WriteReply, WriteDeadline, Goto,
     TaskRecord, Works, Knows
<1>8. Knows(task[k])'
  BY <1>1, <1>2, <1>4, <1>5, <1>6, <1>7 DEF Works, Knows
<1>9. Books(task[k])' /\ Drawn(task[k])'
  BY <1>1, <1>2, <1>3, <1>4, <1>5, <1>6, <1>7 DEF Works, Knows, Books, Drawn, Pushed, Labelled
<1>10. \A u \in Tickets \ {t} : Even(u)'
  BY <1>1, <1>3, <1>5 DEF Works, Even, Pushed, Labelled
<1>q. QED
  BY <1>6, <1>7, <1>8, <1>9, <1>10 DEF Works

\* It records what it wrote, adds an organisation, or names a CSM.
LEMMA FollowRecord ==
  ASSUME Inv, NEW k \in Tasks, Works(k), Audit(k) \/ WriteOrg(k) \/ WriteCsm(k)
  PROVE  Works(k)'
<1>1. PICK t \in Tickets : t = task[k].ticket
  BY AtWork
<1>2. PICK r \in TaskRecord : r = task[k]
  BY AtWork
<1>3. UNCHANGED <<row, card, linear>>
  BY DEF Audit, WriteOrg, WriteCsm
<1>4. PICK s : s = task'[k]
  OBVIOUS
<1>5. /\ s.ticket = t /\ s.kind = r.kind /\ s.to = r.to /\ s.seen = r.seen
      /\ r.pc = "audit" => s.pc = "card"
      /\ r.pc = "org" => s.pc = IF r.kind = "add" THEN "card" ELSE "count"
      /\ r.pc = "csm" => s.pc \in {"csm", "card"}
      /\ r.pc \in {"audit", "org", "csm"}
  <2>1. CASE WriteCsm(k)
    <3>1. CASE task[k].queue = {} /\ Goto(k, "card")
      BY <1>1, <1>2, <1>4, <2>1, <3>1, AtWork DEF WriteCsm, Goto, TaskRecord
    <3>2. CASE \E o \in task[k].queue : task' = [task EXCEPT ![k].queue = @ \ {o}]
      <4>1. PICK o \in task[k].queue : task' = [task EXCEPT ![k].queue = @ \ {o}]
        BY <3>2
      <4>2. PICK rec : rec = [r EXCEPT !.queue = @ \ {o}]
        OBVIOUS
      <4>3. task' = [task EXCEPT ![k] = rec]
        BY <1>2, <4>1, <4>2
      <4>4. s = rec /\ r.pc = "csm"
        BY <1>2, <1>4, <2>1, <4>3, AtWork DEF WriteCsm
      <4>q. QED
        BY <1>1, <1>2, <4>2, <4>4 DEF TaskRecord
    <3>q. QED
      BY <2>1, <3>1, <3>2 DEF WriteCsm
  <2>2. CASE Audit(k) \/ WriteOrg(k)
    BY <1>1, <1>2, <1>4, <2>2, AtWork DEF Audit, WriteOrg, Goto, TaskRecord
  <2>q. QED
    BY <2>1, <2>2
<1>6. Knows(task[k])'
  BY <1>1, <1>2, <1>3, <1>4, <1>5 DEF Works, Knows
<1>7. /\ \A u \in Tickets \ {t} : logged'[u] = logged[u]
      /\ r.pc # "audit" => logged' = logged
      /\ r.pc = "audit" /\ r.kind = "priority" =>
           logged'[t].priority = r.to.priority /\ logged'[t].type = logged[t].type
      /\ r.pc = "audit" /\ r.kind = "reclassify" =>
           logged'[t].type = r.to.type /\ logged'[t].priority = logged[t].priority
  BY <1>1, <1>2, AtWork DEF Audit, WriteOrg, WriteCsm
<1>8. Books(task[k])' /\ Drawn(task[k])'
  BY <1>1, <1>2, <1>3, <1>4, <1>5, <1>7 DEF Works, Knows, Books, Drawn, Pushed, Labelled
<1>9. \A u \in Tickets \ {t} : Even(u)'
  BY <1>1, <1>3, <1>7 DEF Works, Even, Pushed, Labelled
<1>q. QED
  BY <1>4, <1>5, <1>6, <1>8, <1>9 DEF Works

\* It reads for the card, for Linear, or for the count.
LEMMA FollowRead ==
  ASSUME Inv, NEW k \in Tasks, Works(k),
         ReadTicket(k) \/ ReadOrgs(k) \/ ReadPriority(k) \/ ReadForCount(k)
  PROVE  Works(k)'
<1>1. PICK t \in Tickets : t = task[k].ticket
  BY AtWork
<1>2. PICK r \in TaskRecord : r = task[k]
  BY AtWork
<1>3. UNCHANGED <<row, orgs, csm, card, linear, logged>>
  BY DEF ReadTicket, ReadOrgs, ReadPriority, ReadForCount, data
<1>4. PICK s : s = task'[k]
  OBVIOUS
<1>5. /\ s.ticket = t /\ s.kind = r.kind /\ s.to.type = r.to.type
      /\ r.pc \in {"card", "names", "push", "count"}
      /\ r.pc # "count" => s.seen = r.seen
      /\ r.pc = "card" => s.pc = "names" /\ s.view.row = row[t]
      /\ r.pc = "names" => s.pc = "post" /\ s.view = [r.view EXCEPT !.orgs = orgs[t],
                                                                    !.csms = CsmsOf(orgs[t])]
      /\ r.pc = "push" => s.pc = "linear" /\ s.to.priority = row[t].priority
      /\ r.pc = "count" => s.pc = "suggest"
  <2>1. CASE ReadTicket(k)
    <3>1. PICK view : view = [r.view EXCEPT !.row = row[t]]
      OBVIOUS
    <3>2. view.row = row[t]
      BY <3>1 DEF TaskRecord, View
    <3>3. PICK rec : rec = [r EXCEPT !.pc = "names", !.view = view]
      OBVIOUS
    <3>4. task' = [task EXCEPT ![k] = rec]
      BY <1>1, <1>2, <2>1, <3>1, <3>3, AtWork DEF ReadTicket, TaskRecord
    <3>5. s = rec /\ r.pc = "card"
      BY <1>2, <1>4, <2>1, <3>4, AtWork DEF ReadTicket
    <3>q. QED
      BY <1>1, <1>2, <3>2, <3>3, <3>5 DEF TaskRecord
  <2>2. CASE ReadOrgs(k)
    <3>1. PICK view : view = [r.view EXCEPT !.orgs = orgs[t], !.csms = CsmsOf(orgs[t])]
      OBVIOUS
    <3>2. PICK rec : rec = [r EXCEPT !.pc = "post", !.view = view]
      OBVIOUS
    <3>3. task' = [task EXCEPT ![k] = rec]
      BY <1>1, <1>2, <2>2, <3>1, <3>2, AtWork DEF ReadOrgs, TaskRecord
    <3>4. s = rec /\ r.pc = "names"
      BY <1>2, <1>4, <2>2, <3>3, AtWork DEF ReadOrgs
    <3>q. QED
      BY <1>1, <1>2, <3>1, <3>2, <3>4 DEF TaskRecord
  <2>3. CASE ReadPriority(k)
    <3>1. PICK to : to = [r.to EXCEPT !.priority = row[t].priority]
      OBVIOUS
    <3>2. to.priority = row[t].priority /\ to.type = r.to.type
      BY <3>1 DEF TaskRecord, Row
    <3>3. PICK rec : rec = [r EXCEPT !.pc = "linear", !.to = to]
      OBVIOUS
    <3>4. task' = [task EXCEPT ![k] = rec]
      BY <1>1, <1>2, <2>3, <3>1, <3>3, AtWork DEF ReadPriority, TaskRecord
    <3>5. s = rec /\ r.pc = "push"
      BY <1>2, <1>4, <2>3, <3>4, AtWork DEF ReadPriority
    <3>q. QED
      BY <1>1, <1>2, <3>2, <3>3, <3>5 DEF TaskRecord
  <2>4. CASE ReadForCount(k)
    <3>1. PICK rec : rec = [r EXCEPT !.pc = "suggest", !.seen = row[t]]
      OBVIOUS
    <3>2. task' = [task EXCEPT ![k] = rec]
      BY <1>1, <1>2, <2>4, <3>1 DEF ReadForCount
    <3>3. s = rec /\ r.pc = "count"
      BY <1>2, <1>4, <2>4, <3>2, AtWork DEF ReadForCount
    <3>q. QED
      BY <1>1, <1>2, <3>1, <3>3 DEF TaskRecord
  <2>q. QED
    BY <2>1, <2>2, <2>3, <2>4
<1>6. Knows(task[k])' /\ Books(task[k])'
  BY <1>1, <1>2, <1>3, <1>4, <1>5 DEF Works, Knows, Books, Pushed, Labelled
<1>7. Drawn(task[k])'
  <2>1. CASE r.pc = "names"
    <3>1. r.view \in View /\ r.view.row = row[t]
      BY <1>1, <1>2, <2>1, AtWork DEF Works, Drawn
    <3>2. s.view = Shown(t)
      BY <1>5, <2>1, <3>1 DEF View, Shown
    <3>q. QED
      BY <1>3, <1>4, <1>5, <2>1, <3>2 DEF Drawn, Shown, CsmsOf
  <2>2. CASE r.pc # "names"
    BY <1>1, <1>2, <1>3, <1>4, <1>5, <2>2 DEF Works, Drawn, Shown, CsmsOf
  <2>q. QED
    BY <2>1, <2>2
<1>8. \A u \in Tickets \ {t} : Even(u)'
  BY <1>1, <1>3 DEF Works, Even, Pushed, Labelled
<1>q. QED
  BY <1>4, <1>5, <1>6, <1>7, <1>8 DEF Works

\* It draws the card, and is done or goes on.
LEMMA FollowCard ==
  ASSUME Inv, NEW k \in Tasks, Works(k), PostCard(k), faults' = faults, faults \in Nat,
         NEW t \in Tickets, t = task[k].ticket
  PROVE  /\ card'[t] = Shown(t)
         /\ task'[k].pc = "idle" => \A u \in Tickets : Even(u)'
         /\ task'[k].pc # "idle" => Works(k)'
<1>1. PICK r \in TaskRecord : r = task[k]
  BY AtWork
<1>2. /\ UNCHANGED <<row, orgs, csm, linear, logged>> /\ r.pc = "post"
      /\ card'[t] = Shown(t)
  BY <1>1, AtWork DEF PostCard, Outage, Works, Drawn
<1>3. PICK s : s = task'[k]
  OBVIOUS
<1>4. /\ AfterCard(k) # "idle" =>
           s.ticket = t /\ s.kind = r.kind /\ s.to = r.to /\ s.seen = r.seen /\ s.pc = AfterCard(k)
      /\ AfterCard(k) = "idle" => s.pc = "idle"
  BY <1>1, <1>3, AtWork, NoTaskTyped DEF PostCard, Goto, Finish, TaskRecord
<1>5. \A u \in Tickets \ {t} : Even(u)'
  BY <1>2 DEF Works, Even, Pushed, Labelled
<1>6. ASSUME AfterCard(k) = "idle" PROVE Even(t)'
  <2>1. /\ r.kind # "priority"
        /\ r.kind = "reclassify" => r.seen.type = r.to.type
    BY <1>1, <1>6 DEF AfterCard
  <2>q. QED
    BY <1>1, <1>2, <2>1 DEF Works, Knows, Books, Even, Pushed, Labelled
<1>7. ASSUME AfterCard(k) # "idle" PROVE Works(k)'
  <2>1. \/ r.kind = "priority" /\ s.pc = "push"
        \/ r.kind = "reclassify" /\ s.pc = "unlabel"
        \/ r.kind = "add" /\ s.pc = "count"
    BY <1>1, <1>4, <1>7 DEF AfterCard
  <2>2. Knows(task[k])' /\ Books(task[k])'
    BY <1>1, <1>2, <1>3, <1>4, <1>7, <2>1 DEF Works, Knows, Books, Pushed, Labelled
  <2>3. Drawn(task[k])'
    BY <1>2, <1>3, <1>4, <1>7, <2>1 DEF Drawn, Shown, CsmsOf
  <2>q. QED
    BY <1>3, <1>4, <1>5, <1>7, <2>1, <2>2, <2>3 DEF Works
<1>q. QED
  BY <1>2, <1>3, <1>4, <1>5, <1>6, <1>7

\* It takes the old label off,
LEMMA FollowLabel ==
  ASSUME Inv, NEW k \in Tasks, Works(k), RemoveLabel(k), faults' = faults, faults \in Nat
  PROVE  Works(k)'
<1>1. PICK t \in Tickets : t = task[k].ticket
  BY AtWork
<1>2. PICK r \in TaskRecord : r = task[k]
  BY AtWork
<1>3. PICK s : s = task'[k]
  OBVIOUS
<1>4. /\ UNCHANGED <<row, orgs, csm, card, logged>>
      /\ r.pc = "unlabel" /\ s = [r EXCEPT !.pc = "label"]
      /\ linear' = [linear EXCEPT ![t].labels = @ \ {r.seen.type}]
  <2>1. PICK rec : rec = [r EXCEPT !.pc = "label"]
    OBVIOUS
  <2>2. task' = [task EXCEPT ![k] = rec] /\ UNCHANGED <<row, orgs, csm, card, logged>>
        /\ r.pc = "unlabel"
    BY <1>2, <2>1 DEF RemoveLabel, Goto
  <2>3. linear' = [linear EXCEPT ![t].labels = @ \ {r.seen.type}]
    BY <1>1, <1>2 DEF RemoveLabel, Outage
  <2>q. QED
    BY <1>3, <2>1, <2>2, <2>3, AtWork
<1>5. s.ticket = t /\ s.kind = r.kind /\ s.to = r.to /\ s.pc = "label" /\ r.kind = "reclassify"
  BY <1>1, <1>2, <1>4 DEF TaskRecord, Works, Knows
<1>6. linear[t].labels = {r.seen.type}
  BY <1>1, <1>2, <1>4, <1>5 DEF Works, Books
<1>7. /\ linear'[t].labels = {} /\ linear'[t].priority = linear[t].priority
      /\ \A u \in Tickets \ {t} : linear'[u] = linear[u]
  BY <1>4, <1>6, AtWork
<1>8. Knows(task[k])' /\ Books(task[k])' /\ Drawn(task[k])'
  BY <1>1, <1>2, <1>3, <1>4, <1>5, <1>7 DEF Works, Knows, Books, Drawn, Pushed, Shown, CsmsOf
<1>9. \A u \in Tickets \ {t} : Even(u)'
  BY <1>1, <1>4, <1>7 DEF Works, Even, Pushed, Labelled
<1>q. QED
  BY <1>3, <1>5, <1>8, <1>9 DEF Works

\* and its last step makes the issue, the rows and the card agree with the ticket.
LEMMA FollowLast ==
  ASSUME Inv, NEW k \in Tasks, Works(k), PushPriority(k) \/ AddLabel(k) \/ Suggest(k),
         faults' = faults, faults \in Nat, NEW t \in Tickets, t = task[k].ticket
  PROVE  /\ task[k].kind # "merge" => card'[t] = Shown(t)
         /\ \A u \in Tickets : Even(u)'
         /\ task'[k].pc = "idle"
<1>1. PICK r \in TaskRecord : r = task[k]
  BY AtWork
<1>2. /\ UNCHANGED <<row, card, logged>> /\ task'[k].pc = "idle"
      /\ r.pc \in {"linear", "label", "suggest"}
  BY <1>1, AtWork, NoTaskTyped DEF PushPriority, AddLabel, Suggest, Finish
<1>3. r.kind # "merge" => card[t] = Shown(t)
  BY <1>1, <1>2 DEF Works, Drawn
<1>4. /\ \A u \in Tickets \ {t} : linear'[u] = linear[u]
      /\ r.pc = "linear" => /\ linear'[t].priority = ToLinear[row[t].priority]
                            /\ linear'[t].labels = linear[t].labels
      /\ r.pc = "label" => /\ linear'[t].priority = linear[t].priority
                           /\ linear'[t].labels = linear[t].labels \cup {row[t].type}
      /\ r.pc = "suggest" => linear' = linear
  <2>1. CASE PushPriority(k)
    <3>1. r.to.priority = row[t].priority /\ r.pc = "linear"
      BY <1>1, <2>1 DEF PushPriority, Works, Knows
    <3>2. linear' = [linear EXCEPT ![t].priority = ToLinear[r.to.priority]]
      BY <1>1, <2>1 DEF PushPriority, Outage
    <3>q. QED
      BY <3>1, <3>2, AtWork
  <2>2. CASE AddLabel(k)
    <3>1. r.to.type = row[t].type /\ r.pc = "label"
      BY <1>1, <2>2 DEF AddLabel, Works, Knows
    <3>2. linear' = [linear EXCEPT ![t].labels = @ \cup {r.to.type}]
      BY <1>1, <2>2 DEF AddLabel, Outage
    <3>q. QED
      BY <3>1, <3>2, AtWork
  <2>3. CASE Suggest(k)
    BY <1>1, <2>3 DEF Suggest
  <2>q. QED
    BY <2>1, <2>2, <2>3
<1>5. Even(t)'
  BY <1>1, <1>2, <1>4 DEF Works, Knows, Books, Even, Pushed, Labelled
<1>6. \A u \in Tickets \ {t} : Even(u)'
  BY <1>2, <1>4 DEF Works, Even, Pushed, Labelled
<1>q. QED
  BY <1>1, <1>2, <1>3, <1>5, <1>6

LEMMA FollowStep ==
  ASSUME FollowInv, NEW k \in Tasks, Step(k) \/ Fail(k), Inv'
  PROVE  /\ FollowInv'
         /\ ~raced' /\ faults' = 0 /\ task'[k].pc = "idle" /\ task[k].kind # "merge" =>
              \A t \in Tickets : t = task[k].ticket => card'[t] = Shown(t)
<1>1. /\ Inv /\ faults \in Nat /\ raced' = raced /\ task[k].pc # "idle"
      /\ \A j \in Tasks \ {k} : task'[j] = task[j]
      /\ (UNCHANGED faults /\ ~Fail(k)) \/ faults' = faults + 1
  <2>1. (UNCHANGED faults /\ ~Fail(k)) \/ Outage
    BY DEF FollowInv, Inv, TypeOK, Step, Fail, WritePriority, WriteType, Audit, WriteReply,
       WriteDeadline, WriteOrg, WriteCsm, ReadTicket, ReadOrgs, PostCard, ReadPriority,
       PushPriority, RemoveLabel, AddLabel, ReadForCount, Suggest, Outage
  <2>2. raced' = raced /\ task[k].pc # "idle"
    BY DEF Step, Fail, WritePriority, WriteType, Audit, WriteReply, WriteDeadline, WriteOrg,
       WriteCsm, ReadTicket, ReadOrgs, PostCard, ReadPriority, PushPriority, RemoveLabel, AddLabel,
       ReadForCount, Suggest
  <2>q. QED
    BY <2>1, <2>2, StepTasks DEF FollowInv, Inv, TypeOK, Outage
<1>2. SUFFICES ASSUME ~raced
               PROVE  /\ FollowInv'
                      /\ faults' = 0 /\ task'[k].pc = "idle" /\ task[k].kind # "merge" =>
                           \A t \in Tickets : t = task[k].ticket => card'[t] = Shown(t)
  BY <1>1 DEF FollowInv
<1>3. InCharge(k)
  BY <1>1, <1>2 DEF FollowInv
<1>4. \A j \in Tasks \ {k} : task'[j].pc = "idle"
  BY <1>1, <1>3 DEF InCharge
<1>5. ASSUME faults' = 0
      PROVE  /\ task'[k].pc # "idle" => Works(k)'
             /\ task'[k].pc = "idle" => \A u \in Tickets : Even(u)'
             /\ task'[k].pc = "idle" /\ task[k].kind # "merge" =>
                  \A t \in Tickets : t = task[k].ticket => card'[t] = Shown(t)
  <2>1. Works(k) /\ faults' = faults /\ Step(k)
    BY <1>1, <1>3, <1>5 DEF InCharge, Works
  <2>2. PICK t \in Tickets : t = task[k].ticket
    BY <1>1, <2>1, AtWork
  <2>3. CASE WritePriority(k) \/ WriteType(k) \/ WriteReply(k) \/ WriteDeadline(k)
    BY <1>1, <2>1, <2>3, FollowWrite DEF Works
  <2>4. CASE Audit(k) \/ WriteOrg(k) \/ WriteCsm(k)
    BY <1>1, <2>1, <2>4, FollowRecord DEF Works
  <2>5. CASE ReadTicket(k) \/ ReadOrgs(k) \/ ReadPriority(k) \/ ReadForCount(k)
    BY <1>1, <2>1, <2>5, FollowRead DEF Works
  <2>6. CASE PostCard(k)
    BY <1>1, <2>1, <2>2, <2>6, FollowCard
  <2>7. CASE RemoveLabel(k)
    BY <1>1, <2>1, <2>7, FollowLabel DEF Works
  <2>8. CASE PushPriority(k) \/ AddLabel(k) \/ Suggest(k)
    BY <1>1, <2>1, <2>2, <2>8, FollowLast
  <2>q. QED
    BY <2>1, <2>3, <2>4, <2>5, <2>6, <2>7, <2>8 DEF Step
<1>6. \A j \in Tasks : task'[j].pc # "idle" => InCharge(j)'
  <2>1. SUFFICES ASSUME task'[k].pc # "idle" PROVE InCharge(k)'
    BY <1>4
  <2>q. QED
    BY <1>4, <1>5, <2>1 DEF InCharge, Works
<1>7. Idle' /\ faults' = 0 => \A u \in Tickets : Even(u)'
  BY <1>5 DEF Idle
<1>q. QED
  BY <1>5, <1>6, <1>7 DEF FollowInv

LEMMA FollowStart ==
  ASSUME FollowInv, NEW k \in Tasks, NEW t \in Tickets, Start(k, t)
  PROVE  FollowInv'
<1>1. /\ Inv /\ Inv' /\ UNCHANGED <<row, orgs, csm, card, linear, logged, faults>>
      /\ task[k].pc = "idle" /\ task'[k].ticket = t /\ task'[k].pc # "idle"
      /\ \A j \in Tasks \ {k} : task'[j] = task[j]
  BY StartTyped DEF FollowInv
<1>2. ~raced' => ~raced /\ Idle
  BY DEF Start, SetPriority, Reclassify, TogglePlatformWide, ToggleReplyNeeded, SetDeadline, AddOrg,
     SetStakeholder, Begin
<1>3. SUFFICES ASSUME ~raced, Idle
               PROVE  InCharge(k)' /\ \A j \in Tasks \ {k} : task'[j].pc = "idle"
  BY <1>1, <1>2 DEF FollowInv, Idle
<1>4. \A j \in Tasks \ {k} : task'[j].pc = "idle"
  BY <1>1, <1>3 DEF Idle
<1>5. ASSUME faults' = 0
      PROVE  /\ Knows(task[k])' /\ Books(task[k])' /\ Drawn(task[k])'
             /\ \A u \in Tickets : Even(u)'
  <2>1. \A u \in Tickets : Even(u)
    BY <1>1, <1>3, <1>5 DEF FollowInv
  <2>2. \A u \in Tickets : Even(u)'
    BY <1>1, <2>1 DEF Even, Pushed, Labelled
  <2>q. QED
    BY <1>1, <2>1, <2>2, StartFollows
<1>q. QED
  BY <1>4, <1>5 DEF InCharge

LEMMA FollowNext == FollowInv /\ [Next]_vars => FollowInv'
<1>1. SUFFICES ASSUME FollowInv, [Next]_vars PROVE FollowInv'
  OBVIOUS
<1>2. CASE \E k \in Tasks : Step(k) \/ Fail(k)
  BY <1>1, <1>2, NextInv, FollowStep DEF FollowInv
<1>3. CASE \E k \in Tasks, t \in Tickets : Start(k, t)
  BY <1>1, <1>3, FollowStart
<1>4. CASE UNCHANGED vars
  <2>1. /\ Inv' /\ UNCHANGED <<row, orgs, csm, card, linear, logged, task, raced, faults>>
    BY <1>1, <1>4, NextInv DEF vars, FollowInv
  <2>2. \A t \in Tickets : Even(t) => Even(t)'
    BY <2>1 DEF Even, Pushed, Labelled
  <2>3. ASSUME NEW k \in Tasks, Knows(task[k]), Books(task[k]), Drawn(task[k])
        PROVE  Knows(task[k])' /\ Books(task[k])' /\ Drawn(task[k])'
    BY <2>1, <2>3 DEF Knows, Books, Drawn, Pushed, Labelled, Shown, CsmsOf
  <2>4. \A k \in Tasks : InCharge(k) => InCharge(k)'
    BY <2>1, <2>2, <2>3 DEF InCharge
  <2>q. QED
    BY <1>1, <2>1, <2>2, <2>4 DEF FollowInv, Idle
<1>q. QED
  BY <1>1, <1>2, <1>3, <1>4 DEF Next

\* Of edits one at a time, none leaves the issue with another priority or label.
THEOREM LinearAlwaysFollows == Spec => []LinearFollows
<1>1. ASSUME FollowInv PROVE LinearFollows
  <2>1. SUFFICES ASSUME ~raced, faults = 0, Idle, NEW t \in Tickets
                 PROVE  linear[t] = [priority |-> ToLinear[row[t].priority], labels |-> {row[t].type}]
    BY DEF LinearFollows
  <2>2. Pushed(t) /\ Labelled(t)
    BY <1>1, <2>1 DEF FollowInv, Even
  <2>3. linear[t] \in [priority: 1 .. 4, labels: SUBSET Types]
    BY <1>1 DEF FollowInv, Inv, TypeOK
  <2>q. QED
    BY <2>2, <2>3 DEF Pushed, Labelled
<1>q. QED
  BY <1>1, FollowInit, FollowNext, PTL DEF Spec

\* Of edits one at a time, none is missing from the audit rows.
THEOREM AuditAlwaysLeads == Spec => []AuditLeadsHere
<1>1. ASSUME FollowInv PROVE AuditLeadsHere
  <2>1. SUFFICES ASSUME ~raced, faults = 0, Idle, NEW t \in Tickets
                 PROVE  logged[t] = [priority |-> row[t].priority, type |-> row[t].type]
    BY DEF AuditLeadsHere
  <2>2. logged[t].priority = row[t].priority /\ logged[t].type = row[t].type
    BY <1>1, <2>1 DEF FollowInv, Even
  <2>3. logged[t] \in [priority: Priorities, type: Types]
    BY <1>1 DEF FollowInv, Inv, TypeOK
  <2>q. QED
    BY <2>2, <2>3
<1>q. QED
  BY <1>1, FollowInit, FollowNext, PTL DEF Spec

\* Of edits one at a time, each leaves the card of its ticket up to date.
THEOREM CardAlwaysFresh == Spec => CardFresh
<1> DEFINE Fresher ==
      \A k \in Tasks :
        /\ ~raced' /\ faults' = 0
        /\ task[k].pc # "idle" /\ task'[k].pc = "idle" /\ task[k].kind # "merge"
        => card'[task[k].ticket] = Shown(task[k].ticket)
<1>1. FollowInv /\ [Next]_vars => [Fresher]_vars
  <2>1. SUFFICES ASSUME FollowInv, Next, NEW k \in Tasks, ~raced', faults' = 0,
                        task[k].pc # "idle", task'[k].pc = "idle", task[k].kind # "merge"
                 PROVE  card'[task[k].ticket] = Shown(task[k].ticket)
    OBVIOUS
  <2>2. Inv' /\ task[k].ticket \in Tickets
    BY <2>1, NextInv DEF FollowInv, Inv, TypeOK, SlotOK
  <2>3. ASSUME NEW j \in Tasks, Step(j) \/ Fail(j) PROVE j = k
    BY <2>1, <2>3, StepTasks DEF FollowInv
  <2>4. ASSUME NEW j \in Tasks, NEW t \in Tickets, Start(j, t) PROVE FALSE
    BY <2>1, <2>4, StartTyped DEF FollowInv
  <2>q. QED
    BY <2>1, <2>2, <2>3, <2>4, FollowStep DEF Next
<1>q. QED
  BY <1>1, FollowInit, FollowNext, PTL DEF Spec, CardFresh
=============================================================================

--------------------------- MODULE PriorityMatrix ---------------------------
(***************************************************************************)
(* The priority a bug is logged with: what the customer is worth, and how  *)
(* bad it is.  Scores are kept times 200, so that they are whole numbers;  *)
(* none of the products lies so near a threshold that a float would land   *)
(* on the other side of it.                                                *)
(***************************************************************************)
EXTENDS Integers

Severities == {"blocking", "degraded", "cosmetic", "unsure"}
Weights == {"low", "medium", "high", "critical"}

\* What the score takes for each value; "unknown" is for a NULL too.
AcvWeight == [unknown |-> 1, small |-> 1, mid |-> 2, large |-> 3, enterprise |-> 4]
SentimentMultiplier == [positive |-> 8, neutral |-> 10, unknown |-> 10, negative |-> 15]
RenewalMultiplier == [committed |-> 18, stable |-> 20, unknown |-> 20, at_risk |-> 30]

\* An organisation, as far as it counts; "days" holds the days left until its
\* renewal, if the date is known.
Worth == [acv: DOMAIN AcvWeight, sentiment: DOMAIN SentimentMultiplier,
          renewal: DOMAIN RenewalMultiplier, days: {{}, {-1}, {90}, {91}, {182}, {183}}]

\* renewal_proximity_multiplier.
RenewalProximity(days) == IF days <= 90 THEN 30 ELSE IF days <= 182 THEN 25 ELSE 20

\* Mutant of RenewalFactor: overdue is far.
RenewalFactorUpcoming(o) ==
  IF o.days = {} THEN RenewalMultiplier[o.renewal]
  ELSE CHOOSE m \in {RenewalProximity(IF d < 0 THEN 999 ELSE d) : d \in o.days} : TRUE

\* A renewal date goes before the status.
RenewalFactor(o) ==
  IF o.days = {} THEN RenewalMultiplier[o.renewal]
  ELSE CHOOSE m \in {RenewalProximity(d) : d \in o.days} : TRUE

\* customer_weight.
CustomerWeight(o) ==
  LET score == AcvWeight[o.acv] * SentimentMultiplier[o.sentiment] * RenewalFactor(o) IN
  CASE score < 300 -> "low"
    [] score \in 300 .. 599 -> "medium"
    [] score \in 600 .. 999 -> "high"
    [] OTHER -> "critical"

\* The built-in matrix.
DefaultCells ==
  [low      |-> [blocking |-> 2, degraded |-> 3, cosmetic |-> 4, unsure |-> 3],
   medium   |-> [blocking |-> 1, degraded |-> 2, cosmetic |-> 3, unsure |-> 3],
   high     |-> [blocking |-> 1, degraded |-> 2, cosmetic |-> 3, unsure |-> 2],
   critical |-> [blocking |-> 1, degraded |-> 1, cosmetic |-> 3, unsure |-> 2]]

\* A file's cell is a priority, or 5 for a text that is none: that one is P3, and
\* P0 is P1.
LoadCell(entry) == CASE entry = 0 -> 1 [] entry = 5 -> 3 [] OTHER -> entry

\* PriorityMatrix.lookup in a loaded file, a partial map of cells: what is missing
\* is P3.
Lookup(file, weight, severity) ==
  IF <<weight, severity>> \in DOMAIN file THEN LoadCell(file[<<weight, severity>>]) ELSE 3

\* The files that matter for one cell: without it, or with any entry in it.
Files(weight, severity) ==
  {<<>>} \cup UNION {[{<<weight, severity>>} -> {entry}] : entry \in 0 .. 5}

\* AssignPriority.suggest, with the built-in matrix.
Assigned(o, severity) == DefaultCells[CustomerWeight(o)][severity]

\* What a bug may be logged with, whatever its customer and matrix.
LoggedWith ==
  {Assigned(o, s) : o \in Worth, s \in Severities}
    \cup UNION {{Lookup(f, w, s) : f \in Files(w, s)} : w \in Weights, s \in Severities}

\* The order of attention: o asks for at least as much of it as p.
AtLeast(o, p) ==
  /\ AcvWeight[o.acv] >= AcvWeight[p.acv]
  /\ SentimentMultiplier[o.sentiment] >= SentimentMultiplier[p.sentiment]
  /\ \/ \E d \in o.days : \E e \in p.days : d <= e
     \/ o.days = {} /\ p.days = {}
          /\ RenewalMultiplier[o.renewal] >= RenewalMultiplier[p.renewal]

\* What a bug is logged with although a customer that asks for no more gets a higher
\* priority for one as bad.
Overtaken ==
  {Assigned(c[1], c[3]) :
     c \in {c \in Worth \X Worth \X Severities :
              AtLeast(c[1], c[2]) /\ Assigned(c[1], c[3]) > Assigned(c[2], c[3])}}
=============================================================================

------------------------------ MODULE Scoring ------------------------------
(***************************************************************************)
(* What one server's active findings are worth (risk_scoring/): its score, *)
(* its priority, and the priority the triage router gives it.              *)
(*                                                                         *)
(* The aggregator writes servers.risk_score and risk_priority from all     *)
(* active findings; the router decides again, from the score and the five  *)
(* heaviest findings.  Module RiskPipeline has when this happens; here it  *)
(* is one step.                                                            *)
(*                                                                         *)
(* Scores are exact integers: weights, boosts and popularity in tenths,    *)
(* confidence in hundredths.  What floating point rounds is left out.      *)
(***************************************************************************)
EXTENDS Integers, FiniteSets, FiniteSetsExt

CONSTANTS
  Row,              \* findings a detector may report about the server
  KindOf,           \* KindOf[r]: detector <<head, rest>>, severity, confidence
  SeverityWeight,   \* SeverityWeight[severity]
  WeightOf(_),      \* the weight of the class of a detector's head
  Rules,            \* cross-validation: [require |-> sets of detectors, boost]
  Popularity        \* values of server_popularity.pop

ASSUME RowAssumption ==
  /\ IsFiniteSet(Row)
  /\ \A r \in Row : KindOf[r].severity \in {"critical", "high", "medium", "low", "info"}

VARIABLES
  active,     \* the rows with status active
  pop,        \* server_popularity.pop
  basis, basisPop,   \* what the last aggregation saw of these two
  score,      \* servers.risk_score
  priority,   \* servers.risk_priority
  routed      \* the priority last passed to triage, or "none"

vars == <<active, pop, basis, basisPop, score, priority, routed>>

Tenth == 10
Point == 10 * 10 * 100 * Tenth * Tenth      \* a score of 1.0
DigestSize == 5

Least(x, y) == IF x <= y THEN x ELSE y

Contribution(r) ==
  SeverityWeight[KindOf[r].severity] * WeightOf(KindOf[r].detector[1]) * KindOf[r].confidence

Base(F) == MapThenSumSet(Contribution, F)

Triggered(F) ==
  {rule \in Rules : \A req \in rule.require : \E r \in F : KindOf[r].detector \in req}

Boost(F) == MapThenSumSet(LAMBDA rule : rule.boost, Triggered(F))

\* Faulty: the sum is averaged over the findings.
ScoreAveraged(F, p) ==
  IF F = {} THEN 0
  ELSE Least(100 * Point, (Base(F) \div Cardinality(F)) * (Tenth + Boost(F)) * (Tenth + p))

\* Faulty: not capped.
ScoreUncapped(F, p) == Base(F) * (Tenth + Boost(F)) * (Tenth + p)

Score(F, p) == Least(100 * Point, Base(F) * (Tenth + Boost(F)) * (Tenth + p))

\* The five heaviest; which of equals come first is up to the database.
Digests(F) ==
  {D \in SUBSET F : /\ Cardinality(D) = Least(DigestSize, Cardinality(F))
                    /\ \A d \in D, e \in F \ D : Contribution(e) <= Contribution(d)}

Has(F, sev) == \E r \in F : KindOf[r].severity = sev
CriticalHighConf(F) ==
  \E r \in F : KindOf[r].severity = "critical" /\ KindOf[r].confidence >= 90
Detectors(F) == {KindOf[r].detector : r \in F}

\* Faulty: exactly three detectors are needed.
PriorityOfThree(F) ==
  IF CriticalHighConf(F) \/ (Has(F, "high") /\ Cardinality(Detectors(F)) = 3) THEN "P0"
  ELSE IF Has(F, "high") THEN "P1"
  ELSE IF Has(F, "medium") THEN "P2" ELSE "P3"

Priority(F) ==
  IF CriticalHighConf(F) \/ (Has(F, "high") /\ Cardinality(Detectors(F)) >= 3) THEN "P0"
  ELSE IF Has(F, "high") THEN "P1"
  ELSE IF Has(F, "medium") THEN "P2" ELSE "P3"

\* Faulty: a high score is P0.
AggPriorityEager(D, s) ==
  IF Priority(D) = "P0" \/ s >= 30 * Point THEN "P0" ELSE Priority(D)

\* _agg_priority: like Priority, but of a digest, and a high score is P1.
AggPriority(D, s) ==
  IF Priority(D) \notin {"P0", "P1"} /\ s >= 30 * Point THEN "P1" ELSE Priority(D)

\* Faulty: the gate is a tenth of the scale instead of a hundredth.
RouteAboveTen(F, D, s) ==
  IF s < 10 * Point \/ F = {} \/ AggPriority(D, s) \notin {"P0", "P1"}
  THEN "none" ELSE AggPriority(D, s)

\* route, up to the checks for duplicates.
Route(F, D, s) ==
  IF s < Point \/ F = {} \/ AggPriority(D, s) \notin {"P0", "P1"}
  THEN "none" ELSE AggPriority(D, s)

-----------------------------------------------------------------------------
Init ==
  /\ active = {}
  /\ pop \in Popularity
  /\ basis = {} /\ basisPop = 0
  /\ score = 0 /\ priority = "P3" /\ routed = "none"

Appear(r) ==
  /\ r \notin active
  /\ active' = active \cup {r}
  /\ UNCHANGED <<pop, basis, basisPop, score, priority, routed>>

Disappear(r) ==
  /\ r \in active
  /\ active' = active \ {r}
  /\ UNCHANGED <<pop, basis, basisPop, score, priority, routed>>

\* The popularity of the server is computed elsewhere, and only read here.
NewPopularity ==
  /\ pop' \in Popularity
  /\ UNCHANGED <<active, basis, basisPop, score, priority, routed>>

Aggregate(D) ==
  /\ D \in Digests(active)
  /\ basis' = active /\ basisPop' = pop
  /\ score' = Score(active, pop)
  /\ priority' = Priority(active)
  /\ routed' = Route(active, D, score')
  /\ UNCHANGED <<active, pop>>

Next ==
  \/ \E r \in Row : Appear(r) \/ Disappear(r)
  \/ NewPopularity
  \/ \E D \in SUBSET active : Aggregate(D)

Spec == Init /\ [][Next]_vars

-----------------------------------------------------------------------------
TypeOK ==
  /\ active \subseteq Row /\ basis \subseteq Row
  /\ pop \in Popularity /\ basisPop \in Popularity \cup {0}
  /\ score \in 0..(100 * Point)
  /\ priority \in {"P0", "P1", "P2", "P3"}
  /\ routed \in {"none", "P0", "P1"}

Urgency == [P0 |-> 4, P1 |-> 3, P2 |-> 2, P3 |-> 1, none |-> 0]

\* The router sees less than the aggregator, so it does not raise a server
\* above its priority - except to P1, for its score.
RouterWithinPriority ==
  Urgency[routed] > Urgency[priority] => routed = "P1" /\ score >= 30 * Point

\* As long as the digest holds every finding, the two decisions agree on
\* everything but the servers that score below 1 or from 30 on.
SmallServersAgree ==
  (/\ Cardinality(basis) <= DigestSize
   /\ basis # {}
   /\ ~(score < Point) /\ ~(score >= 30 * Point))
    => routed = IF priority \in {"P0", "P1"} THEN priority ELSE "none"

\* Weights, boosts and confidences as the default tables and the detectors have
\* them.  Nothing enforces it: a YAML file may hold negative weights, and tpa_llm
\* takes the model's confidence as it comes.
NonNegative ==
  /\ IsFiniteSet(Rules) /\ \A rule \in Rules : rule.boost \in Nat
  /\ \A r \in Row : Contribution(r) \in Nat
  /\ Popularity \subseteq Nat

\* More findings, and no less popularity, never lower a server's score ...
ScoreMonotone ==
  [][basis \subseteq basis' /\ basisPop <= basisPop' => score <= score']_vars

\* ... nor its priority.
PriorityMonotone ==
  [][basis \subseteq basis' => Urgency[priority] <= Urgency[priority']]_vars

\* docs: P0 and P1 servers are pushed to the triage queue.
AlertsReachTriage == priority \in {"P0", "P1"} => routed = priority
=============================================================================

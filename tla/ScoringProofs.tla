--------------------------- MODULE ScoringProofs ---------------------------
(***************************************************************************)
(* The router against the aggregator, for any findings, weights and rules  *)
(* - nothing in that part depends on what Score computes - and the score   *)
(* itself, for any that are not negative.                                  *)
(***************************************************************************)
EXTENDS Scoring, FiniteSetTheorems, WellFoundedInduction, TLAPS

\* What the proofs need of the state: the last decision was taken from the
\* findings in basis, with one of their digests.
Decided ==
  \/ basis = {} /\ priority = "P3" /\ routed = "none"
  \/ /\ priority = Priority(basis)
     /\ \E D \in Digests(basis) : routed = Route(basis, D, score)

ScoringInv ==
  /\ active \subseteq Row
  /\ basis \subseteq Row
  /\ Decided

\* A part of the findings is not larger, and is of no more detectors.
LEMMA FewerDetectors ==
  ASSUME NEW F, NEW D, F \subseteq Row, D \subseteq F
  PROVE  /\ IsFiniteSet(D)
         /\ Cardinality(D) \in Nat /\ Cardinality(D) <= Cardinality(F)
         /\ D # F => Cardinality(D) < Cardinality(F)
         /\ Cardinality(Detectors(D)) \in Nat
         /\ Cardinality(Detectors(F)) \in Nat
         /\ Cardinality(Detectors(D)) <= Cardinality(Detectors(F))
<1>1. IsFiniteSet(F) /\ IsFiniteSet(D)
  BY RowAssumption, FS_Subset
<1>2. IsFiniteSet(Detectors(F))
  <2>. DEFINE detector == [r \in F |-> KindOf[r].detector]
  <2>1. detector \in Surjection(F, Detectors(F))
    BY DEF Detectors, Surjection
  <2>. QED BY <1>1, <2>1, FS_Surjection
<1>3. Detectors(D) \subseteq Detectors(F)
  BY DEF Detectors
<1>. QED BY <1>1, <1>2, <1>3, FS_Subset, FS_CardinalityType

\* More findings are at least as urgent.
LEMMA PriorityGrows ==
  ASSUME NEW F, NEW D, F \subseteq Row, D \subseteq F
  PROVE  /\ Priority(F) \in {"P0", "P1", "P2", "P3"}
         /\ Priority(D) \in {"P0", "P1", "P2", "P3"}
         /\ Urgency[Priority(D)] <= Urgency[Priority(F)]
<1>1. /\ CriticalHighConf(D) => CriticalHighConf(F)
      /\ Has(D, "high") => Has(F, "high")
      /\ Has(D, "medium") => Has(F, "medium")
  BY DEF CriticalHighConf, Has
<1>2. Cardinality(Detectors(D)) >= 3 => Cardinality(Detectors(F)) >= 3
  BY FewerDetectors
<1>. QED BY <1>1, <1>2 DEF Priority, Urgency

\* The only digest of five findings or fewer is all of them.
LEMMA WholeDigest ==
  ASSUME NEW F, F \subseteq Row, NEW D \in Digests(F), Cardinality(F) <= DigestSize
  PROVE  D = F
<1>1. D \subseteq F /\ Cardinality(D) = Cardinality(F)
  BY FewerDetectors DEF Digests, Least, DigestSize
<1>. QED BY <1>1, FewerDetectors

\* Every step keeps the last decision one of the findings it was taken from.
LEMMA ScoringStep == ScoringInv /\ [Next]_vars => ScoringInv'
<1> SUFFICES ASSUME ScoringInv, [Next]_vars PROVE ScoringInv'
  OBVIOUS
<1>1. ASSUME NEW r \in Row, Appear(r) \/ Disappear(r) PROVE ScoringInv'
  BY <1>1 DEF Appear, Disappear, ScoringInv, Decided
<1>2. CASE NewPopularity
  BY <1>2 DEF NewPopularity, ScoringInv, Decided
<1>3. ASSUME NEW D \in SUBSET active, Aggregate(D) PROVE ScoringInv'
  <2>1. basis' = active /\ priority' = Priority(active) /\ active' = active
    BY <1>3 DEF Aggregate
  <2>2. D \in Digests(active) /\ routed' = Route(active, D, score')
    BY <1>3 DEF Aggregate
  <2>. QED BY <2>1, <2>2 DEF ScoringInv, Decided
<1>4. CASE UNCHANGED vars
  BY <1>4 DEF vars, ScoringInv, Decided
<1>. QED BY <1>1, <1>2, <1>3, <1>4 DEF Next

\* Priority and routing are those of the findings the aggregation saw.
THEOREM ScoringInvariant == Spec => []ScoringInv
<1>1. Init => ScoringInv
  BY DEF Init, ScoringInv, Decided
<1>. QED BY <1>1, ScoringStep, PTL DEF Spec

\* Triage never opens an alert more urgent than the server's priority, except
\* a P1 for a high score: what the digest leaves out can only lower it.
THEOREM TriageNotMoreUrgent == Spec => []RouterWithinPriority
<1>1. ScoringInv => RouterWithinPriority
  <2> SUFFICES ASSUME ScoringInv, Urgency[routed] > Urgency[priority]
               PROVE  routed = "P1" /\ score >= 30 * Point
    BY DEF RouterWithinPriority
  <2>1. CASE basis = {} /\ priority = "P3" /\ routed = "none"
    BY <2>1 DEF Urgency
  <2>2. CASE /\ priority = Priority(basis)
             /\ \E D \in Digests(basis) : routed = Route(basis, D, score)
    <3>1. PICK D \in Digests(basis) : routed = Route(basis, D, score)
      BY <2>2
    <3>2. basis \subseteq Row /\ D \subseteq basis
      BY DEF ScoringInv, Digests
    <3>3. Urgency[Priority(D)] <= Urgency[priority] /\ Priority(D) \in {"P0", "P1", "P2", "P3"}
          /\ priority \in {"P0", "P1", "P2", "P3"}
      BY <2>2, <3>2, PriorityGrows
    <3>4. routed = "none" \/ routed = AggPriority(D, score)
      BY <3>1 DEF Route
    <3>5. routed # "none"
      BY <3>3 DEF Urgency
    <3>6. routed # Priority(D)
      BY <3>3 DEF Urgency
    <3>. QED BY <3>4, <3>5, <3>6 DEF AggPriority
  <2>. QED BY <2>1, <2>2 DEF ScoringInv, Decided
<1>. QED BY <1>1, ScoringInvariant, PTL

\* With five findings or fewer the router and the aggregator agree, outside
\* the two score thresholds.
THEOREM TriageAgrees == Spec => []SmallServersAgree
<1>1. ScoringInv => SmallServersAgree
  <2> SUFFICES ASSUME ScoringInv, Cardinality(basis) <= DigestSize, basis # {},
                      ~(score < Point), ~(score >= 30 * Point)
               PROVE  routed = IF priority \in {"P0", "P1"} THEN priority ELSE "none"
    BY DEF SmallServersAgree
  <2>1. priority = Priority(basis) /\ basis \subseteq Row
    BY DEF ScoringInv, Decided
  <2>2. PICK D \in Digests(basis) : routed = Route(basis, D, score)
    BY DEF ScoringInv, Decided
  <2>3. D = basis
    BY <2>1, <2>2, WholeDigest
  <2>4. AggPriority(D, score) = priority
    BY <2>1, <2>3 DEF AggPriority
  <2>. QED BY <2>2, <2>4 DEF Route
<1>. QED BY <1>1, ScoringInvariant, PTL

\* A server to which findings were added and none taken away keeps its
\* priority or rises.
THEOREM PriorityNeverDrops == Spec => PriorityMonotone
<1>1. ScoringInv /\ ScoringInv' /\ [Next]_vars
        => [basis \subseteq basis' => Urgency[priority] <= Urgency[priority']]_vars
  <2> SUFFICES ASSUME ScoringInv, ScoringInv', basis \subseteq basis'
               PROVE  Urgency[priority] <= Urgency[priority']
    OBVIOUS
  <2>1. Priority({}) = "P3"
    BY DEF Priority, CriticalHighConf, Has
  <2>2. basis \subseteq Row /\ basis' \subseteq Row
    BY DEF ScoringInv
  <2>3. priority = Priority(basis)
    BY <2>1 DEF ScoringInv, Decided
  <2>4. priority' = Priority(basis')
    BY <2>1 DEF ScoringInv, Decided
  <2>. QED BY <2>2, <2>3, <2>4, PriorityGrows
<1>. QED BY <1>1, ScoringInvariant, PTL DEF Spec, PriorityMonotone

(***************************************************************************)
(* Sums.  MapThenSumSet takes the terms in the order CHOOSE gives; that    *)
(* the sum does not depend on it takes an induction on finite sets, here   *)
(* with the smallest counterexample.  Terms are the values of a function.  *)
(***************************************************************************)
Pick(s) == CHOOSE x \in s : TRUE

\* g has the sums of all subsets of S, by the recursion of MapThenFoldSet, ...
Sums(g, w, S) ==
  g = [s \in SUBSET S |-> IF s = {} THEN 0 ELSE w[Pick(s)] + g[s \ {Pick(s)}]]

\* ... and this is that of S.
Total(w, S) == (CHOOSE g : Sums(g, w, S))[S]

\* A set of subsets of a finite set has a smallest one.
LEMMA SmallestSet ==
  ASSUME NEW S, IsFiniteSet(S), NEW B \in SUBSET (SUBSET S), B # {}
  PROVE  \E s \in B : \A t \in B : ~(t \subseteq s /\ t # s)
<1>1. FiniteSubsetsOf(S) = SUBSET S
  BY FS_FiniteSubsetsOfFinite
<1>2. IsWellFoundedOn(StrictSubsetOrdering(S), SUBSET S)
  BY <1>1, FS_StrictSubsetOrderingWellFounded
<1>3. PICK s \in B : \A t \in B : <<t, s>> \notin StrictSubsetOrdering(S)
  BY <1>2, WFMin
<1> QED
  BY <1>3 DEF StrictSubsetOrdering

\* What is picked is an element.
LEMMA Picked ==
  ASSUME NEW s, s # {}
  PROVE  Pick(s) \in s
BY DEF Pick

\* There is one sum of each subset, and it is a natural number.
LEMMA SumsUnique ==
  ASSUME NEW U, NEW w \in [U -> Nat], NEW S \in SUBSET U, IsFiniteSet(S),
         NEW R \in SUBSET U, NEW g, Sums(g, w, S), NEW h, Sums(h, w, R)
  PROVE  \A s \in SUBSET S : g[s] \in Nat /\ (s \subseteq R => g[s] = h[s])
<1> DEFINE Good(s) == g[s] \in Nat /\ (s \subseteq R => g[s] = h[s])
           B == {s \in SUBSET S : ~Good(s)}
<1> SUFFICES ASSUME B # {} PROVE FALSE
  OBVIOUS
<1>0. B \in SUBSET (SUBSET S)
  OBVIOUS
<1> HIDE DEF B
<1>1. PICK s \in B : \A t \in B : ~(t \subseteq s /\ t # s)
  BY <1>0, SmallestSet
<1> USE DEF B
<1>2. \A t \in SUBSET S : g[t] = IF t = {} THEN 0 ELSE w[Pick(t)] + g[t \ {Pick(t)}]
  BY DEF Sums
<1>3. \A t \in SUBSET R : h[t] = IF t = {} THEN 0 ELSE w[Pick(t)] + h[t \ {Pick(t)}]
  BY DEF Sums
<1>4. s # {}
  <2>1. ~Good(s) /\ s \in SUBSET S
    BY <1>1
  <2>2. ASSUME s = {} PROVE g[s] = 0 /\ h[s] = 0
    BY <1>2, <1>3, <2>2
  <2> QED
    BY <2>1, <2>2
<1>5. Pick(s) \in s
  BY <1>4, Picked
<1> DEFINE t == s \ {Pick(s)}
<1>6. t \in SUBSET S /\ t # s /\ t \subseteq s
  BY <1>1, <1>5
<1>7. Good(t)
  BY <1>1, <1>6
<1>8. w[Pick(s)] \in Nat
  BY <1>1, <1>5
<1>9. g[s] = w[Pick(s)] + g[t] /\ (s \subseteq R => h[s] = w[Pick(s)] + h[t])
  BY <1>1, <1>2, <1>3, <1>4
<1>10. Good(s)
  BY <1>6, <1>7, <1>8, <1>9
<1> QED
  BY <1>1, <1>10

\* The recursion has a solution: otherwise there is a smallest set without one.
LEMMA SumsExist ==
  ASSUME NEW U, NEW w \in [U -> Nat], NEW S \in SUBSET U, IsFiniteSet(S)
  PROVE  \E g : Sums(g, w, S)
<1> DEFINE B == {s \in SUBSET S : ~\E g : Sums(g, w, s)}
<1> SUFFICES ASSUME B # {} PROVE FALSE
  OBVIOUS
<1>0. B \in SUBSET (SUBSET S)
  OBVIOUS
<1> HIDE DEF B
<1>1. PICK M \in B : \A t \in B : ~(t \subseteq M /\ t # M)
  BY <1>0, SmallestSet
<1> USE DEF B
<1>2. \A t \in SUBSET M : t # M => \E g : Sums(g, w, t)
  BY <1>1
<1> DEFINE below(t) == Total(w, t)
           g == [s \in SUBSET M |-> IF s = {} THEN 0 ELSE w[Pick(s)] + below(s \ {Pick(s)})]
<1>3. ASSUME NEW s \in SUBSET M, s # {} PROVE g[s \ {Pick(s)}] = below(s \ {Pick(s)})
  <2> DEFINE t == s \ {Pick(s)}
  <2>1. t \in SUBSET M /\ t # M
    BY <1>3, Picked
  <2>2. PICK h : Sums(h, w, t) /\ below(t) = h[t]
    BY <1>2, <2>1 DEF Total
  <2>3. h[t] = IF t = {} THEN 0 ELSE w[Pick(t)] + h[t \ {Pick(t)}]
    BY <2>2 DEF Sums
  <2>4. CASE t = {}
    BY <2>1, <2>2, <2>3, <2>4
  <2>5. CASE t # {}
    <3> DEFINE v == t \ {Pick(t)}
    <3>1. v \in SUBSET M /\ v # M /\ v \in SUBSET t /\ IsFiniteSet(v) /\ v \in SUBSET U /\ t \in SUBSET U
      BY <1>1, <2>1, FS_Subset
    <3>2. PICK j : Sums(j, w, v) /\ below(v) = j[v]
      BY <1>2, <3>1 DEF Total
    <3>3. j[v] = h[v]
      BY <2>2, <3>1, <3>2, SumsUnique
    <3> QED
      BY <2>1, <2>2, <2>3, <2>5, <3>2, <3>3
  <2> QED
    BY <2>4, <2>5
<1>4. \A s \in SUBSET M : s # {} => g[s] = w[Pick(s)] + g[s \ {Pick(s)}]
  BY <1>3
<1>5. {} \in SUBSET M /\ g[{}] = 0
  OBVIOUS
<1>6. DOMAIN g = SUBSET M /\ g = [s \in SUBSET M |-> g[s]]
  OBVIOUS
<1> HIDE DEF g
<1>7. Sums(g, w, M)
  BY <1>4, <1>5, <1>6 DEF Sums
<1> QED
  BY <1>1, <1>7

\* A total, term by term.
LEMMA TotalSteps ==
  ASSUME NEW U, NEW w \in [U -> Nat], NEW S \in SUBSET U, IsFiniteSet(S)
  PROVE  /\ Total(w, S) \in Nat
         /\ S = {} => Total(w, S) = 0
         /\ S # {} => Total(w, S) = w[Pick(S)] + Total(w, S \ {Pick(S)})
<1> DEFINE R == S \ {Pick(S)}
<1>1. R \in SUBSET U /\ IsFiniteSet(R) /\ R \in SUBSET S
  BY FS_Subset
<1>2. PICK g : Sums(g, w, S) /\ Total(w, S) = g[S]
  BY SumsExist DEF Total
<1>3. PICK h : Sums(h, w, R) /\ Total(w, R) = h[R]
  BY <1>1, SumsExist DEF Total
<1>4. g[S] \in Nat
  BY <1>2, <1>3, <1>1, SumsUnique
<1>5. h[R] = g[R]
  BY <1>1, <1>2, <1>3, SumsUnique
<1>6. g[S] = IF S = {} THEN 0 ELSE w[Pick(S)] + g[R]
  BY <1>2 DEF Sums
<1> QED
  BY <1>2, <1>3, <1>4, <1>5, <1>6

\* Any term may be the last.
LEMMA TotalOf ==
  ASSUME NEW U, NEW w \in [U -> Nat], NEW S \in SUBSET U, IsFiniteSet(S)
  PROVE  \A x \in S : Total(w, S) = w[x] + Total(w, S \ {x})
<1> DEFINE Good(s) == \A x \in s : Total(w, s) = w[x] + Total(w, s \ {x})
           B == {s \in SUBSET S : ~Good(s)}
<1> SUFFICES ASSUME B # {} PROVE FALSE
  OBVIOUS
<1>0. B \in SUBSET (SUBSET S)
  OBVIOUS
<1> HIDE DEF B
<1>1. PICK s \in B : \A t \in B : ~(t \subseteq s /\ t # s)
  BY <1>0, SmallestSet
<1> USE DEF B
<1>2. PICK x \in s : Total(w, s) # w[x] + Total(w, s \ {x})
  BY <1>1
<1> DEFINE p == Pick(s)
<1>3. p \in s
  BY <1>2, Picked
<1>4. \A t \in SUBSET S : t \in SUBSET U /\ IsFiniteSet(t) /\ Total(w, t) \in Nat
  BY FS_Subset, TotalSteps
<1>5. Total(w, s) = w[p] + Total(w, s \ {p})
  BY <1>1, <1>2, <1>4, TotalSteps
<1> HIDE DEF p
<1>6. x # p
  BY <1>2, <1>5
<1>7. Good(s \ {p}) /\ Good(s \ {x})
  BY <1>1, <1>2, <1>3
<1>8. Total(w, s \ {p}) = w[x] + Total(w, (s \ {p}) \ {x})
  BY <1>2, <1>6, <1>7
<1>9. Total(w, s \ {x}) = w[p] + Total(w, (s \ {x}) \ {p})
  BY <1>3, <1>6, <1>7
<1> DEFINE n == Total(w, (s \ {x}) \ {p})
<1>10. (s \ {p}) \ {x} = (s \ {x}) \ {p}
  OBVIOUS
<1>11. w[x] \in Nat /\ w[p] \in Nat /\ n \in Nat
  BY <1>1, <1>2, <1>3, <1>4
<1>12. Total(w, s \ {p}) = w[x] + n /\ Total(w, s \ {x}) = w[p] + n
  BY <1>8, <1>9, <1>10
<1> HIDE DEF n
<1>13. w[p] + (w[x] + n) = w[x] + (w[p] + n)
  BY <1>11
<1> QED
  BY <1>2, <1>5, <1>12, <1>13

\* More terms, no smaller sum.
LEMMA TotalGrows ==
  ASSUME NEW U, NEW w \in [U -> Nat], NEW S \in SUBSET U, IsFiniteSet(S), NEW A \in SUBSET S
  PROVE  Total(w, A) <= Total(w, S)
<1> DEFINE B == {s \in SUBSET S : A \subseteq s /\ ~(Total(w, A) <= Total(w, s))}
<1> SUFFICES ASSUME B # {} PROVE FALSE
  OBVIOUS
<1>0. B \in SUBSET (SUBSET S)
  OBVIOUS
<1> HIDE DEF B
<1>1. PICK s \in B : \A t \in B : ~(t \subseteq s /\ t # s)
  BY <1>0, SmallestSet
<1> USE DEF B
<1>2. \A t \in SUBSET S : t \in SUBSET U /\ IsFiniteSet(t) /\ Total(w, t) \in Nat
  BY FS_Subset, TotalSteps
<1>3. A # s
  BY <1>1, <1>2
<1>4. PICK x \in s : x \notin A
  BY <1>1, <1>3
<1>5. Total(w, A) <= Total(w, s \ {x})
  BY <1>1, <1>4
<1>6. Total(w, s) = w[x] + Total(w, s \ {x})
  BY <1>1, <1>2, <1>4, TotalOf
<1>7. w[x] \in Nat /\ Total(w, A) \in Nat /\ Total(w, s) \in Nat /\ Total(w, s \ {x}) \in Nat
  BY <1>1, <1>2, <1>4
<1> QED
  BY <1>1, <1>5, <1>6, <1>7

\* The sums of the model are such totals.
Worth == [r \in Row |-> Contribution(r)]
BoostOf == [rule \in Rules |-> rule.boost]

LEMMA BaseTotal ==
  ASSUME NonNegative, NEW F \in SUBSET Row
  PROVE  Base(F) = Total(Worth, F) /\ Worth \in [Row -> Nat] /\ IsFiniteSet(F)
<1>1. Worth \in [Row -> Nat] /\ IsFiniteSet(F)
  BY RowAssumption, FS_Subset DEF Worth, NonNegative
<1>2. PICK g : Sums(g, Worth, F)
  BY <1>1, SumsExist
<1> DEFINE Term(h) == [s \in SUBSET F |-> IF s = {} THEN 0
                                         ELSE Contribution(Pick(s)) + h[s \ {Pick(s)}]]
           c == CHOOSE h : h = Term(h)
<1>3. Base(F) = c[F]
  BY DEF Base, MapThenSumSet, MapThenFoldSet, Pick
<1>4. ASSUME NEW h PROVE Sums(h, Worth, F) <=> h = Term(h)
  <2>1. \A s \in SUBSET F : s # {} => Worth[Pick(s)] = Contribution(Pick(s))
    BY Picked DEF Worth
  <2>2. Term(h) = [s \in SUBSET F |-> IF s = {} THEN 0 ELSE Worth[Pick(s)] + h[s \ {Pick(s)}]]
    BY <2>1
  <2> QED
    BY <2>2 DEF Sums
<1> HIDE DEF Term
<1>5. c = Term(c)
  BY <1>2, <1>4
<1>6. Sums(c, Worth, F)
  BY <1>4, <1>5
<1>7. PICK d : Sums(d, Worth, F) /\ Total(Worth, F) = d[F]
  BY <1>2 DEF Total
<1> HIDE DEF c
<1>8. c[F] = d[F]
  BY <1>1, <1>6, <1>7, SumsUnique
<1> QED
  BY <1>1, <1>3, <1>7, <1>8

LEMMA BoostTotal ==
  ASSUME NonNegative, NEW F
  PROVE  /\ Boost(F) = Total(BoostOf, Triggered(F)) /\ BoostOf \in [Rules -> Nat]
         /\ Triggered(F) \in SUBSET Rules /\ IsFiniteSet(Triggered(F))
<1> DEFINE T == Triggered(F)
<1>1. BoostOf \in [Rules -> Nat] /\ T \in SUBSET Rules /\ IsFiniteSet(T)
  BY FS_Subset DEF BoostOf, NonNegative, Triggered
<1> DEFINE Term(h) == [s \in SUBSET T |-> IF s = {} THEN 0
                                         ELSE Pick(s).boost + h[s \ {Pick(s)}]]
           c == CHOOSE h : h = Term(h)
<1>3. Boost(F) = c[T]
  BY DEF Boost, MapThenSumSet, MapThenFoldSet, Pick
<1> HIDE DEF T
<1>2. PICK g : Sums(g, BoostOf, T)
  BY <1>1, SumsExist
<1>4. ASSUME NEW h PROVE Sums(h, BoostOf, T) <=> h = Term(h)
  <2>1. \A s \in SUBSET T : s # {} => BoostOf[Pick(s)] = Pick(s).boost
    BY <1>1, Picked DEF BoostOf
  <2>2. Term(h) = [s \in SUBSET T |-> IF s = {} THEN 0 ELSE BoostOf[Pick(s)] + h[s \ {Pick(s)}]]
    BY <2>1
  <2> QED
    BY <2>2 DEF Sums
<1> HIDE DEF Term
<1>5. c = Term(c)
  BY <1>2, <1>4
<1>6. Sums(c, BoostOf, T)
  BY <1>4, <1>5
<1>7. PICK d : Sums(d, BoostOf, T) /\ Total(BoostOf, T) = d[T]
  BY <1>2 DEF Total
<1> HIDE DEF c
<1>8. c[T] = d[T]
  BY <1>1, <1>6, <1>7, SumsUnique
<1> QED
  BY <1>1, <1>3, <1>7, <1>8 DEF T

\* Products of naturals grow with their factors.
LEMMA ProductGrows ==
  ASSUME NEW a \in Nat, NEW b \in Nat, NEW c \in Nat, NEW d \in Nat, a <= b, c <= d
  PROVE  a * c \in Nat /\ a * c <= b * d
<1>1. PICK m \in Nat : b = a + m
  <2>1. b - a \in Nat /\ b = a + (b - a)
    OBVIOUS
  <2> QED
    BY <2>1
<1>2. PICK n \in Nat : d = c + n
  <2>1. d - c \in Nat /\ d = c + (d - c)
    OBVIOUS
  <2> QED
    BY <2>1
<1>3. b * d = a * c + (a * n + m * c + m * n)
  BY <1>1, <1>2
<1>4. a * c \in Nat /\ a * n \in Nat /\ m * c \in Nat /\ m * n \in Nat
  OBVIOUS
<1> QED
  BY <1>3, <1>4

\* More findings, and no less popularity, are worth no less; a score is at most
\* that of the scale.
LEMMA ScoreGrows ==
  ASSUME NonNegative, NEW G \in SUBSET Row, NEW F \in SUBSET G,
         NEW p \in Nat, NEW q \in Nat, p <= q
  PROVE  Score(F, p) \in 0..(100 * Point) /\ Score(F, p) <= Score(G, q)
<1>1. Base(F) \in Nat /\ Base(G) \in Nat /\ Base(F) <= Base(G)
  <2>1. /\ Base(F) = Total(Worth, F) /\ Base(G) = Total(Worth, G)
        /\ Worth \in [Row -> Nat] /\ IsFiniteSet(F) /\ IsFiniteSet(G)
    BY BaseTotal
  <2>2. Total(Worth, F) \in Nat /\ Total(Worth, G) \in Nat
    BY <2>1, TotalSteps
  <2>3. Total(Worth, F) <= Total(Worth, G)
    BY <2>1, TotalGrows
  <2> QED
    BY <2>1, <2>2, <2>3
<1>2. Boost(F) \in Nat /\ Boost(G) \in Nat /\ Boost(F) <= Boost(G)
  <2>1. Triggered(F) \subseteq Triggered(G)
    BY DEF Triggered
  <2>2. /\ Boost(F) = Total(BoostOf, Triggered(F)) /\ Boost(G) = Total(BoostOf, Triggered(G))
        /\ BoostOf \in [Rules -> Nat] /\ Triggered(F) \in SUBSET Rules /\ IsFiniteSet(Triggered(F))
        /\ Triggered(G) \in SUBSET Rules /\ IsFiniteSet(Triggered(G))
    BY BoostTotal
  <2>3. Total(BoostOf, Triggered(F)) \in Nat /\ Total(BoostOf, Triggered(G)) \in Nat
    BY <2>2, TotalSteps
  <2>4. Total(BoostOf, Triggered(F)) <= Total(BoostOf, Triggered(G))
    BY <2>1, <2>2, TotalGrows
  <2> QED
    BY <2>2, <2>3, <2>4
<1> DEFINE x == Base(F) * (Tenth + Boost(F))
           y == Base(G) * (Tenth + Boost(G))
<1>3. /\ Tenth + Boost(F) \in Nat /\ Tenth + Boost(G) \in Nat
      /\ Tenth + Boost(F) <= Tenth + Boost(G)
      /\ Tenth + p \in Nat /\ Tenth + q \in Nat /\ Tenth + p <= Tenth + q
  BY <1>2 DEF Tenth
<1>4. x \in Nat /\ y \in Nat /\ x <= y
  BY <1>1, <1>3, ProductGrows
<1> HIDE DEF x, y
<1>5. x * (Tenth + p) \in Nat /\ y * (Tenth + q) \in Nat /\ x * (Tenth + p) <= y * (Tenth + q)
  BY <1>3, <1>4, ProductGrows
<1> DEFINE u == x * (Tenth + p)
           v == y * (Tenth + q)
<1>6. Score(F, p) = Least(100 * Point, u) /\ Score(G, q) = Least(100 * Point, v)
  BY DEF Score, x, y
<1>7. 100 * Point \in Nat
  BY DEF Point, Tenth
<1> HIDE DEF u, v
<1>8. u \in Nat /\ v \in Nat /\ u <= v
  BY <1>5 DEF u, v
<1> QED
  BY <1>6, <1>7, <1>8 DEF Least

\* The score was taken from the findings in basis, too.
ScoreInv ==
  /\ ScoringInv
  /\ pop \in Popularity /\ basisPop \in Popularity \cup {0}
  /\ score = Score(basis, basisPop)
  /\ basisPop \in Nat

\* Every step keeps the score that of the findings and popularity it was taken from.
LEMMA ScoreIsOfBasis ==
  ASSUME NonNegative
  PROVE  /\ Init => ScoreInv
         /\ ScoreInv /\ [Next]_vars => ScoreInv'
<1>1. ASSUME Init PROVE ScoreInv
  <2>1. {} \in SUBSET Row /\ Worth \in [Row -> Nat]
    BY BaseTotal
  <2>2. Base({}) = 0
    BY <2>1, BaseTotal, TotalSteps
  <2>3. Boost({}) \in Nat
    <3>1. /\ Boost({}) = Total(BoostOf, Triggered({})) /\ BoostOf \in [Rules -> Nat]
          /\ Triggered({}) \in SUBSET Rules /\ IsFiniteSet(Triggered({}))
      BY BoostTotal
    <3> QED
      BY <3>1, TotalSteps
  <2>4. Score({}, 0) = 0
    <3>1. 0 * (Tenth + Boost({})) * (Tenth + 0) = 0 /\ 0 <= 100 * Point /\ ~(100 * Point <= 0)
      BY <2>3 DEF Tenth, Point
    <3> QED
      BY <2>2, <3>1 DEF Score, Least
  <2> QED
    BY <1>1, <2>4 DEF Init, ScoreInv, ScoringInv, Decided
<1>2. ASSUME ScoreInv, [Next]_vars PROVE ScoreInv'
  <2>1. ScoringInv'
    BY <1>2, ScoringStep DEF ScoreInv
  <2>2. ASSUME NEW D \in SUBSET active, Aggregate(D) PROVE ScoreInv'
    BY <1>2, <2>1, <2>2 DEF Aggregate, ScoreInv, NonNegative
  <2>3. ASSUME UNCHANGED <<basis, basisPop, score>>, pop' \in Popularity PROVE ScoreInv'
    BY <1>2, <2>1, <2>3 DEF ScoreInv
  <2> QED
    BY <1>2, <2>2, <2>3 DEF ScoreInv, Next, Appear, Disappear, NewPopularity, vars
<1> QED
  BY <1>1, <1>2

\* The state is of its type; above all, no weights, boosts or popularity take a
\* score out of the scale of 0 to 100.
THEOREM TypeCorrect == ASSUME NonNegative PROVE Spec => []TypeOK
<1>1. ScoreInv => TypeOK
  <2> SUFFICES ASSUME ScoreInv PROVE TypeOK
    OBVIOUS
  <2>1. score \in 0..(100 * Point)
    BY ScoreGrows DEF ScoreInv, ScoringInv
  <2>2. priority \in {"P0", "P1", "P2", "P3"}
    BY PriorityGrows DEF ScoreInv, ScoringInv, Decided
  <2>3. routed \in {"none", "P0", "P1"}
    BY DEF ScoreInv, ScoringInv, Decided, Route
  <2> QED
    BY <2>1, <2>2, <2>3 DEF ScoreInv, ScoringInv, TypeOK
<1> QED
  BY <1>1, ScoreIsOfBasis, PTL DEF Spec

\* A server to which findings were added and none taken away, and whose
\* popularity has not fallen, keeps its score or rises.
THEOREM ScoreNeverDrops == ASSUME NonNegative PROVE Spec => ScoreMonotone
<1>1. ScoreInv /\ ScoreInv' /\ [Next]_vars
        => [basis \subseteq basis' /\ basisPop <= basisPop' => score <= score']_vars
  BY ScoreGrows DEF ScoreInv, ScoringInv
<1> QED
  BY <1>1, ScoreIsOfBasis, PTL DEF Spec, ScoreMonotone
=============================================================================

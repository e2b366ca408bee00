--------------------------- MODULE LLMClientProofs ---------------------------
(***************************************************************************)
(* Theorems about LLMClient, for any number of calls, keys, detectors and  *)
(* permits, any limits, and any number of midnights and restarts.          *)
(***************************************************************************)
EXTENDS LLMClient, FiniteSetTheorems, TLAPS

USE CallAssumption, KeyAssumption, AnswerAssumption, NumbersAssumption

\* The calls of a set are finitely many.
LEMMA CallsFinite ==
  ASSUME NEW S \in SUBSET Call
  PROVE  IsFiniteSet(S) /\ Cardinality(S) \in Nat
BY FS_Subset, FS_CardinalityType

LEMMA InFlightFinite == InFlight \subseteq Call
BY DEF InFlight

LEMMA IInit == Init => IInv
<1> SUFFICES ASSUME Init PROVE IInv
  OBVIOUS
<1>1. TypeOK /\ TriesLeft
  BY DEF Init, TypeOK, TriesLeft, Reply
<1>2. SlotsConserved
  <2>1. InFlight = {}
    BY DEF Init, InFlight
  <2> QED
    BY <2>1, FS_EmptySet DEF Init, SlotsConserved
<1>3. SpentIsFresh /\ FreshAnswered /\ AnswersWithinLimit
  <2>1. \A d \in Detector, p \in 0..MaxRestarts, y \in 0..MaxDays : AdmittedOf(d, p, y) = {}
    BY DEF Init, AdmittedOf
  <2>2. 0 \in 0..MaxRestarts /\ 0 \in 0..MaxDays /\ \A d \in Detector : Limit[d] # NoLimit => 0 <= Limit[d]
    OBVIOUS
  <2>3. IsFiniteSet({}) /\ Cardinality({}) = 0
    BY FS_EmptySet
  <2>4. SpentIsFresh /\ FreshAnswered
    BY <2>1, <2>2, <2>3 DEF Init, SpentIsFresh, FreshAnswered
  <2>5. AnswersWithinLimit
    BY <2>1, <2>2, <2>3 DEF AnswersWithinLimit
  <2> QED
    BY <2>4, <2>5
<1>4. CacheAdmitted /\ ServedWasAdmitted
  BY DEF Init, CacheAdmitted, ServedWasAdmitted
<1>5. RowsOnce /\ AuditTrail
  BY DEF Init, RowsOnce, AuditTrail, Ended
<1> QED
  BY <1>1, <1>2, <1>3, <1>4, <1>5 DEF IInv

\* A call that becomes a request takes one permit, ...
LEMMA SlotTaken ==
  ASSUME IInv, NEW c \in Call, Acquire(c)
  PROVE  SlotsConserved' /\ slots' \in 0..MaxConcurrency
<1>1. InFlight' = InFlight \cup {c} /\ c \notin InFlight
  BY DEF IInv, TypeOK, Acquire, InFlight
<1>2. Cardinality(InFlight') = Cardinality(InFlight) + 1
  BY <1>1, InFlightFinite, CallsFinite, FS_AddElement
<1>3. Cardinality(InFlight) \in Nat
  BY InFlightFinite, CallsFinite
<1>4. slots \in 0..MaxConcurrency /\ slots' = slots - 1 /\ slots > 0
  BY DEF IInv, TypeOK, Acquire
<1>5. slots + Cardinality(InFlight) = MaxConcurrency
  BY DEF IInv, SlotsConserved
<1> QED
  BY <1>2, <1>3, <1>4, <1>5 DEF SlotsConserved

\* ... one that stops being a request gives it back, ...
LEMMA SlotReturned ==
  ASSUME IInv, NEW c \in Call, pc[c] = "http", slots' = slots + 1,
         NEW to \in Active \ {"http"}, pc' = [pc EXCEPT ![c] = to]
  PROVE  SlotsConserved' /\ slots' \in 0..MaxConcurrency
<1>1. InFlight' = InFlight \ {c} /\ c \in InFlight
  BY DEF IInv, TypeOK, InFlight
<1>2. Cardinality(InFlight') = Cardinality(InFlight) - 1
  BY <1>1, InFlightFinite, CallsFinite, FS_RemoveElement
<1>3. InFlight' \subseteq Call
  BY <1>1, InFlightFinite
<1>4. Cardinality(InFlight) \in Nat /\ Cardinality(InFlight') \in Nat
  BY <1>3, InFlightFinite, CallsFinite
<1>5. slots \in 0..MaxConcurrency /\ slots + Cardinality(InFlight) = MaxConcurrency
  BY DEF IInv, TypeOK, SlotsConserved
<1> QED
  BY <1>2, <1>4, <1>5 DEF SlotsConserved

\* ... and no other step takes or gives one.
LEMMA SlotsUnchanged ==
  ASSUME IInv, UNCHANGED slots, InFlight' = InFlight
  PROVE  SlotsConserved' /\ slots' \in 0..MaxConcurrency
BY DEF IInv, TypeOK, SlotsConserved

LEMMA SlotsNext ==
  ASSUME IInv, [Next]_vars
  PROVE  SlotsConserved' /\ slots' \in 0..MaxConcurrency
<1> DEFINE Goal == SlotsConserved' /\ slots' \in 0..MaxConcurrency
<1>1. ASSUME NEW c \in Call, Start(c) PROVE Goal
  <2>1. InFlight' = InFlight /\ UNCHANGED slots
    BY <1>1 DEF IInv, TypeOK, Start, InFlight
  <2> QED
    BY <2>1, SlotsUnchanged
<1>2. ASSUME NEW c \in Call, Acquire(c) PROVE Goal
  BY <1>2, SlotTaken
<1>3. ASSUME NEW c \in Call, NEW r \in Reply, Respond(c, r) PROVE Goal
  BY <1>3, SlotReturned DEF Respond, Active
<1>4. ASSUME NEW c \in Call, AttemptFails(c) PROVE Goal
  <2>1. PICK to \in {"backoff", "audit_error"} : pc' = [pc EXCEPT ![c] = to]
    BY <1>4 DEF AttemptFails
  <2> QED
    BY <1>4, <2>1, SlotReturned DEF AttemptFails, Active
<1>5. ASSUME NEW c \in Call,
             Backoff(c) \/ AuditHit(c) \/ AuditError(c) \/ AuditOk(c) \/ Settle(c)
      PROVE  Goal
  <2>1. InFlight' = InFlight /\ UNCHANGED slots
    BY <1>5 DEF IInv, TypeOK, Backoff, AuditHit, AuditError, AuditOk, Settle, InFlight
  <2> QED
    BY <2>1, SlotsUnchanged
<1>6. CASE NewDay
  <2>1. InFlight' = InFlight /\ UNCHANGED slots
    BY <1>6 DEF NewDay, InFlight
  <2> QED
    BY <2>1, SlotsUnchanged
<1>7. CASE Restart
  <2>1. InFlight' = {}
    BY <1>7 DEF IInv, TypeOK, Restart, InFlight, Active
  <2> QED
    BY <1>7, <2>1, FS_EmptySet DEF Restart, SlotsConserved
<1>8. CASE UNCHANGED vars
  <2>1. InFlight' = InFlight /\ UNCHANGED slots
    BY <1>8 DEF vars, InFlight
  <2> QED
    BY <2>1, SlotsUnchanged
<1> QED
  BY <1>1, <1>2, <1>3, <1>4, <1>5, <1>6, <1>7, <1>8 DEF Next, Step, AllEnded

\* What insert_llm_call does to a call that has no row yet.
LEMMA RecordRow ==
  ASSUME IInv, NEW c \in Call, NEW s \in {"ok", "error", "cache_hit"},
         rows[c] = <<>>, Record(c, s), c \notin lostRows
  PROVE  /\ rows' = [rows EXCEPT ![c] = IF c \in lostRows' THEN <<>> ELSE <<s>>]
         /\ rows' \in [Call -> Seq({"ok", "error", "cache_hit"})]
         /\ lostRows' \subseteq Call
         /\ lostRows' \ {c} = lostRows
<1>1. Append(<<>>, s) = <<s>>
  OBVIOUS
<1>2. <<s>> \in Seq({"ok", "error", "cache_hit"}) /\ <<>> \in Seq({"ok", "error", "cache_hit"})
  OBVIOUS
<1>3. rows \in [Call -> Seq({"ok", "error", "cache_hit"})] /\ lostRows \subseteq Call
  BY DEF IInv, TypeOK
<1>4. CASE rows' = [rows EXCEPT ![c] = Append(@, s)] /\ UNCHANGED lostRows
  <2>1. rows' = [rows EXCEPT ![c] = <<s>>]
    BY <1>1, <1>3, <1>4
  <2> QED
    BY <1>2, <1>3, <1>4, <2>1
<1>5. CASE lostRows' = lostRows \cup {c} /\ UNCHANGED rows
  <2>1. rows = [rows EXCEPT ![c] = <<>>]
    BY <1>3
  <2> QED
    BY <1>3, <1>5, <2>1
<1> QED
  BY <1>4, <1>5 DEF Record

LEMMA TypeNext ==
  ASSUME IInv, [Next]_vars
  PROVE  TypeOK' /\ TriesLeft'
<1> USE DEF IInv, TypeOK, TriesLeft, Active, Ended, Reply, DetOf
<1>0. slots' \in 0..MaxConcurrency
  BY SlotsNext
<1>1. ASSUME NEW c \in Call, Start(c) PROVE TypeOK' /\ TriesLeft'
  BY <1>1, <1>0 DEF Start
<1>2. ASSUME NEW c \in Call, Acquire(c) PROVE TypeOK' /\ TriesLeft'
  <2>1. tries[c] + 1 \in 0..MaxAttempts
    BY <1>2 DEF Acquire
  <2>2. tries' \in [Call -> 0..MaxAttempts] /\ \A e \in Call \ {c} : tries'[e] = tries[e]
    BY <1>2, <2>1 DEF Acquire
  <2>3. pc' \in [Call -> {"idle"} \cup Active \cup Ended] /\ TriesLeft'
    BY <1>2, <2>2 DEF Acquire
  <2> QED
    BY <1>2, <1>0, <2>2, <2>3 DEF Acquire
<1>3. ASSUME NEW c \in Call, NEW r \in Reply, Respond(c, r) PROVE TypeOK' /\ TriesLeft'
  <2>1. reply' \in [Call -> Reply]
    BY <1>3 DEF Respond
  <2>2. billed' \in [Detector -> Nat]
    BY <1>3 DEF Respond
  <2>3. pc' \in [Call -> {"idle"} \cup Active \cup Ended] /\ TriesLeft'
    BY <1>3 DEF Respond
  <2> QED
    BY <1>3, <1>0, <2>1, <2>2, <2>3 DEF Respond
<1>4. ASSUME NEW c \in Call, AttemptFails(c) PROVE TypeOK' /\ TriesLeft'
  BY <1>4, <1>0 DEF AttemptFails
<1>5. ASSUME NEW c \in Call, Backoff(c) PROVE TypeOK' /\ TriesLeft'
  BY <1>5, <1>0 DEF Backoff
<1>6. ASSUME NEW c \in Call, AuditHit(c) \/ AuditError(c) \/ AuditOk(c)
      PROVE  TypeOK' /\ TriesLeft'
  <2>1. rows' \in [Call -> Seq({"ok", "error", "cache_hit"})] /\ lostRows' \subseteq Call
    <3>1. rows[c] = <<>> /\ c \notin lostRows
      BY <1>6 DEF AuditHit, AuditError, AuditOk, RowsOnce
    <3>2. \E row \in {"ok", "error", "cache_hit"} : Record(c, row)
      BY <1>6 DEF AuditHit, AuditError, AuditOk
    <3> QED
      BY <3>1, <3>2, RecordRow
  <2>2. /\ \E l \in {"served", "unavailable", "settle"} : pc' = [pc EXCEPT ![c] = l]
        /\ UNCHANGED <<tries, reply, slots, cache, spent, fresh, billed, days, restarts>>
    BY <1>6 DEF AuditHit, AuditError, AuditOk
  <2>3. pc' \in [Call -> {"idle"} \cup Active \cup Ended] /\ TriesLeft'
    BY <2>2
  <2> QED
    BY <2>1, <2>2, <2>3
<1>7. ASSUME NEW c \in Call, Settle(c) PROVE TypeOK' /\ TriesLeft'
  <2>1. DetOf(c) \in Detector /\ spent[DetOf(c)] + 1 \in Nat
    OBVIOUS
  <2>2. \/ cache' = cache
        \/ cache' = [cache EXCEPT ![KeyOf[c]] = reply[c]] /\ reply[c] \in Answer \cup {Null}
    BY <1>7 DEF Settle
  <2>3. cache' \in [Key -> Answer \cup {Null}]
    BY <2>2
  <2>4. spent' \in [Detector -> Nat] /\ fresh' \subseteq [call : Call, process : 0..restarts, day : 0..days]
    <3>1. \/ spent' = spent /\ fresh' = fresh
          \/ /\ spent' = [spent EXCEPT ![DetOf(c)] = spent[DetOf(c)] + 1]
             /\ fresh' = fresh \cup {Admission(c)}
      BY <1>7 DEF Settle
    <3>2. CASE spent' = spent /\ fresh' = fresh
      BY <3>2
    <3>3. CASE /\ spent' = [spent EXCEPT ![DetOf(c)] = spent[DetOf(c)] + 1]
               /\ fresh' = fresh \cup {Admission(c)}
      <4>1. Admission(c) \in [call : Call, process : 0..restarts, day : 0..days]
        BY DEF Admission
      <4> QED
        BY <2>1, <3>3, <4>1
    <3> QED
      BY <3>1, <3>2, <3>3
  <2>5. pc' \in [Call -> {"idle"} \cup Active \cup Ended] /\ TriesLeft'
    BY <1>7 DEF Settle
  <2> QED
    BY <1>7, <1>0, <2>3, <2>4, <2>5 DEF Settle
<1>8. CASE NewDay
  BY <1>8, <1>0 DEF NewDay
<1>9. CASE Restart
  BY <1>9, <1>0 DEF Restart
<1>10. CASE UNCHANGED vars
  BY <1>10 DEF vars
<1> QED
  BY <1>1, <1>2, <1>3, <1>4, <1>5, <1>6, <1>7, <1>8, <1>9, <1>10
  DEF Next, Step, AllEnded

\* What the budget has admitted is of this process or an earlier one, of today
\* or an earlier day: a process and a day that have not begun have nothing.
LEMMA NothingAhead ==
  ASSUME IInv, NEW d \in Detector, NEW p \in Nat, NEW y \in Nat,
         AdmittedOf(d, p, y) # {}
  PROVE  p <= restarts /\ y <= days
BY DEF IInv, TypeOK, AdmittedOf

\* An admitted call adds one to the spending of its detector and to the answers
\* admitted of it today, in this process, and nothing to any others.
LEMMA BudgetSettle ==
  ASSUME IInv, NEW c \in Call, Settle(c)
  PROVE  SpentIsFresh' /\ FreshAnswered' /\ AnswersWithinLimit'
<1>0. /\ Admission(c) \notin fresh /\ IsFiniteSet(fresh)
      /\ UNCHANGED <<restarts, days>>
      /\ restarts \in 0..MaxRestarts /\ days \in 0..MaxDays
  BY DEF IInv, TypeOK, FreshAnswered, Settle, Admission
<1>1. CASE reply[c] # Garbled /\ WithinLimit(c)
  <2>1. /\ fresh' = fresh \cup {Admission(c)}
        /\ spent' = [spent EXCEPT ![DetOf(c)] = spent[DetOf(c)] + 1]
        /\ pc' = [pc EXCEPT ![c] = "answered"]
    BY <1>1 DEF Settle
  <2>2. FreshAnswered'
    <3>1. IsFiniteSet(fresh')
      BY <1>0, <2>1, FS_AddElement
    <3>2. ASSUME NEW a \in fresh' PROVE pc'[a.call] = "answered"
      BY <2>1, <3>2 DEF IInv, TypeOK, FreshAnswered, Admission
    <3> QED
      BY <3>1, <3>2 DEF FreshAnswered
  <2>3. ASSUME NEW d \in Detector, NEW p \in 0..MaxRestarts, NEW y \in 0..MaxDays
        PROVE  /\ Limit[d] # NoLimit => Cardinality(AdmittedOf(d, p, y)') <= Limit[d]
               /\ p = restarts /\ y = days => spent'[d] = Cardinality(AdmittedOf(d, p, y)')
    <3>1. AdmittedOf(d, p, y) \subseteq fresh /\ Admission(c) \notin AdmittedOf(d, p, y)
      BY <1>0 DEF AdmittedOf
    <3>2. /\ Cardinality(AdmittedOf(d, p, y)) \in Nat
          /\ Cardinality(AdmittedOf(d, p, y) \cup {Admission(c)}) = Cardinality(AdmittedOf(d, p, y)) + 1
      BY <1>0, <3>1, FS_Subset, FS_CardinalityType, FS_AddElement
    <3>3. /\ Limit[d] # NoLimit => Cardinality(AdmittedOf(d, p, y)) <= Limit[d]
          /\ p = restarts /\ y = days => spent[d] = Cardinality(AdmittedOf(d, p, y))
      BY DEF IInv, SpentIsFresh, AnswersWithinLimit
    <3>4. CASE DetOf(c) = d /\ p = restarts /\ y = days
      <4>1. AdmittedOf(d, p, y)' = AdmittedOf(d, p, y) \cup {Admission(c)}
        BY <2>1, <3>4 DEF AdmittedOf, Admission, DetOf
      <4>2. spent'[d] = spent[d] + 1
        BY <2>1, <3>4 DEF IInv, TypeOK
      <4>3. Limit[d] = NoLimit \/ spent[d] + 1 <= Limit[d]
        BY <1>1, <3>4 DEF WithinLimit
      <4> QED
        BY <3>2, <3>3, <3>4, <4>1, <4>2, <4>3
    <3>5. CASE ~(DetOf(c) = d /\ p = restarts /\ y = days)
      <4>1. AdmittedOf(d, p, y)' = AdmittedOf(d, p, y)
        BY <2>1, <3>5 DEF AdmittedOf, Admission, DetOf
      <4>2. p = restarts /\ y = days => spent'[d] = spent[d]
        BY <2>1, <3>5 DEF IInv, TypeOK
      <4> QED
        BY <3>3, <4>1, <4>2
    <3> QED
      BY <3>4, <3>5
  <2>4. SpentIsFresh'
    BY <1>0, <2>3 DEF SpentIsFresh
  <2>5. AnswersWithinLimit'
    BY <2>3 DEF AnswersWithinLimit
  <2> QED
    BY <2>2, <2>4, <2>5
<1>2. CASE ~(reply[c] # Garbled /\ WithinLimit(c))
  <2>1. UNCHANGED <<spent, fresh>> /\ \A e \in Call \ {c} : pc'[e] = pc[e]
    BY <1>2 DEF Settle, IInv, TypeOK
  <2>2. \A a \in fresh : a.call \in Call \ {c}
    BY DEF IInv, TypeOK, FreshAnswered, Settle
  <2>3. FreshAnswered'
    BY <2>1, <2>2 DEF IInv, FreshAnswered
  <2> QED
    BY <1>0, <2>1, <2>3 DEF IInv, SpentIsFresh, AnswersWithinLimit, AdmittedOf, DetOf
<1> QED
  BY <1>1, <1>2

\* A new process, or a new day, begins with nothing spent and nothing admitted;
\* what was admitted before stays, and counts against no limit of theirs.
LEMMA BudgetReset ==
  ASSUME IInv, NewDay \/ Restart
  PROVE  SpentIsFresh' /\ FreshAnswered' /\ AnswersWithinLimit'
<1>1. /\ fresh' = fresh /\ spent' = [d \in Detector |-> 0]
      /\ \A e \in Call : pc[e] = "answered" => pc'[e] = "answered"
      /\ restarts \in Nat /\ days \in Nat /\ restarts' \in Nat /\ days' \in Nat
      /\ restarts' > restarts \/ days' > days
  <2>1. CASE NewDay
    BY <2>1 DEF NewDay, IInv, TypeOK
  <2>2. CASE Restart
    BY <2>2 DEF Restart, IInv, TypeOK, Active
  <2> QED
    BY <2>1, <2>2
<1>2. FreshAnswered'
  BY <1>1 DEF IInv, TypeOK, FreshAnswered
<1>3. \A d \in Detector : AdmittedOf(d, restarts', days') = {}
  <2> SUFFICES ASSUME NEW d \in Detector, AdmittedOf(d, restarts', days') # {} PROVE FALSE
    OBVIOUS
  <2>1. restarts' <= restarts /\ days' <= days
    BY <1>1, NothingAhead
  <2> QED
    BY <1>1, <2>1
<1>4. SpentIsFresh'
  <2>1. ASSUME NEW d \in Detector PROVE AdmittedOf(d, restarts, days)' = {}
    BY <1>1, <1>3 DEF AdmittedOf, DetOf
  <2> QED
    BY <1>1, <2>1, FS_EmptySet DEF SpentIsFresh
<1>5. AnswersWithinLimit'
  BY <1>1 DEF IInv, AnswersWithinLimit, AdmittedOf, DetOf
<1> QED
  BY <1>2, <1>4, <1>5

LEMMA BudgetNext ==
  ASSUME IInv, [Next]_vars
  PROVE  SpentIsFresh' /\ FreshAnswered' /\ AnswersWithinLimit'
<1> DEFINE Goal == SpentIsFresh' /\ FreshAnswered' /\ AnswersWithinLimit'
<1>1. ASSUME UNCHANGED <<spent, fresh, restarts, days>>, NEW c \in Call, pc[c] # "answered",
             \A e \in Call \ {c} : pc'[e] = pc[e]
      PROVE  Goal
  <2>1. FreshAnswered'
    BY <1>1 DEF IInv, TypeOK, FreshAnswered
  <2> QED
    BY <1>1, <2>1 DEF IInv, SpentIsFresh, AnswersWithinLimit, AdmittedOf, DetOf
<1>2. ASSUME NEW c \in Call, Start(c) PROVE Goal
  BY <1>1, <1>2 DEF Start, IInv, TypeOK
<1>3. ASSUME NEW c \in Call, Acquire(c) PROVE Goal
  BY <1>1, <1>3 DEF Acquire, IInv, TypeOK
<1>4. ASSUME NEW c \in Call, NEW r \in Reply, Respond(c, r) PROVE Goal
  BY <1>1, <1>4 DEF Respond, IInv, TypeOK
<1>5. ASSUME NEW c \in Call, AttemptFails(c) \/ Backoff(c) PROVE Goal
  BY <1>1, <1>5 DEF AttemptFails, Backoff, IInv, TypeOK
<1>6. ASSUME NEW c \in Call, AuditHit(c) \/ AuditError(c) \/ AuditOk(c) PROVE Goal
  BY <1>1, <1>6 DEF AuditHit, AuditError, AuditOk, IInv, TypeOK
<1>7. ASSUME NEW c \in Call, Settle(c) PROVE Goal
  BY <1>7, BudgetSettle
<1>8. CASE NewDay \/ Restart
  BY <1>8, BudgetReset
<1>9. CASE UNCHANGED vars
  BY <1>9 DEF vars, IInv, SpentIsFresh, FreshAnswered, AnswersWithinLimit, AdmittedOf, DetOf
<1> QED
  BY <1>2, <1>3, <1>4, <1>5, <1>6, <1>7, <1>8, <1>9 DEF Next, Step, AllEnded

LEMMA CacheNext ==
  ASSUME IInv, [Next]_vars
  PROVE  CacheAdmitted' /\ ServedWasAdmitted'
<1> DEFINE Goal == CacheAdmitted' /\ ServedWasAdmitted'
           Keep == \A e \in Call :
                     pc[e] = "answered" => pc'[e] = "answered" /\ reply'[e] = reply[e]
<1> USE DEF IInv, TypeOK
<1>1. ASSUME Keep, UNCHANGED cache,
             \A e \in Call : pc'[e] \in {"audit_hit", "served"} =>
               pc[e] \in {"audit_hit", "served"} /\ reply'[e] = reply[e]
      PROVE  Goal
  <2>1. ASSUME NEW k \in Key, cache'[k] # Null PROVE Admitted(k, cache[k])'
    <3>1. PICK w \in Call : KeyOf[w] = k /\ pc[w] = "answered" /\ reply[w] = cache[k]
      BY <1>1, <2>1 DEF CacheAdmitted, Admitted
    <3>2. pc'[w] = "answered" /\ reply'[w] = reply[w] /\ cache'[k] = cache[k]
      BY <1>1, <3>1
    <3> QED
      BY <3>1, <3>2 DEF Admitted
  <2>2. ASSUME NEW e \in Call, pc'[e] \in {"audit_hit", "served"}
        PROVE  Admitted(KeyOf[e], reply[e])'
    <3>1. PICK w \in Call : KeyOf[w] = KeyOf[e] /\ pc[w] = "answered" /\ reply[w] = reply[e]
      BY <1>1, <2>2 DEF ServedWasAdmitted, Admitted
    <3>2. pc'[w] = "answered" /\ reply'[w] = reply[w] /\ reply'[e] = reply[e]
      BY <1>1, <2>2, <3>1
    <3> QED
      BY <3>1, <3>2 DEF Admitted
  <2> QED
    BY <2>1, <2>2 DEF CacheAdmitted, ServedWasAdmitted
<1>2. ASSUME NEW c \in Call, Start(c) PROVE Goal
  <2>1. Keep
    BY <1>2 DEF Start
  <2>2. CacheAdmitted'
    BY <1>2, <2>1 DEF Start, CacheAdmitted, Admitted
  <2>3. ASSUME NEW e \in Call, pc'[e] \in {"audit_hit", "served"}
        PROVE  Admitted(KeyOf[e], reply[e])'
    <3>1. CASE e = c
      <4>1. cache[KeyOf[c]] # Null /\ reply'[c] = cache[KeyOf[c]]
        BY <1>2, <2>3, <3>1 DEF Start
      <4>2. Admitted(KeyOf[c], cache[KeyOf[c]])
        BY <4>1 DEF CacheAdmitted
      <4> QED
        BY <2>1, <3>1, <4>1, <4>2 DEF Admitted
    <3>2. CASE e # c
      <4>1. pc[e] = pc'[e] /\ reply'[e] = reply[e]
        BY <1>2, <3>2 DEF Start
      <4>2. Admitted(KeyOf[e], reply[e])
        BY <2>3, <4>1 DEF ServedWasAdmitted
      <4> QED
        BY <2>1, <4>1, <4>2 DEF Admitted
    <3> QED
      BY <3>1, <3>2
  <2> QED
    BY <2>2, <2>3 DEF ServedWasAdmitted, Admitted
<1>3. ASSUME NEW c \in Call, Acquire(c) PROVE Goal
  BY <1>1, <1>3 DEF Acquire
<1>4. ASSUME NEW c \in Call, NEW r \in Reply, Respond(c, r) PROVE Goal
  BY <1>1, <1>4 DEF Respond
<1>5. ASSUME NEW c \in Call, AttemptFails(c) \/ Backoff(c) PROVE Goal
  BY <1>1, <1>5 DEF AttemptFails, Backoff
<1>6. ASSUME NEW c \in Call, AuditHit(c) \/ AuditError(c) \/ AuditOk(c) PROVE Goal
  BY <1>1, <1>6 DEF AuditHit, AuditError, AuditOk
<1>7. ASSUME NEW c \in Call, Settle(c) PROVE Goal
  <2>1. Keep /\ UNCHANGED reply
    BY <1>7 DEF Settle
  <2>2. \A e \in Call : pc'[e] \in {"audit_hit", "served"} => pc[e] = pc'[e]
    BY <1>7 DEF Settle
  <2>3. ServedWasAdmitted'
    BY <2>1, <2>2 DEF ServedWasAdmitted, Admitted
  <2>4. CASE UNCHANGED cache
    BY <2>1, <2>3, <2>4 DEF CacheAdmitted, Admitted
  <2>5. CASE cache' = [cache EXCEPT ![KeyOf[c]] = reply[c]] /\ pc'[c] = "answered"
    <3>1. Admitted(KeyOf[c], reply[c])'
      BY <2>1, <2>5 DEF Admitted
    <3>2. ASSUME NEW k \in Key, cache'[k] # Null PROVE Admitted(k, cache[k])'
      BY <2>1, <2>5, <3>1, <3>2 DEF CacheAdmitted, Admitted
    <3> QED
      BY <2>3, <3>2 DEF CacheAdmitted
  <2> QED
    BY <1>7, <2>4, <2>5 DEF Settle
<1>8. CASE NewDay
  BY <1>1, <1>8 DEF NewDay
<1>9. CASE Restart
  <2>1. Keep
    BY <1>9 DEF Restart, Active
  <2>2. CacheAdmitted'
    BY <1>9 DEF Restart, CacheAdmitted
  <2>3. \A e \in Call : pc'[e] \in {"audit_hit", "served"} => pc[e] = "served" /\ reply'[e] = reply[e]
    BY <1>9 DEF Restart, Active
  <2>4. ASSUME NEW e \in Call, pc'[e] \in {"audit_hit", "served"}
        PROVE  Admitted(KeyOf[e], reply[e])'
    <3>1. PICK w \in Call : KeyOf[w] = KeyOf[e] /\ pc[w] = "answered" /\ reply[w] = reply[e]
      BY <2>3, <2>4 DEF ServedWasAdmitted, Admitted
    <3>2. pc'[w] = "answered" /\ reply'[w] = reply[w] /\ reply'[e] = reply[e]
      BY <2>1, <2>3, <2>4, <3>1
    <3> QED
      BY <3>1, <3>2 DEF Admitted
  <2> QED
    BY <2>2, <2>4 DEF ServedWasAdmitted
<1>10. CASE UNCHANGED vars
  BY <1>1, <1>10 DEF vars
<1> QED
  BY <1>2, <1>3, <1>4, <1>5, <1>6, <1>7, <1>8, <1>9, <1>10 DEF Next, Step, AllEnded

LEMMA AuditNext ==
  ASSUME IInv, [Next]_vars
  PROVE  RowsOnce' /\ AuditTrail'
<1> DEFINE Goal == RowsOnce' /\ AuditTrail'
<1> USE DEF IInv, TypeOK, RowsOnce, AuditTrail, Audited, Ended
<1>1. ASSUME NEW c \in Call, Start(c) PROVE Goal
  BY <1>1 DEF Start
<1>2. ASSUME NEW c \in Call, Acquire(c) PROVE Goal
  BY <1>2 DEF Acquire
<1>3. ASSUME NEW c \in Call, NEW r \in Reply, Respond(c, r) PROVE Goal
  BY <1>3 DEF Respond
<1>4. ASSUME NEW c \in Call, AttemptFails(c) PROVE Goal
  BY <1>4 DEF AttemptFails
<1>5. ASSUME NEW c \in Call, Backoff(c) PROVE Goal
  BY <1>5 DEF Backoff
<1>6. ASSUME NEW c \in Call, AuditHit(c) PROVE Goal
  <2>1. rows[c] = <<>> /\ c \notin lostRows /\ Record(c, "cache_hit")
    BY <1>6 DEF AuditHit
  <2>2. /\ rows' = [rows EXCEPT ![c] = IF c \in lostRows' THEN <<>> ELSE <<"cache_hit">>]
        /\ lostRows' \ {c} = lostRows
    BY <2>1, RecordRow
  <2>3. pc' = [pc EXCEPT ![c] = "served"]
    BY <1>6 DEF AuditHit
  <2>4. \A e \in Call \ {c} :
          pc'[e] = pc[e] /\ rows'[e] = rows[e] /\ (e \in lostRows' <=> e \in lostRows)
    BY <2>2, <2>3
  <2>5. rows'[c] = (IF c \in lostRows' THEN <<>> ELSE <<"cache_hit">>) /\ pc'[c] = "served"
    BY <2>2, <2>3
  <2> QED
    BY <2>4, <2>5
<1>7. ASSUME NEW c \in Call, AuditError(c) PROVE Goal
  <2>1. rows[c] = <<>> /\ c \notin lostRows /\ Record(c, "error")
    BY <1>7 DEF AuditError
  <2>2. /\ rows' = [rows EXCEPT ![c] = IF c \in lostRows' THEN <<>> ELSE <<"error">>]
        /\ lostRows' \ {c} = lostRows
    BY <2>1, RecordRow
  <2>3. pc' = [pc EXCEPT ![c] = "unavailable"]
    BY <1>7 DEF AuditError
  <2>4. \A e \in Call \ {c} :
          pc'[e] = pc[e] /\ rows'[e] = rows[e] /\ (e \in lostRows' <=> e \in lostRows)
    BY <2>2, <2>3
  <2>5. rows'[c] = (IF c \in lostRows' THEN <<>> ELSE <<"error">>) /\ pc'[c] = "unavailable"
    BY <2>2, <2>3
  <2> QED
    BY <2>4, <2>5
<1>8. ASSUME NEW c \in Call, AuditOk(c) PROVE Goal
  <2>1. rows[c] = <<>> /\ c \notin lostRows /\ Record(c, "ok")
    BY <1>8 DEF AuditOk
  <2>2. /\ rows' = [rows EXCEPT ![c] = IF c \in lostRows' THEN <<>> ELSE <<"ok">>]
        /\ lostRows' \ {c} = lostRows
    BY <2>1, RecordRow
  <2>3. pc' = [pc EXCEPT ![c] = "settle"]
    BY <1>8 DEF AuditOk
  <2>4. \A e \in Call \ {c} :
          pc'[e] = pc[e] /\ rows'[e] = rows[e] /\ (e \in lostRows' <=> e \in lostRows)
    BY <2>2, <2>3
  <2>5. rows'[c] = (IF c \in lostRows' THEN <<>> ELSE <<"ok">>) /\ pc'[c] = "settle"
    BY <2>2, <2>3
  <2> QED
    BY <2>4, <2>5
<1>9. ASSUME NEW c \in Call, Settle(c) PROVE Goal
  <2>1. /\ pc[c] = "settle" /\ UNCHANGED <<rows, lostRows>>
        /\ \E p \in {"answered", "garbled", "over_budget"} : pc' = [pc EXCEPT ![c] = p]
    BY <1>9 DEF Settle
  <2> QED
    BY <2>1
<1>10. CASE NewDay
  BY <1>10 DEF NewDay
<1>11. CASE Restart
  BY <1>11 DEF Restart, Active
<1>12. CASE UNCHANGED vars
  BY <1>12 DEF vars
<1> QED
  BY <1>1, <1>2, <1>3, <1>4, <1>5, <1>6, <1>7, <1>8, <1>9, <1>10, <1>11, <1>12
  DEF Next, Step, AllEnded

\* The inductive invariant: permits, budget, cache and audit trail together.
THEOREM ClientInvariant == Spec => []IInv
<1>1. IInv /\ [Next]_vars => IInv'
  BY TypeNext, SlotsNext, BudgetNext, CacheNext, AuditNext DEF IInv
<1> QED
  BY IInit, <1>1, PTL DEF Spec

\* The state is of its type: among it, that the failures in a row and the tries
\* left stay within their bounds.
THEOREM TypeCorrect == Spec => []TypeOK
<1>1. IInv => TypeOK
  BY DEF IInv
<1> QED
  BY ClientInvariant, <1>1, PTL

\* The semaphore's permits and the requests under way always add up.
THEOREM PermitsConserved == Spec => []SlotsConserved
<1>1. IInv => SlotsConserved
  BY DEF IInv
<1> QED
  BY ClientInvariant, <1>1, PTL

\* No process answers a detector more often a day than its limit pays for; of
\* several processes of one day each does so up to the limit (budget.Budget).
THEOREM BudgetKept == Spec => []AnswersWithinLimit
<1>1. IInv => AnswersWithinLimit
  BY DEF IInv
<1> QED
  BY ClientInvariant, <1>1, PTL

\* What the cache serves has been answered to the same key within the budget.
THEOREM CacheSound == Spec => []ServedWasAdmitted
<1>1. IInv => ServedWasAdmitted
  BY DEF IInv
<1> QED
  BY ClientInvariant, <1>1, PTL

\* Each call that ends has left the one row that tells how it ended.
THEOREM AuditComplete == Spec => []AuditTrail
<1>1. IInv => AuditTrail
  BY DEF IInv
<1> QED
  BY ClientInvariant, <1>1, PTL
=============================================================================

------------------------------ MODULE LLMClient ------------------------------
(***************************************************************************)
(* LLMClient.call (semantic_analysis/llm/client.py) as the detectors of    *)
(* one process run it concurrently on one event loop: the process-local    *)
(* cache, a semaphore held for each attempt, three attempts, the audit     *)
(* table llm_calls, and the daily budget of each detector, which a process *)
(* counts for itself.                                                      *)
(*                                                                         *)
(* A step runs from one await that may suspend to the next.  A call is     *)
(* about a key: the detector, model, prompt and payload of the cache.      *)
(* Every response costs one unit.                                          *)
(***************************************************************************)
EXTENDS Naturals, Sequences, FiniteSets

CONSTANTS
  Call,
  Key,
  Detector,
  KeyOf,           \* the key of each call
  DetectorOf,      \* the detector of each key
  Answer,          \* what a response may parse to, apart from null
  Null,            \* a response that parses to null; also Python's None
  Garbled,         \* a response that is not JSON
  MaxConcurrency,
  MaxAttempts,     \* stop_after_attempt(3)
  Limit,           \* daily limit of each detector that has one
  NoLimit,
  MaxDays,         \* bound: midnights
  MaxRestarts,     \* bound: new processes
  MaxLostRows      \* bound: audit rows the database refuses

ASSUME CallAssumption == IsFiniteSet(Call)
ASSUME KeyAssumption ==
  /\ KeyOf \in [Call -> Key]
  /\ DetectorOf \in [Key -> Detector]
  /\ NoLimit \notin Nat /\ Limit \in [Detector -> Nat \cup {NoLimit}]
ASSUME AnswerAssumption == Null \notin Answer /\ Garbled \notin Answer \cup {Null}
ASSUME NumbersAssumption ==
  /\ MaxConcurrency \in Nat \ {0}
  /\ MaxAttempts \in Nat \ {0}
  /\ MaxDays \in Nat /\ MaxRestarts \in Nat /\ MaxLostRows \in Nat

VARIABLES
  pc,        \* where each call is, or how it ended
  tries,     \* attempts begun
  reply,     \* what the call has read from the cache or the model
  slots,     \* free permits of the semaphore
  cache,
  spent,     \* Budget._spend of today, in the process that runs
  fresh,     \* history: each call the budget has admitted, with its process
             \* and its day
  billed,    \* responses received today, of each detector
  rows,      \* statuses of the llm_calls rows of each call
  lostRows,  \* calls whose row could not be written
  days, restarts

vars == <<pc, tries, reply, slots, cache, spent, fresh, billed, rows, lostRows, days, restarts>>

Reply == Answer \cup {Null, Garbled}
Active == {"acquire", "http", "backoff", "audit_hit", "audit_ok", "audit_error", "settle"}
Ended == {"served", "answered", "garbled", "over_budget", "unavailable", "killed"}

DetOf(c) == DetectorOf[KeyOf[c]]
Admission(c) == [call |-> c, process |-> restarts, day |-> days]
InFlight == {c \in Call : pc[c] = "http"}

Init ==
  /\ pc = [c \in Call |-> "idle"]
  /\ tries = [c \in Call |-> 0]
  /\ reply = [c \in Call |-> Null]
  /\ slots = MaxConcurrency
  /\ cache = [k \in Key |-> Null]
  /\ spent = [d \in Detector |-> 0]
  /\ fresh = {}
  /\ billed = [d \in Detector |-> 0]
  /\ rows = [c \in Call |-> <<>>]
  /\ lostRows = {}
  /\ days = 0 /\ restarts = 0

-----------------------------------------------------------------------------
\* cache.get: a cached null is no hit.
Start(c) ==
  /\ pc[c] = "idle"
  /\ reply' = [reply EXCEPT ![c] = cache[KeyOf[c]]]
  /\ pc' = [pc EXCEPT ![c] = IF cache[KeyOf[c]] # Null THEN "audit_hit" ELSE "acquire"]
  /\ UNCHANGED <<tries, slots, cache, spent, fresh, billed, rows, lostRows, days, restarts>>

\* _call_with_retry: each attempt waits for a permit of its own.
Acquire(c) ==
  /\ pc[c] = "acquire"
  /\ slots > 0
  /\ slots' = slots - 1
  /\ tries' = [tries EXCEPT ![c] = @ + 1]
  /\ pc' = [pc EXCEPT ![c] = "http"]
  /\ UNCHANGED <<reply, cache, spent, fresh, billed, rows, lostRows, days, restarts>>

\* Faulty: parse, and with it the budget, before the audit row is written.
RespondUnaudited(c, r) ==
  /\ pc[c] = "http"
  /\ slots' = slots + 1
  /\ billed' = [billed EXCEPT ![DetOf(c)] = @ + 1]
  /\ reply' = [reply EXCEPT ![c] = r]
  /\ pc' = [pc EXCEPT ![c] = "settle"]
  /\ UNCHANGED <<tries, cache, spent, fresh, rows, lostRows, days, restarts>>

Respond(c, r) ==
  /\ pc[c] = "http"
  /\ slots' = slots + 1
  /\ billed' = [billed EXCEPT ![DetOf(c)] = @ + 1]
  /\ reply' = [reply EXCEPT ![c] = r]
  /\ pc' = [pc EXCEPT ![c] = "audit_ok"]
  /\ UNCHANGED <<tries, cache, spent, fresh, rows, lostRows, days, restarts>>

\* Faulty: a failed attempt keeps its permit.
AttemptFailsHolding(c) ==
  /\ pc[c] = "http"
  /\ pc' = [pc EXCEPT ![c] = IF tries[c] < MaxAttempts THEN "backoff" ELSE "audit_error"]
  /\ UNCHANGED <<tries, reply, slots, cache, spent, fresh, billed, rows, lostRows, days, restarts>>

\* Faulty: nothing stops the retries.
AttemptFailsForever(c) ==
  /\ pc[c] = "http"
  /\ slots' = slots + 1
  /\ pc' = [pc EXCEPT ![c] = "backoff"]
  /\ UNCHANGED <<tries, reply, cache, spent, fresh, billed, rows, lostRows, days, restarts>>

\* Any exception, a missing API key included.
AttemptFails(c) ==
  /\ pc[c] = "http"
  /\ slots' = slots + 1
  /\ pc' = [pc EXCEPT ![c] = IF tries[c] < MaxAttempts THEN "backoff" ELSE "audit_error"]
  /\ UNCHANGED <<tries, reply, cache, spent, fresh, billed, rows, lostRows, days, restarts>>

Backoff(c) ==
  /\ pc[c] = "backoff"
  /\ pc' = [pc EXCEPT ![c] = "acquire"]
  /\ UNCHANGED <<tries, reply, slots, cache, spent, fresh, billed, rows, lostRows, days, restarts>>

\* insert_llm_call never raises: the row is written or it is not.
Record(c, s) ==
  \/ rows' = [rows EXCEPT ![c] = Append(@, s)] /\ UNCHANGED lostRows
  \/ /\ Cardinality(lostRows) < MaxLostRows
     /\ lostRows' = lostRows \cup {c}
     /\ UNCHANGED rows

AuditHit(c) ==
  /\ pc[c] = "audit_hit"
  /\ Record(c, "cache_hit")
  /\ pc' = [pc EXCEPT ![c] = "served"]
  /\ UNCHANGED <<tries, reply, slots, cache, spent, fresh, billed, days, restarts>>

AuditError(c) ==
  /\ pc[c] = "audit_error"
  /\ Record(c, "error")
  /\ pc' = [pc EXCEPT ![c] = "unavailable"]
  /\ UNCHANGED <<tries, reply, slots, cache, spent, fresh, billed, days, restarts>>

AuditOk(c) ==
  /\ pc[c] = "audit_ok"
  /\ Record(c, "ok")
  /\ pc' = [pc EXCEPT ![c] = "settle"]
  /\ UNCHANGED <<tries, reply, slots, cache, spent, fresh, billed, days, restarts>>

\* Faulty: the limit is compared with what was spent before the call.
WithinLimitLate(c) == Limit[DetOf(c)] = NoLimit \/ spent[DetOf(c)] <= Limit[DetOf(c)]

\* _parse_json, Budget.consume and cache.put follow each other without an await
\* that suspends: the budget's lock is never held across one.
WithinLimit(c) == Limit[DetOf(c)] = NoLimit \/ spent[DetOf(c)] + 1 <= Limit[DetOf(c)]

\* Faulty: the response is cached before it is parsed and the budget asked.
SettleCachedFirst(c) ==
  /\ pc[c] = "settle"
  /\ cache' = [cache EXCEPT ![KeyOf[c]] = reply[c]]
  /\ IF reply[c] # Garbled /\ WithinLimit(c)
     THEN /\ spent' = [spent EXCEPT ![DetOf(c)] = @ + 1]
          /\ fresh' = fresh \cup {Admission(c)}
          /\ pc' = [pc EXCEPT ![c] = "answered"]
     ELSE /\ pc' = [pc EXCEPT ![c] = IF reply[c] = Garbled THEN "garbled" ELSE "over_budget"]
          /\ UNCHANGED <<spent, fresh>>
  /\ UNCHANGED <<tries, reply, slots, billed, rows, lostRows, days, restarts>>

Settle(c) ==
  /\ pc[c] = "settle"
  /\ IF reply[c] # Garbled /\ WithinLimit(c)
     THEN /\ spent' = [spent EXCEPT ![DetOf(c)] = @ + 1]
          /\ fresh' = fresh \cup {Admission(c)}
          /\ cache' = [cache EXCEPT ![KeyOf[c]] = reply[c]]
          /\ pc' = [pc EXCEPT ![c] = "answered"]
     ELSE /\ pc' = [pc EXCEPT ![c] = IF reply[c] = Garbled THEN "garbled" ELSE "over_budget"]
          /\ UNCHANGED <<spent, fresh, cache>>
  /\ UNCHANGED <<tries, reply, slots, billed, rows, lostRows, days, restarts>>

-----------------------------------------------------------------------------
\* Midnight: the spending of a new day is counted anew.
NewDay ==
  /\ days < MaxDays
  /\ days' = days + 1
  /\ spent' = [d \in Detector |-> 0]
  /\ billed' = [d \in Detector |-> 0]
  /\ UNCHANGED <<pc, tries, reply, slots, cache, fresh, rows, lostRows, restarts>>

\* The command ends or dies; the next one has a client, and so a cache and a
\* budget, of its own, on the same day or on a later one.
Restart ==
  /\ restarts < MaxRestarts
  /\ restarts' = restarts + 1
  /\ pc' = [c \in Call |-> IF pc[c] \in Active THEN "killed" ELSE pc[c]]
  /\ slots' = MaxConcurrency
  /\ cache' = [k \in Key |-> Null]
  /\ spent' = [d \in Detector |-> 0]
  /\ UNCHANGED <<tries, reply, fresh, billed, rows, lostRows, days>>

Step(c) ==
  \/ \E r \in Reply : Respond(c, r)
  \/ AttemptFails(c) \/ Backoff(c)
  \/ AuditHit(c) \/ AuditError(c) \/ AuditOk(c) \/ Settle(c)

AllEnded == (\A c \in Call : pc[c] \in Ended) /\ UNCHANGED vars

Next ==
  \/ \E c \in Call : Start(c) \/ Acquire(c) \/ Step(c)
  \/ NewDay \/ Restart
  \/ AllEnded

Spec == Init /\ [][Next]_vars

\* The event loop runs what is ready, the SDK's timeout ends every request, and
\* asyncio.Semaphore serves its waiters in order.
FairSpec == Spec /\ \A c \in Call : WF_vars(Step(c)) /\ SF_vars(Acquire(c))

-----------------------------------------------------------------------------
TypeOK ==
  /\ pc \in [Call -> {"idle"} \cup Active \cup Ended]
  /\ tries \in [Call -> 0..MaxAttempts]
  /\ reply \in [Call -> Reply]
  /\ slots \in 0..MaxConcurrency
  /\ cache \in [Key -> Answer \cup {Null}]
  /\ spent \in [Detector -> Nat]
  /\ fresh \subseteq [call : Call, process : 0..restarts, day : 0..days]
  /\ billed \in [Detector -> Nat]
  /\ rows \in [Call -> Seq({"ok", "error", "cache_hit"})]
  /\ lostRows \subseteq Call
  /\ days \in 0..MaxDays
  /\ restarts \in 0..MaxRestarts

\* Detectors and tools fan out without bound, yet no more than MaxConcurrency
\* requests are under way, and no attempt loses or invents a permit.
SlotsConserved == slots + Cardinality(InFlight) = MaxConcurrency

\* What a process has admitted of a detector in one day.
AdmittedOf(d, process, day) ==
  {a \in fresh : DetOf(a.call) = d /\ a.process = process /\ a.day = day}

\* However calls that all passed their cache lookup at once finish, whenever the
\* day changes while they are under way, no detector gets more answers a day
\* from one process (Budget is a counter in memory) than its limit pays for.

AnswersWithinLimit ==
  \A d \in Detector, process \in 0..MaxRestarts, day \in 0..MaxDays :
    Limit[d] # NoLimit => Cardinality(AdmittedOf(d, process, day)) <= Limit[d]

\* The rows a call leaves, by how it ended: a response that turns out to be
\* garbled or over budget is audited like any other, a call is audited once
\* however many attempts it took.
Audited(c) ==
  CASE pc[c] = "served" -> "cache_hit"
    [] pc[c] = "unavailable" -> "error"
    [] OTHER -> "ok"

AuditTrail ==
  \A c \in Call : pc[c] \in Ended \ {"killed"} =>
    rows[c] = IF c \in lostRows THEN <<>> ELSE <<Audited(c)>>

\* What the cache serves a call is what a call of the same detector, model,
\* prompt and payload was answered, within its budget.
Admitted(k, r) == \E e \in Call : KeyOf[e] = k /\ pc[e] = "answered" /\ reply[e] = r

ServedWasAdmitted ==
  \A c \in Call : pc[c] \in {"audit_hit", "served"} => Admitted(KeyOf[c], reply[c])

\* Every call comes to an end, also when more calls wait than there are permits
\* and attempts keep failing.
EveryCallEnds == \A c \in Call : pc[c] # "idle" ~> pc[c] \in Ended

\* What makes these inductive.
CacheAdmitted == \A k \in Key : cache[k] # Null => Admitted(k, cache[k])
SpentIsFresh == \A d \in Detector : spent[d] = Cardinality(AdmittedOf(d, restarts, days))
FreshAnswered == IsFiniteSet(fresh) /\ \A a \in fresh : pc[a.call] = "answered"
RowsOnce ==
  \A c \in Call :
    /\ pc[c] \in {"idle", "acquire", "http", "backoff", "audit_hit", "audit_ok", "audit_error"}
         => rows[c] = <<>> /\ c \notin lostRows
    /\ pc[c] = "settle" => rows[c] = IF c \in lostRows THEN <<>> ELSE <<"ok">>
TriesLeft ==
  \A c \in Call : pc[c] \in {"idle", "acquire", "backoff"} => tries[c] < MaxAttempts

IInv ==
  /\ TypeOK /\ TriesLeft
  /\ SlotsConserved
  /\ SpentIsFresh /\ FreshAnswered /\ AnswersWithinLimit
  /\ CacheAdmitted /\ ServedWasAdmitted
  /\ RowsOnce /\ AuditTrail

\* docs: the daily LLM cost of a detector has an upper limit - give or take the
\* requests under way when it is reached.
SpendCapped ==
  \A d \in Detector : Limit[d] # NoLimit => billed[d] <= Limit[d] + MaxConcurrency

\* docs: the upper limit is the day's, and so of all processes of the day.
DailyLimitKept ==
  \A d \in Detector, day \in 0..MaxDays : Limit[d] # NoLimit =>
    Cardinality(UNION {AdmittedOf(d, process, day) : process \in 0..MaxRestarts}) <= Limit[d]
=============================================================================

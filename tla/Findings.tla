------------------------------ MODULE Findings ------------------------------
(***************************************************************************)
(* The findings table (sql/001_schema.sql) under concurrent scans and      *)
(* analyst verdicts.                                                       *)
(*                                                                         *)
(* A scan is one session_scope transaction that calls upsert_findings      *)
(* (common/persistence.py): for each finding, an UPDATE that supersedes    *)
(* the active row of the same key, then an INSERT of a new active row.     *)
(* PostgreSQL runs it READ COMMITTED, as common/db.py leaves the isolation *)
(* level alone: each statement sees what is committed when it starts, a    *)
(* row another transaction has written is waited for and then looked at    *)
(* again, and the partial unique index findings_dedupe_idx makes the       *)
(* INSERT wait for, or fail on, another active row of the key.             *)
(*                                                                         *)
(* Row <<t, i>> is the row scan t inserts for its i-th finding.  A row has *)
(* a committed status and, while some transaction owns it, the status that *)
(* transaction has written and not yet committed.                          *)
(***************************************************************************)
EXTENDS Naturals, Sequences

CONSTANTS
  Txn,        \* scan transactions
  Key,        \* (server_id, detector, artifact_ref, evidence_key)
  BatchesOf,  \* the lists of findings each scan may come up with, by key
  MaxBatch,   \* bound on the length of a list
  Lock,       \* rows a scan locks before it writes findings
  NoLock,
  GuardOf,    \* the Lock each scan takes first, or NoLock
  NoTxn

ASSUME BatchesAssumption ==
  /\ MaxBatch \in Nat
  /\ BatchesOf \in [Txn -> SUBSET {b \in Seq(Key) : Len(b) <= MaxBatch}]
ASSUME TxnAssumption == NoTxn \notin Txn
ASSUME GuardAssumption == NoLock \notin Lock /\ GuardOf \in [Txn -> Lock \cup {NoLock}]

VARIABLES
  findings,   \* findings[t]: the list scan t persists
  pc,         \* pc[t]: the statement scan t is at, or how it ended
  at,         \* at[t]: the finding scan t is at
  seen,       \* seen[t]: the rows the running UPDATE of scan t selected
  status,     \* committed status of each row
  dirty,      \* uncommitted status of each row that has an owner
  owner       \* the transaction that holds the row's lock, or NoTxn

vars == <<findings, pc, at, seen, status, dirty, owner>>

Row == Txn \X (1..MaxBatch)
Verdict == {"suppressed", "confirmed", "false_positive"}
Status == {"none", "active", "superseded"} \cup Verdict
Failed == {"collided", "deadlocked", "failed"}
Ended == {"committed"} \cup Failed
Running == {"guard", "snapshot", "supersede", "insert", "commit"}

RowsOf(k) == {r \in Row : r[2] \in DOMAIN findings[r[1]] /\ findings[r[1]][r[2]] = k}
Current(t) == findings[t][at[t]]

\* What transaction t sees of row r.
View(t, r) == IF owner[r] = t THEN dirty[r] ELSE status[r]

\* Faulty: without the index, a transaction knows its own rows only.
OwnConflict(t, k) ==
  \E r \in RowsOf(k) : owner[r] = t /\ dirty[r] = "active"

\* An entry of the partial unique index that t's transaction conflicts with, ...
Conflict(t, k) ==
  \E r \in RowsOf(k) : View(t, r) = "active" /\ owner[r] \in {NoTxn, t}
\* ... and the entries in the hands of other transactions, whose end it awaits.
InDoubt(t, k) ==
  {r \in RowsOf(k) : /\ owner[r] \notin {NoTxn, t}
                     /\ "active" \in {status[r], dirty[r]}}

HoldsGuard(t) == pc[t] \in Running \ {"guard"}

\* The transactions t's running statement waits for.
WaitsFor(t) ==
  CASE pc[t] = "guard"     -> {u \in Txn \ {t} : GuardOf[u] = GuardOf[t] /\ HoldsGuard(u)}
    [] pc[t] = "supersede" -> {owner[r] : r \in seen[t]} \ {t, NoTxn}
    [] pc[t] = "insert"    -> {owner[r] : r \in InDoubt(t, Current(t))}
    [] OTHER               -> {}

Deadlocked(t) ==
  \E S \in SUBSET Txn :
    /\ t \in S
    /\ \A u \in S : /\ WaitsFor(u) \cap S # {}
                    /\ \E w \in S : u \in WaitsFor(w)

-----------------------------------------------------------------------------
Init ==
  /\ findings \in {f \in [Txn -> UNION {BatchesOf[t] : t \in Txn}] :
                   \A t \in Txn : f[t] \in BatchesOf[t]}
  /\ pc = [t \in Txn |-> "begin"]
  /\ at = [t \in Txn |-> 1]
  /\ seen = [t \in Txn |-> {}]
  /\ status = [r \in Row |-> "none"]
  /\ dirty = [r \in Row |-> "none"]
  /\ owner = [r \in Row |-> NoTxn]

\* The statement that follows: the next finding's UPDATE, or COMMIT.
NextStatement(t, i) == IF i <= Len(findings[t]) THEN "snapshot" ELSE "commit"

\* Faulty: look the parent row up instead of upserting it.
BeginUnlocked(t) ==
  /\ pc[t] = "begin"
  /\ pc' = [pc EXCEPT ![t] = NextStatement(t, 1)]
  /\ UNCHANGED <<findings, at, seen, status, dirty, owner>>

\* Remote scans lock their servers row and static scans their static_summaries
\* row (ON CONFLICT ... DO UPDATE) before the first finding; semantic scans
\* lock nothing.
Begin(t) ==
  /\ pc[t] = "begin"
  /\ pc' = [pc EXCEPT ![t] = IF GuardOf[t] = NoLock THEN NextStatement(t, 1) ELSE "guard"]
  /\ UNCHANGED <<findings, at, seen, status, dirty, owner>>

TakeGuard(t) ==
  /\ pc[t] = "guard"
  /\ WaitsFor(t) = {}
  /\ pc' = [pc EXCEPT ![t] = NextStatement(t, 1)]
  /\ UNCHANGED <<findings, at, seen, status, dirty, owner>>

\* The UPDATE starts: its snapshot fixes the rows it will visit.
Snapshot(t) ==
  /\ pc[t] = "snapshot"
  /\ seen' = [seen EXCEPT ![t] = {r \in RowsOf(Current(t)) : View(t, r) = "active"}]
  /\ pc' = [pc EXCEPT ![t] = "supersede"]
  /\ UNCHANGED <<findings, at, status, dirty, owner>>

\* Faulty: the UPDATE goes by the ids selected, whatever became of the rows.
SupersededById(t) == seen[t]

\* The UPDATE ends: rows no longer active by now are skipped.
Superseded(t) == {r \in seen[t] : View(t, r) = "active"}

\* Faulty: a status the schema does not know.
SupersedeUnknown(t) ==
  /\ pc[t] = "supersede"
  /\ WaitsFor(t) = {}
  /\ dirty' = [r \in Row |-> IF r \in Superseded(t) THEN "replaced" ELSE dirty[r]]
  /\ owner' = [r \in Row |-> IF r \in Superseded(t) THEN t ELSE owner[r]]
  /\ seen' = [seen EXCEPT ![t] = {}]
  /\ pc' = [pc EXCEPT ![t] = "insert"]
  /\ UNCHANGED <<findings, at, status>>

\* Faulty: the UPDATE commits by itself, before the INSERT.
SupersedeAutocommit(t) ==
  /\ pc[t] = "supersede"
  /\ WaitsFor(t) = {}
  /\ status' = [r \in Row |-> IF r \in Superseded(t) THEN "superseded" ELSE status[r]]
  /\ seen' = [seen EXCEPT ![t] = {}]
  /\ pc' = [pc EXCEPT ![t] = "insert"]
  /\ UNCHANGED <<findings, at, dirty, owner>>

Supersede(t) ==
  /\ pc[t] = "supersede"
  /\ WaitsFor(t) = {}
  /\ dirty' = [r \in Row |-> IF r \in Superseded(t) THEN "superseded" ELSE dirty[r]]
  /\ owner' = [r \in Row |-> IF r \in Superseded(t) THEN t ELSE owner[r]]
  /\ seen' = [seen EXCEPT ![t] = {}]
  /\ pc' = [pc EXCEPT ![t] = "insert"]
  /\ UNCHANGED <<findings, at, status>>

Insert(t) ==
  /\ pc[t] = "insert"
  /\ ~Conflict(t, Current(t))
  /\ InDoubt(t, Current(t)) = {}
  /\ dirty' = [dirty EXCEPT ![<<t, at[t]>>] = "active"]
  /\ owner' = [owner EXCEPT ![<<t, at[t]>>] = t]
  /\ at' = [at EXCEPT ![t] = @ + 1]
  /\ pc' = [pc EXCEPT ![t] = NextStatement(t, at[t] + 1)]
  /\ UNCHANGED <<findings, seen, status>>

\* The end of the transaction releases its rows; session_scope commits them ...
Release(t) ==
  /\ owner' = [r \in Row |-> IF owner[r] = t THEN NoTxn ELSE owner[r]]
  /\ dirty' = [r \in Row |-> IF owner[r] = t THEN "none" ELSE dirty[r]]

Commit(t) ==
  /\ pc[t] = "commit"
  /\ status' = [r \in Row |-> View(t, r)]
  /\ Release(t)
  /\ pc' = [pc EXCEPT ![t] = "committed"]
  /\ UNCHANGED <<findings, at, seen>>

\* Faulty: the connection goes back to the pool with its transaction open.
RollbackForgotten(t, how) ==
  /\ seen' = [seen EXCEPT ![t] = {}]
  /\ pc' = [pc EXCEPT ![t] = how]
  /\ UNCHANGED <<findings, at, status, dirty, owner>>

\* ... or, on any exception, rolls all of them back and raises.
Rollback(t, how) ==
  /\ Release(t)
  /\ seen' = [seen EXCEPT ![t] = {}]
  /\ pc' = [pc EXCEPT ![t] = how]
  /\ UNCHANGED <<findings, at, status>>

UniqueViolation(t) ==
  /\ pc[t] = "insert"
  /\ Conflict(t, Current(t))
  /\ Rollback(t, "collided")

DeadlockAbort(t) ==
  /\ pc[t] \in {"guard", "supersede", "insert"}
  /\ Deadlocked(t)
  /\ Rollback(t, "deadlocked")

\* The process dies, or the connection or a statement fails.
Fail(t) ==
  /\ pc[t] \in Running
  /\ Rollback(t, "failed")

-----------------------------------------------------------------------------
\* Lifecycle: one UPDATE by id, whatever the status it finds; it waits for the
\* row's lock, and on its way back to active for the unique index.
SetStatus(r, s) ==
  /\ status[r] # "none"
  /\ owner[r] = NoTxn
  /\ status' = [status EXCEPT ![r] = s]
  /\ UNCHANGED <<findings, pc, at, seen, dirty, owner>>

Suppress(r) == SetStatus(r, "suppressed")
Confirm(r) == SetStatus(r, "confirmed")
MarkFp(r) == SetStatus(r, "false_positive")

\* Faulty: nothing keeps a second row of the key from becoming active.
ReactivateUnchecked(r) == SetStatus(r, "active")

Reactivate(r) ==
  /\ \A k \in Key : \A q \in RowsOf(k) \ {r} :
       r \in RowsOf(k) => /\ status[q] # "active"
                          /\ dirty[q] # "active"
  /\ SetStatus(r, "active")

ScanStep(t) ==
  \/ TakeGuard(t) \/ Snapshot(t) \/ Supersede(t) \/ Insert(t)
  \/ Commit(t) \/ UniqueViolation(t) \/ DeadlockAbort(t)

ScanNext(t) == Begin(t) \/ ScanStep(t) \/ Fail(t)

\* What the HTTP API offers, ...
ApiStep(r) == Suppress(r) \/ Confirm(r) \/ MarkFp(r)

Terminated == (\A t \in Txn : pc[t] \in Ended) /\ UNCHANGED vars

Next ==
  \/ \E t \in Txn : ScanNext(t)
  \/ \E r \in Row : ApiStep(r) \/ Reactivate(r)
  \/ Terminated

Spec == Init /\ [][Next]_vars

\* ... and the specification in which nobody calls Lifecycle.reactivate, which
\* has no endpoint.  Fairness: a scan that has begun is driven to its end.
ApiNext ==
  \/ \E t \in Txn : ScanNext(t)
  \/ \E r \in Row : ApiStep(r)
  \/ Terminated

ApiSpec == Init /\ [][ApiNext]_vars /\ \A t \in Txn : WF_vars(ScanStep(t))

-----------------------------------------------------------------------------
TypeOK ==
  /\ findings \in [Txn -> Seq(Key)]
  /\ \A t \in Txn : findings[t] \in BatchesOf[t]
  /\ pc \in [Txn -> {"begin"} \cup Running \cup Ended]
  /\ at \in [Txn -> Nat \ {0}]
  /\ seen \in [Txn -> SUBSET Row]
  /\ status \in [Row -> Status]
  /\ dirty \in [Row -> Status]
  /\ owner \in [Row -> Txn \cup {NoTxn}]

\* However scans of the same key and verdicts interleave, no evidence point is
\* ever active, and so scored, twice.
OneActivePerKey ==
  \A k \in Key : \A q, r \in RowsOf(k) :
    status[q] = "active" /\ status[r] = "active" => q = r

\* Superseding never makes an evidence point disappear: what was reported once
\* stays visible as a row that is active or that an analyst has judged, even
\* if a scan dies between its UPDATE and its INSERT.
EvidenceSurvives ==
  \A k \in Key :
    (\E r \in RowsOf(k) : status[r] # "none")
      => \E r \in RowsOf(k) : status[r] \in {"active"} \cup Verdict

\* What makes the properties above inductive.  A row's owner has the lock and
\* an uncommitted version; only rows a scan inserts itself become active;
\* whatever else it owns it has superseded.
OwnersRun ==
  \A r \in Row :
    /\ owner[r] = NoTxn => dirty[r] = "none"
    /\ owner[r] # NoTxn =>
         /\ HoldsGuard(owner[r])
         /\ dirty[r] \in {"active", "superseded"}
         /\ dirty[r] = "active" => r[1] = owner[r]
         /\ r[1] # owner[r] => status[r] = "active"

\* A scan's rows appear one after the other and commit with it.
RowsInOrder ==
  \A r \in Row :
    /\ status[r] # "none" => pc[r[1]] = "committed"
    /\ r[1] = owner[r] => r[2] < at[r[1]] /\ r[2] \in DOMAIN findings[r[1]]
    /\ status[r] # "none" => r[2] \in DOMAIN findings[r[1]]
    /\ owner[r] # NoTxn => r[2] \in DOMAIN findings[r[1]]

\* The statement a scan runs is about a finding of its list.
StatementsOnList ==
  \A t \in Txn :
    /\ pc[t] \in {"begin", "guard"} => at[t] = 1
    /\ pc[t] \in {"snapshot", "supersede", "insert"} => at[t] \in DOMAIN findings[t]
    /\ seen[t] \subseteq IF pc[t] = "supersede" THEN RowsOf(Current(t)) ELSE {}

\* Of each key one row at most is or may become active: a second one is on its
\* way out, superseded by the transaction that inserted the first.
OneCandidatePerKey ==
  \A k \in Key : \A q, r \in RowsOf(k) :
    q # r => /\ ~(status[q] = "active" /\ status[r] = "active")
             /\ ~(dirty[q] = "active" /\ dirty[r] = "active")
             /\ dirty[q] = "active" /\ status[r] = "active" => owner[r] = owner[q]

\* What a scan has superseded it has replaced or is about to.
SupersededReplaced ==
  \A k \in Key : \A r \in RowsOf(k) :
    dirty[r] = "superseded" =>
      \/ \E q \in RowsOf(k) : owner[q] = owner[r] /\ dirty[q] = "active"
      \/ pc[owner[r]] = "insert" /\ Current(owner[r]) = k

IInv ==
  /\ TypeOK
  /\ OwnersRun
  /\ RowsInOrder
  /\ StatementsOnList
  /\ OneCandidatePerKey
  /\ SupersededReplaced
  /\ EvidenceSurvives

\* A scan whose UPDATE selected a row before an analyst judged it does not
\* overwrite the verdict when it gets to the row.
VerdictsStand ==
  [][\A r \in Row : status[r] \in Verdict => status'[r] # "superseded"]_vars

\* A scan whose keys only scans with the same guard write cannot fail on the
\* unique index or be a deadlock victim: ensure_server's and static_summaries'
\* upserts serialize remote and static scans of one server.
KeysOf(t) == {findings[t][i] : i \in DOMAIN findings[t]}

Serialized(t) ==
  /\ GuardOf[t] # NoLock
  /\ \A u \in Txn : KeysOf(u) \cap KeysOf(t) # {} => GuardOf[u] = GuardOf[t]

SerializedScansComplete ==
  \A t \in Txn : Serialized(t) => pc[t] \notin {"collided", "deadlocked"}

\* What makes it inductive, as long as nobody reactivates a finding.  Scans with
\* one guard run one at a time; of the key it is at, a serialized scan's UPDATE
\* has selected every active row and leaves the INSERT none.
GuardsExclude ==
  \A t, u \in Txn :
    GuardOf[t] = GuardOf[u] /\ GuardOf[t] # NoLock /\ HoldsGuard(t) /\ HoldsGuard(u) => t = u

WayCleared ==
  \A t \in Txn :
    Serialized(t) /\ pc[t] \in {"supersede", "insert"} =>
      \A r \in RowsOf(Current(t)) :
        View(t, r) = "active" => pc[t] = "supersede" /\ r \in seen[t]

SerialInv == GuardsExclude /\ WayCleared /\ SerializedScansComplete

\* Every scan that begins comes to an end: what it waits for is released by a
\* commit or a rollback, and a circle of waiting scans is broken.
ScansEnd == \A t \in Txn : pc[t] # "begin" ~> pc[t] \in Ended

\* docs: what triage has found to be a false positive is matched by the false
\* positive library and not scored.
FalsePositivesStayOut ==
  \A k \in Key :
    (\E r \in RowsOf(k) : status[r] = "false_positive")
      => \A r \in RowsOf(k) : status[r] # "active"

-----------------------------------------------------------------------------
\* Seen from outside, a scan is one atomic step of FindingStore.
Store == INSTANCE FindingStore WITH keys <- [r \in Row |-> {k \in Key : r \in RowsOf(k)}]

ImplementsStore == Store!Spec
=============================================================================

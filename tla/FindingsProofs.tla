--------------------------- MODULE FindingsProofs ---------------------------
(***************************************************************************)
(* Theorems about Findings, for any number of scans, keys and findings.    *)
(***************************************************************************)
EXTENDS Findings, TLAPS

(***************************************************************************)
(* Facts about the steps.                                                  *)
(***************************************************************************)

\* A statement is about a finding of its scan: the row to be inserted exists.
LEMMA RowOfStatement ==
  ASSUME TypeOK, NEW t \in Txn, at[t] \in DOMAIN findings[t]
  PROVE  /\ at[t] \in 1..MaxBatch
         /\ <<t, at[t]>> \in Row
         /\ Current(t) \in Key
         /\ <<t, at[t]>> \in RowsOf(Current(t))
<1>1. findings[t] \in Seq(Key) /\ Len(findings[t]) <= MaxBatch
  BY BatchesAssumption DEF TypeOK
<1>2. at[t] \in 1..Len(findings[t]) /\ Len(findings[t]) \in Nat
  BY <1>1
<1>3. at[t] \in 1..MaxBatch
  BY <1>1, <1>2, BatchesAssumption
<1>4. findings[t][at[t]] \in Key
  BY <1>1, <1>2
<1> QED
  BY <1>2, <1>3, <1>4 DEF Row, RowsOf, Current

\* The next statement is one of the list's, or COMMIT.
LEMMA NextStatementOnList ==
  ASSUME TypeOK, NEW t \in Txn, NEW i \in Nat \ {0}
  PROVE  /\ NextStatement(t, i) \in {"snapshot", "commit"}
         /\ NextStatement(t, i) = "snapshot" => i \in DOMAIN findings[t]
<1>1. findings[t] \in Seq(Key) /\ Len(findings[t]) \in Nat
  BY DEF TypeOK
<1> QED
  BY <1>1 DEF NextStatement

LEMMA TypeInit == Init => TypeOK
<1> SUFFICES ASSUME Init PROVE TypeOK
  OBVIOUS
<1>1. findings \in [Txn -> Seq(Key)] /\ \A t \in Txn : findings[t] \in BatchesOf[t]
  BY BatchesAssumption DEF Init
<1>2. pc \in [Txn -> {"begin"} \cup Running \cup Ended]
  BY DEF Init
<1>3. status \in [Row -> Status] /\ dirty \in [Row -> Status] /\ owner \in [Row -> Txn \cup {NoTxn}]
  BY DEF Init, Status
<1> QED
  BY <1>1, <1>2, <1>3 DEF Init, TypeOK

LEMMA TypeRelease ==
  ASSUME TypeOK, NEW t \in Txn, Release(t)
  PROVE  dirty' \in [Row -> Status] /\ owner' \in [Row -> Txn \cup {NoTxn}]
BY DEF TypeOK, Release, Status

LEMMA TypeNext == TypeOK /\ [Next]_vars => TypeOK'
<1> SUFFICES ASSUME TypeOK, [Next]_vars PROVE TypeOK'
  OBVIOUS
<1> DEFINE Pcs == {"begin"} \cup Running \cup Ended
<1>1. ASSUME NEW t \in Txn, Begin(t) PROVE TypeOK'
  BY <1>1, NextStatementOnList DEF TypeOK, Begin, Running
<1>2. ASSUME NEW t \in Txn, TakeGuard(t) PROVE TypeOK'
  BY <1>2, NextStatementOnList DEF TypeOK, TakeGuard, Running
<1>3. ASSUME NEW t \in Txn, Snapshot(t) PROVE TypeOK'
  <2>1. seen' \in [Txn -> SUBSET Row]
    BY <1>3 DEF TypeOK, Snapshot, RowsOf
  <2> QED
    BY <1>3, <2>1 DEF TypeOK, Snapshot, Running
<1>4. ASSUME NEW t \in Txn, Supersede(t) PROVE TypeOK'
  BY <1>4 DEF TypeOK, Supersede, Running, Status
<1>5. ASSUME NEW t \in Txn, Insert(t) PROVE TypeOK'
  <2>1. NextStatement(t, at[t] + 1) \in Pcs
    BY <1>5, NextStatementOnList DEF TypeOK, Running
  <2>2. dirty' \in [Row -> Status] /\ owner' \in [Row -> Txn \cup {NoTxn}]
    BY <1>5 DEF TypeOK, Insert, Status
  <2>3. at' \in [Txn -> Nat \ {0}]
    BY <1>5 DEF TypeOK, Insert
  <2> QED
    BY <1>5, <2>1, <2>2, <2>3 DEF TypeOK, Insert
<1>6. ASSUME NEW t \in Txn, Commit(t) PROVE TypeOK'
  <2>1. status' \in [Row -> Status]
    BY <1>6 DEF TypeOK, Commit, View
  <2> QED
    BY <1>6, <2>1, TypeRelease DEF TypeOK, Commit, Ended
<1>7. ASSUME NEW t \in Txn, NEW how \in Failed, Rollback(t, how) PROVE TypeOK'
  BY <1>7, TypeRelease DEF TypeOK, Rollback, Ended
<1>8. ASSUME NEW r \in Row, NEW s \in Status, SetStatus(r, s) PROVE TypeOK'
  BY <1>8 DEF TypeOK, SetStatus
<1>9. CASE UNCHANGED vars
  BY <1>9 DEF TypeOK, vars
<1> QED
  BY <1>1, <1>2, <1>3, <1>4, <1>5, <1>6, <1>7, <1>8, <1>9
  DEF Next, ScanNext, ScanStep, UniqueViolation, DeadlockAbort, Fail, Failed,
      ApiStep, Suppress, Confirm, MarkFp, Reactivate, Terminated, Status, Verdict

\* Every variable keeps its type: in particular no statement runs past the
\* scan's list, and only the statuses of the schema's CHECK occur.
THEOREM TypeCorrect == Spec => []TypeOK
BY TypeInit, TypeNext, PTL DEF Spec

(***************************************************************************)
(* The inductive invariant.  The rows of a key do not change after Init.   *)
(***************************************************************************)
LEMMA RowsOfFixed ==
  ASSUME UNCHANGED findings
  PROVE  /\ \A k : RowsOf(k)' = RowsOf(k)
         /\ \A t : at'[t] = at[t] => Current(t)' = Current(t)
BY DEF RowsOf, Current

LEMMA InvInit == Init => IInv
<1> SUFFICES ASSUME Init PROVE IInv
  OBVIOUS
<1>1. TypeOK
  BY TypeInit
<1>2. \A r \in Row : /\ status[r] = "none" /\ dirty[r] = "none" /\ owner[r] = NoTxn
                     /\ r[1] \in Txn
  BY DEF Init, Row
<1>3. \A k \in Key : \A r \in RowsOf(k) : r \in Row
  BY DEF RowsOf
<1>4. OwnersRun /\ RowsInOrder
  BY <1>2, TxnAssumption DEF OwnersRun, RowsInOrder
<1>5. StatementsOnList
  BY DEF Init, StatementsOnList
<1>6. OneCandidatePerKey /\ SupersededReplaced /\ EvidenceSurvives
  BY <1>2, <1>3 DEF OneCandidatePerKey, SupersededReplaced, EvidenceSurvives
<1> QED
  BY <1>1, <1>4, <1>5, <1>6 DEF IInv

\* A step of t that writes no row keeps the invariant when it moves t between
\* statements other than an INSERT and respects the list.
LEMMA InvQuiet ==
  ASSUME IInv, TypeOK', NEW t \in Txn, UNCHANGED <<findings, at, status, dirty, owner>>,
         NEW p, pc' = [pc EXCEPT ![t] = p], p \in Running \ {"guard"},
         pc[t] \in {"begin", "guard", "snapshot"},
         p = "snapshot" => at[t] \in DOMAIN findings[t],
         p \in {"snapshot", "supersede", "commit"},
         p = "supersede" => pc[t] = "snapshot",
         \A u \in Txn \ {t} : seen'[u] = seen[u],
         seen'[t] \subseteq IF p = "supersede" THEN RowsOf(Current(t)) ELSE {}
  PROVE  IInv'
<1>1. /\ \A k : RowsOf(k)' = RowsOf(k)
      /\ \A u : Current(u)' = Current(u)
  BY RowsOfFixed
<1>2. OwnersRun'
  BY DEF IInv, TypeOK, OwnersRun, HoldsGuard, Running
<1>3. RowsInOrder'
  BY DEF IInv, TypeOK, RowsInOrder, Row
<1>4. StatementsOnList'
  BY <1>1 DEF IInv, TypeOK, StatementsOnList
<1>5. OneCandidatePerKey' /\ EvidenceSurvives'
  BY <1>1 DEF IInv, OneCandidatePerKey, EvidenceSurvives
<1>6. SupersededReplaced'
  BY <1>1 DEF IInv, TypeOK, SupersededReplaced
<1> QED
  BY <1>2, <1>3, <1>4, <1>5, <1>6 DEF IInv

\* The UPDATE takes rows nobody else holds, and leaves them to the INSERT.
LEMMA InvSupersede ==
  ASSUME IInv, TypeOK', NEW t \in Txn, Supersede(t)
  PROVE  IInv'
<1> DEFINE S == Superseded(t)
<1>1. /\ \A k : RowsOf(k)' = RowsOf(k)
      /\ \A u : Current(u)' = Current(u)
  BY RowsOfFixed DEF Supersede
<1>2. /\ pc[t] = "supersede" /\ pc' = [pc EXCEPT ![t] = "insert"]
      /\ at[t] \in DOMAIN findings[t]
      /\ Current(t) \in Key
  BY RowOfStatement DEF Supersede, IInv, TypeOK, StatementsOnList
<1>3. \A r \in S : /\ r \in Row /\ r \in RowsOf(Current(t))
                   /\ owner[r] \in {t, NoTxn}
                   /\ owner[r] = t => dirty[r] = "active"
                   /\ owner[r] = NoTxn => status[r] = "active"
  <2>1. seen[t] \subseteq RowsOf(Current(t))
    BY <1>2 DEF IInv, StatementsOnList
  <2>2. WaitsFor(t) = {owner[r] : r \in seen[t]} \ {t, NoTxn}
    BY <1>2 DEF WaitsFor
  <2>3. \A r \in seen[t] : owner[r] \in {t, NoTxn}
    BY <2>2 DEF Supersede
  <2> QED
    BY <2>1, <2>3, TxnAssumption DEF Superseded, View, RowsOf
<1>4. \A r \in Row : /\ r \in S => dirty'[r] = "superseded" /\ owner'[r] = t
                     /\ r \notin S => dirty'[r] = dirty[r] /\ owner'[r] = owner[r]
  BY DEF Supersede
<1>5. status' = status /\ at' = at /\ findings' = findings
  BY DEF Supersede
<1>6. \A u \in Txn : HoldsGuard(u) => HoldsGuard(u)'
  BY <1>2 DEF HoldsGuard, Running, IInv, TypeOK
<1>7. HoldsGuard(t)'
  BY <1>2 DEF HoldsGuard, Running, IInv, TypeOK
<1>8. OwnersRun'
  BY <1>3, <1>4, <1>5, <1>6, <1>7, TxnAssumption DEF IInv, TypeOK, OwnersRun
<1>9. RowsInOrder'
  <2>1. \A r \in Row : r[1] \in Txn
    BY DEF Row
  <2>2. \A r \in S : r[2] \in DOMAIN findings[r[1]]
    BY <1>3 DEF RowsOf
  <2>3. \A r \in S : r[1] = t => owner[r] = t
    BY <1>2, <1>3 DEF IInv, RowsInOrder
  <2>4. \A r \in Row : pc[r[1]] = "committed" => pc'[r[1]] = "committed"
    BY <1>2, <2>1 DEF IInv, TypeOK
  <2> QED
    BY <1>3, <1>4, <1>5, <2>1, <2>2, <2>3, <2>4 DEF IInv, RowsInOrder
<1>10. StatementsOnList'
  BY <1>1, <1>2, <1>5 DEF Supersede, IInv, TypeOK, StatementsOnList
<1>11. OneCandidatePerKey'
  <2> SUFFICES ASSUME NEW k \in Key, NEW q \in RowsOf(k), NEW r \in RowsOf(k), q # r
               PROVE  /\ ~(status[q] = "active" /\ status[r] = "active")
                      /\ ~(dirty'[q] = "active" /\ dirty'[r] = "active")
                      /\ dirty'[q] = "active" /\ status[r] = "active" => owner'[r] = owner'[q]
    BY <1>1, <1>5 DEF OneCandidatePerKey
  <2>1. q \in Row /\ r \in Row
    BY DEF RowsOf
  <2>2. /\ ~(status[q] = "active" /\ status[r] = "active")
        /\ ~(dirty[q] = "active" /\ dirty[r] = "active")
        /\ dirty[q] = "active" /\ status[r] = "active" => owner[r] = owner[q]
    BY DEF IInv, OneCandidatePerKey
  <2>3. dirty[q] = "active" => owner[q] # NoTxn
    BY <2>1 DEF IInv, OwnersRun
  <2>4. owner[r] = t /\ dirty[r] = "active" => status[r] # "active"
    BY <1>2, <2>1 DEF IInv, OwnersRun, RowsInOrder
  <2> QED
    BY <1>3, <1>4, <2>1, <2>2, <2>3, <2>4
<1>12. SupersededReplaced'
  <2> SUFFICES ASSUME NEW k \in Key, NEW r \in RowsOf(k), dirty'[r] = "superseded"
               PROVE  \/ \E q \in RowsOf(k) : owner'[q] = owner'[r] /\ dirty'[q] = "active"
                      \/ pc'[owner'[r]] = "insert" /\ Current(owner'[r]) = k
    BY <1>1 DEF SupersededReplaced
  <2>1. \A q \in RowsOf(k) : q \in Row
    BY DEF RowsOf
  <2>2. \A q \in S : q \in RowsOf(k) => Current(t) = k
    BY <1>3 DEF RowsOf
  <2>3. CASE r \in S
    BY <1>2, <1>4, <2>1, <2>2, <2>3 DEF IInv, TypeOK
  <2>4. CASE r \notin S
    <3>1. dirty[r] = "superseded" /\ owner'[r] = owner[r]
      BY <1>4, <2>1, <2>4
    <3>2. CASE pc[owner[r]] = "insert" /\ Current(owner[r]) = k
      BY <1>2, <3>1, <3>2 DEF IInv, TypeOK
    <3>3. ASSUME NEW q \in RowsOf(k), owner[q] = owner[r], dirty[q] = "active"
          PROVE  \/ owner'[q] = owner'[r] /\ dirty'[q] = "active"
                 \/ pc'[owner'[r]] = "insert" /\ Current(owner'[r]) = k
      <4>1. CASE q \notin S
        BY <1>4, <2>1, <3>1, <3>3, <4>1
      <4>2. CASE q \in S
        <5>1. owner[q] = t
          BY <1>3, <2>1, <3>3, <4>2 DEF IInv, OwnersRun
        <5> QED
          BY <1>2, <2>2, <3>1, <3>3, <4>2, <5>1 DEF IInv, TypeOK
      <4> QED
        BY <4>1, <4>2
    <3> QED
      BY <3>1, <3>2, <3>3 DEF IInv, SupersededReplaced
  <2> QED
    BY <2>3, <2>4
<1>13. EvidenceSurvives'
  BY <1>1, <1>5 DEF IInv, EvidenceSurvives
<1> QED
  BY <1>8, <1>9, <1>10, <1>11, <1>12, <1>13 DEF IInv

\* The INSERT finds no row of the key that is or may become active, save those
\* the transaction has superseded itself.
LEMMA InvInsert ==
  ASSUME IInv, TypeOK', NEW t \in Txn, Insert(t)
  PROVE  IInv'
<1> DEFINE n == <<t, at[t]>>
           c == Current(t)
<1>1. /\ \A k : RowsOf(k)' = RowsOf(k)
      /\ \A u \in Txn \ {t} : Current(u)' = Current(u)
  BY RowsOfFixed DEF Insert, IInv, TypeOK
<1>2. /\ pc[t] = "insert" /\ at[t] \in DOMAIN findings[t]
      /\ n \in Row /\ c \in Key /\ n \in RowsOf(c) /\ n[1] = t /\ n[2] = at[t]
  BY RowOfStatement DEF Insert, IInv, TypeOK, StatementsOnList
<1>3. \A r \in Row : /\ r = n => dirty'[r] = "active" /\ owner'[r] = t
                     /\ r # n => dirty'[r] = dirty[r] /\ owner'[r] = owner[r]
  BY <1>2 DEF Insert, IInv, TypeOK
<1>4. /\ status' = status /\ findings' = findings
      /\ \A u \in Txn : /\ u = t => at'[u] = at[u] + 1
                        /\ u # t => at'[u] = at[u] /\ pc'[u] = pc[u]
      /\ at[t] \in Nat \ {0}
  BY DEF Insert, IInv, TypeOK
<1>5. /\ pc'[t] \in {"snapshot", "commit"}
      /\ pc'[t] = "snapshot" => at'[t] \in DOMAIN findings[t]
  BY <1>4, NextStatementOnList DEF Insert, IInv, TypeOK
<1>6. status[n] = "none" /\ owner[n] = NoTxn
  <2>1. status[n] = "none"
    BY <1>2 DEF IInv, RowsInOrder
  <2>2. owner[n] # t
    BY <1>2, <1>4 DEF IInv, RowsInOrder
  <2> QED
    BY <1>2, <2>1, <2>2 DEF IInv, OwnersRun
<1>7. \A r \in RowsOf(c) : /\ r \in Row
                           /\ owner[r] \in {t, NoTxn} => View(t, r) # "active"
                           /\ owner[r] \notin {t, NoTxn} => status[r] # "active" /\ dirty[r] # "active"
  BY DEF Insert, Conflict, InDoubt, RowsOf
<1>8. OwnersRun'
  <2>1. \A u \in Txn : HoldsGuard(u) => HoldsGuard(u)'
    BY <1>4, <1>5 DEF HoldsGuard, Running
  <2>2. HoldsGuard(t)'
    BY <1>5 DEF HoldsGuard, Running
  <2> QED
    BY <1>2, <1>3, <1>4, <2>1, <2>2, TxnAssumption DEF IInv, TypeOK, OwnersRun
<1>9. RowsInOrder'
  <2>1. \A r \in Row : r[1] \in Txn /\ r[2] \in Nat
    BY BatchesAssumption DEF Row
  <2>2. ASSUME NEW r \in Row
        PROVE  /\ status'[r] # "none" => pc'[r[1]] = "committed"
               /\ r[1] = owner'[r] => r[2] < at'[r[1]] /\ r[2] \in DOMAIN findings'[r[1]]
               /\ status'[r] # "none" => r[2] \in DOMAIN findings'[r[1]]
               /\ owner'[r] # NoTxn => r[2] \in DOMAIN findings'[r[1]]
    <3>1. r[1] \in Txn /\ r[2] \in Nat /\ at[r[1]] \in Nat
      BY <2>1 DEF IInv, TypeOK
    <3>2. CASE r = n
      BY <1>2, <1>3, <1>4, <1>6, <3>1, <3>2
    <3>3. CASE r # n
      <4>1. /\ owner'[r] = owner[r]
            /\ status[r] # "none" => r[1] # t
            /\ at[r[1]] <= at'[r[1]] /\ at'[r[1]] \in Nat
        BY <1>2, <1>3, <1>4, <3>1, <3>3 DEF IInv, RowsInOrder
      <4> QED
        BY <1>4, <3>1, <4>1 DEF IInv, RowsInOrder
    <3> QED
      BY <3>2, <3>3
  <2> QED
    BY <2>2 DEF RowsInOrder
<1>10. StatementsOnList'
  BY <1>1, <1>2, <1>4, <1>5 DEF Insert, IInv, StatementsOnList
<1>11. OneCandidatePerKey'
  <2> SUFFICES ASSUME NEW k \in Key, NEW q \in RowsOf(k), NEW r \in RowsOf(k), q # r
               PROVE  /\ ~(status[q] = "active" /\ status[r] = "active")
                      /\ ~(dirty'[q] = "active" /\ dirty'[r] = "active")
                      /\ dirty'[q] = "active" /\ status[r] = "active" => owner'[r] = owner'[q]
    BY <1>1, <1>4 DEF OneCandidatePerKey
  <2>1. q \in Row /\ r \in Row
    BY DEF RowsOf
  <2>2. /\ ~(status[q] = "active" /\ status[r] = "active")
        /\ ~(dirty[q] = "active" /\ dirty[r] = "active")
        /\ dirty[q] = "active" /\ status[r] = "active" => owner[r] = owner[q]
    BY DEF IInv, OneCandidatePerKey
  <2>3. n \in {q, r} => k = c
    BY <1>2 DEF RowsOf
  <2>4. \A x \in RowsOf(c) : dirty[x] # "active" /\ (status[x] = "active" => owner[x] = t)
    BY <1>7, TxnAssumption DEF View, IInv, OwnersRun
  <2> QED
    BY <1>3, <1>6, <2>1, <2>2, <2>3, <2>4
<1>12. SupersededReplaced'
  <2> SUFFICES ASSUME NEW k \in Key, NEW r \in RowsOf(k), dirty'[r] = "superseded"
               PROVE  \/ \E q \in RowsOf(k) : owner'[q] = owner'[r] /\ dirty'[q] = "active"
                      \/ pc'[owner'[r]] = "insert" /\ findings'[owner'[r]][at'[owner'[r]]] = k
    BY <1>1 DEF SupersededReplaced, Current
  <2>1. \A q \in RowsOf(k) : q \in Row
    BY DEF RowsOf
  <2>2. r # n /\ dirty[r] = "superseded" /\ owner'[r] = owner[r] /\ owner[r] \in Txn
    BY <1>3, <2>1 DEF IInv, TypeOK, OwnersRun
  <2>3. ASSUME NEW q \in RowsOf(k), owner[q] = owner[r], dirty[q] = "active"
        PROVE  owner'[q] = owner'[r] /\ dirty'[q] = "active"
    BY <1>3, <1>6, <2>1, <2>2, <2>3, TxnAssumption
  <2>4. CASE pc[owner[r]] = "insert" /\ Current(owner[r]) = k
    <3>1. CASE owner[r] = t
      BY <1>2, <1>3, <2>1, <2>2, <2>4, <3>1
    <3>2. CASE owner[r] # t
      BY <1>4, <2>2, <2>4, <3>2 DEF Current
    <3> QED
      BY <3>1, <3>2
  <2> QED
    BY <2>2, <2>3, <2>4 DEF IInv, SupersededReplaced
<1>13. EvidenceSurvives'
  BY <1>1, <1>4 DEF IInv, EvidenceSurvives
<1> QED
  BY <1>8, <1>9, <1>10, <1>11, <1>12, <1>13 DEF IInv

\* The end of a transaction, either way, leaves no row in its hands.
LEMMA InvRelease ==
  ASSUME IInv, TypeOK', NEW t \in Txn, Release(t), UNCHANGED <<findings, at>>,
         NEW how \in Ended, pc' = [pc EXCEPT ![t] = how], pc[t] # "committed",
         seen' = [seen EXCEPT ![t] = {}],
         \A r \in Row : status'[r] = status[r] \/ (owner[r] = t /\ how = "committed")
  PROVE  OwnersRun' /\ RowsInOrder' /\ StatementsOnList'
<1>1. /\ \A k : RowsOf(k)' = RowsOf(k)
      /\ \A u : Current(u)' = Current(u)
  BY RowsOfFixed
<1>2. \A r \in Row : /\ r[1] \in Txn
                     /\ owner[r] = t => owner'[r] = NoTxn /\ dirty'[r] = "none"
                     /\ owner[r] # t => owner'[r] = owner[r] /\ dirty'[r] = dirty[r]
  BY DEF Release, Row
<1>3. \A u \in Txn : /\ u = t => pc'[u] = how
                     /\ u # t => pc'[u] = pc[u]
  BY DEF IInv, TypeOK
<1>4. OwnersRun'
  <2> SUFFICES ASSUME NEW r \in Row
               PROVE  /\ owner'[r] = NoTxn => dirty'[r] = "none"
                      /\ owner'[r] # NoTxn =>
                           /\ pc'[owner'[r]] \in Running \ {"guard"}
                           /\ dirty'[r] \in {"active", "superseded"}
                           /\ dirty'[r] = "active" => r[1] = owner'[r]
                           /\ r[1] # owner'[r] => status'[r] = "active"
    BY DEF OwnersRun, HoldsGuard
  <2>1. CASE owner[r] = t
    BY <1>2, <2>1
  <2>2. CASE owner[r] # t
    BY <1>2, <1>3, <2>2 DEF IInv, TypeOK, OwnersRun, HoldsGuard
  <2> QED
    BY <2>1, <2>2
<1>5. RowsInOrder'
  <2> SUFFICES ASSUME NEW r \in Row
               PROVE  /\ status'[r] # "none" => pc'[r[1]] = "committed"
                      /\ r[1] = owner'[r] => r[2] < at[r[1]] /\ r[2] \in DOMAIN findings[r[1]]
                      /\ status'[r] # "none" => r[2] \in DOMAIN findings[r[1]]
                      /\ owner'[r] # NoTxn => r[2] \in DOMAIN findings[r[1]]
    BY DEF RowsInOrder
  <2>1. CASE status'[r] = status[r]
    BY <1>2, <1>3, <2>1, TxnAssumption DEF IInv, RowsInOrder
  <2>2. CASE owner[r] = t /\ how = "committed"
    BY <1>2, <1>3, <2>2, TxnAssumption DEF IInv, RowsInOrder, OwnersRun
  <2> QED
    BY <2>1, <2>2
<1>6. StatementsOnList'
  BY <1>1, <1>3 DEF IInv, TypeOK, StatementsOnList, Ended, Failed
<1> QED
  BY <1>4, <1>5, <1>6

LEMMA InvRollback ==
  ASSUME IInv, TypeOK', NEW t \in Txn, NEW how \in Failed, Rollback(t, how),
         pc[t] \in Running
  PROVE  IInv'
<1>1. /\ \A k : RowsOf(k)' = RowsOf(k)
      /\ \A u : Current(u)' = Current(u)
  BY RowsOfFixed DEF Rollback
<1>2. \A r \in Row : /\ owner[r] = t => owner'[r] = NoTxn /\ dirty'[r] = "none"
                     /\ owner[r] # t => owner'[r] = owner[r] /\ dirty'[r] = dirty[r]
  BY DEF Rollback, Release
<1>3. status' = status /\ \A k \in Key : \A r \in RowsOf(k) : r \in Row
  BY DEF Rollback, RowsOf
<1>4. OwnersRun' /\ RowsInOrder' /\ StatementsOnList'
  <2>1. how \in Ended /\ pc[t] # "committed"
    BY DEF Ended, Running
  <2>2. \A r \in Row : status'[r] = status[r] \/ (owner[r] = t /\ how = "committed")
    BY <1>3
  <2>3. /\ Release(t) /\ UNCHANGED <<findings, at>>
        /\ pc' = [pc EXCEPT ![t] = how] /\ seen' = [seen EXCEPT ![t] = {}]
    BY DEF Rollback
  <2> QED
    BY <2>1, <2>2, <2>3, InvRelease
<1>5. OneCandidatePerKey'
  BY <1>1, <1>2, <1>3 DEF IInv, OneCandidatePerKey, OwnersRun
<1>6. SupersededReplaced'
  <2> SUFFICES ASSUME NEW k \in Key, NEW r \in RowsOf(k), dirty'[r] = "superseded"
               PROVE  \/ \E q \in RowsOf(k) : owner'[q] = owner'[r] /\ dirty'[q] = "active"
                      \/ pc'[owner'[r]] = "insert" /\ Current(owner'[r]) = k
    BY <1>1 DEF SupersededReplaced
  <2>1. owner[r] # t /\ owner'[r] = owner[r] /\ dirty[r] = "superseded"
    BY <1>2, <1>3
  <2>2. pc'[owner[r]] = pc[owner[r]]
    BY <2>1, <1>3 DEF Rollback, IInv, TypeOK, OwnersRun
  <2> QED
    BY <1>2, <1>3, <2>1, <2>2 DEF IInv, SupersededReplaced
<1>7. EvidenceSurvives'
  BY <1>1, <1>3 DEF IInv, EvidenceSurvives
<1> QED
  BY <1>4, <1>5, <1>6, <1>7 DEF IInv

\* What COMMIT makes visible, row by row.
LEMMA CommitView ==
  ASSUME IInv, NEW t \in Txn, Commit(t), NEW r \in Row
  PROVE  /\ owner[r] = t => /\ status'[r] = dirty[r] /\ owner'[r] = NoTxn /\ dirty'[r] = "none"
                            /\ status[r] \in {"none", "active"}
         /\ owner[r] # t => status'[r] = status[r] /\ owner'[r] = owner[r] /\ dirty'[r] = dirty[r]
<1>1. owner[r] = t => status[r] \in {"none", "active"}
  BY TxnAssumption DEF Commit, IInv, TypeOK, OwnersRun, RowsInOrder
<1> QED
  BY <1>1 DEF Commit, Release, View

LEMMA InvCommit ==
  ASSUME IInv, TypeOK', NEW t \in Txn, Commit(t)
  PROVE  IInv'
<1>1. /\ \A k : RowsOf(k)' = RowsOf(k)
      /\ \A u : Current(u)' = Current(u)
  BY RowsOfFixed DEF Commit
<1>2. \A k \in Key : \A r \in RowsOf(k) : r \in Row
  BY DEF RowsOf
<1>3. pc[t] = "commit" /\ pc' = [pc EXCEPT ![t] = "committed"]
  BY DEF Commit
<1>4. OwnersRun' /\ RowsInOrder' /\ StatementsOnList'
  <2>1. seen' = [seen EXCEPT ![t] = {}]
    BY <1>3 DEF Commit, IInv, TypeOK, StatementsOnList
  <2>2. \A r \in Row : status'[r] = status[r] \/ owner[r] = t
    BY CommitView
  <2> QED
    BY <1>3, <2>1, <2>2, InvRelease DEF Commit, Ended
<1>5. OneCandidatePerKey'
  <2> SUFFICES ASSUME NEW k \in Key, NEW q \in RowsOf(k), NEW r \in RowsOf(k), q # r
               PROVE  /\ ~(status'[q] = "active" /\ status'[r] = "active")
                      /\ ~(dirty'[q] = "active" /\ dirty'[r] = "active")
                      /\ dirty'[q] = "active" /\ status'[r] = "active" => owner'[r] = owner'[q]
    BY <1>1 DEF OneCandidatePerKey
  <2>1. \A x, y \in RowsOf(k) : x # y =>
          /\ ~(status[x] = "active" /\ status[y] = "active")
          /\ ~(dirty[x] = "active" /\ dirty[y] = "active")
          /\ dirty[x] = "active" /\ status[y] = "active" => owner[y] = owner[x]
    BY DEF IInv, OneCandidatePerKey
  <2> QED
    BY <1>2, <2>1, CommitView
<1>6. SupersededReplaced'
  <2> SUFFICES ASSUME NEW k \in Key, NEW r \in RowsOf(k), dirty'[r] = "superseded"
               PROVE  \/ \E q \in RowsOf(k) : owner'[q] = owner'[r] /\ dirty'[q] = "active"
                      \/ pc'[owner'[r]] = "insert" /\ Current(owner'[r]) = k
    BY <1>1 DEF SupersededReplaced
  <2>1. owner[r] # t /\ owner'[r] = owner[r] /\ dirty[r] = "superseded"
    BY <1>2, CommitView
  <2>2. pc'[owner[r]] = pc[owner[r]]
    BY <1>2, <1>3, <2>1 DEF IInv, TypeOK, OwnersRun
  <2> QED
    BY <1>2, <2>1, <2>2, CommitView DEF IInv, SupersededReplaced
<1>7. EvidenceSurvives'
  <2> SUFFICES ASSUME NEW k \in Key, NEW r \in RowsOf(k), status'[r] # "none"
               PROVE  \E q \in RowsOf(k) : status'[q] \in {"active"} \cup Verdict
    BY <1>1 DEF EvidenceSurvives
  <2>1. CASE \E x \in RowsOf(k) : owner[x] = t
    <3>1. PICK x \in RowsOf(k) : owner[x] = t
      BY <2>1
    <3>2. \E q \in RowsOf(k) : owner[q] = t /\ dirty[q] = "active"
      BY <1>2, <1>3, <3>1, TxnAssumption DEF IInv, OwnersRun, SupersededReplaced
    <3> QED
      BY <1>2, <3>2, CommitView
  <2>2. CASE \A x \in RowsOf(k) : owner[x] # t
    BY <1>2, <2>2, CommitView DEF IInv, EvidenceSurvives
  <2> QED
    BY <2>1, <2>2
<1> QED
  BY <1>4, <1>5, <1>6, <1>7 DEF IInv

\* A verdict finds the row unlocked; one that makes it active finds no other
\* candidate of the key.
LEMMA InvSetStatus ==
  ASSUME IInv, TypeOK', NEW x \in Row, NEW s \in Verdict \cup {"active"}, SetStatus(x, s),
         s = "active" => \A k \in Key : \A q \in RowsOf(k) \ {x} :
           x \in RowsOf(k) => status[q] # "active" /\ dirty[q] # "active"
  PROVE  IInv'
<1>1. /\ \A k : RowsOf(k)' = RowsOf(k)
      /\ \A u : Current(u)' = Current(u)
  BY RowsOfFixed DEF SetStatus
<1>2. \A r \in Row : /\ r = x => status'[r] = s
                     /\ r # x => status'[r] = status[r]
  BY DEF SetStatus, IInv, TypeOK
<1>3. /\ status[x] # "none" /\ owner[x] = NoTxn
      /\ UNCHANGED <<findings, pc, at, seen, dirty, owner>>
  BY DEF SetStatus
<1>4. \A k \in Key : \A r \in RowsOf(k) : r \in Row
  BY DEF RowsOf
<1>5. OwnersRun'
  BY <1>2, <1>3 DEF IInv, OwnersRun, HoldsGuard
<1>6. RowsInOrder'
  BY <1>2, <1>3 DEF IInv, RowsInOrder
<1>7. StatementsOnList'
  BY <1>1, <1>3 DEF IInv, StatementsOnList
<1>8. OneCandidatePerKey'
  BY <1>1, <1>2, <1>3, <1>4 DEF IInv, OneCandidatePerKey, Verdict
<1>9. SupersededReplaced'
  BY <1>1, <1>3 DEF IInv, SupersededReplaced
<1>10. EvidenceSurvives'
  BY <1>1, <1>2, <1>3, <1>4 DEF IInv, EvidenceSurvives
<1> QED
  BY <1>5, <1>6, <1>7, <1>8, <1>9, <1>10 DEF IInv

LEMMA InvNext == IInv /\ [Next]_vars => IInv'
<1> SUFFICES ASSUME IInv, [Next]_vars PROVE IInv'
  OBVIOUS
<1>0. TypeOK'
  BY TypeNext DEF IInv
<1>1. ASSUME NEW t \in Txn, Begin(t) PROVE IInv'
  <2>1. CASE GuardOf[t] = NoLock
    <3> DEFINE p == NextStatement(t, 1)
    <3>1. p \in {"snapshot", "commit"} /\ p \in Running \ {"guard"}
      BY NextStatementOnList DEF IInv, Running
    <3>2. at[t] = 1
      BY <1>1 DEF Begin, IInv, StatementsOnList
    <3>3. p = "snapshot" => at[t] \in DOMAIN findings[t]
      BY <3>2, NextStatementOnList DEF IInv
    <3>4. /\ UNCHANGED <<findings, at, seen, status, dirty, owner>>
          /\ pc[t] = "begin" /\ pc' = [pc EXCEPT ![t] = p]
      BY <1>1, <2>1 DEF Begin
    <3>5. seen'[t] = {}
      BY <3>4 DEF IInv, StatementsOnList
    <3> HIDE DEF p
    <3> QED
      BY <1>0, <3>1, <3>3, <3>4, <3>5, InvQuiet
  <2>2. CASE GuardOf[t] # NoLock
    <3>1. /\ \A k : RowsOf(k)' = RowsOf(k)
          /\ \A u : Current(u)' = Current(u)
      BY <1>1, RowsOfFixed DEF Begin
    <3>2. pc[t] = "begin" /\ pc' = [pc EXCEPT ![t] = "guard"]
      BY <1>1, <2>2 DEF Begin
    <3>3. UNCHANGED <<findings, at, seen, status, dirty, owner>>
      BY <1>1 DEF Begin
    <3>4. OwnersRun' /\ RowsInOrder'
      BY <3>2, <3>3 DEF IInv, TypeOK, OwnersRun, RowsInOrder, HoldsGuard, Running, Row
    <3>5. StatementsOnList'
      BY <3>1, <3>2, <3>3 DEF IInv, TypeOK, StatementsOnList
    <3>7. OneCandidatePerKey'
      BY <3>1, <3>3 DEF IInv, OneCandidatePerKey
    <3>8. EvidenceSurvives'
      BY <3>1, <3>3 DEF IInv, EvidenceSurvives
    <3>6. SupersededReplaced'
      BY <3>1, <3>2, <3>3 DEF IInv, TypeOK, SupersededReplaced
    <3> QED
      BY <1>0, <3>4, <3>5, <3>6, <3>7, <3>8 DEF IInv
  <2> QED
    BY <2>1, <2>2
<1>2. ASSUME NEW t \in Txn, TakeGuard(t) PROVE IInv'
  <2> DEFINE p == NextStatement(t, 1)
  <2>1. p \in {"snapshot", "commit"} /\ p \in Running \ {"guard"}
    BY NextStatementOnList DEF IInv, Running
  <2>2. at[t] = 1
    BY <1>2 DEF TakeGuard, IInv, StatementsOnList
  <2>3. p = "snapshot" => at[t] \in DOMAIN findings[t]
    BY <2>2, NextStatementOnList DEF IInv
  <2>4. /\ UNCHANGED <<findings, at, seen, status, dirty, owner>>
        /\ pc[t] = "guard" /\ pc' = [pc EXCEPT ![t] = p]
    BY <1>2 DEF TakeGuard
  <2>5. seen'[t] = {}
    BY <2>4 DEF IInv, StatementsOnList
  <2> HIDE DEF p
  <2> QED
    BY <1>0, <2>1, <2>3, <2>4, <2>5, InvQuiet
<1>3. ASSUME NEW t \in Txn, Snapshot(t) PROVE IInv'
  BY <1>0, <1>3, InvQuiet DEF Snapshot, IInv, TypeOK, StatementsOnList, Running
<1>4. ASSUME NEW t \in Txn, Supersede(t) PROVE IInv'
  BY <1>0, <1>4, InvSupersede
<1>5. ASSUME NEW t \in Txn, Insert(t) PROVE IInv'
  BY <1>0, <1>5, InvInsert
<1>6. ASSUME NEW t \in Txn, Commit(t) PROVE IInv'
  BY <1>0, <1>6, InvCommit
<1>7. ASSUME NEW t \in Txn, UniqueViolation(t) \/ DeadlockAbort(t) \/ Fail(t) PROVE IInv'
  BY <1>0, <1>7, InvRollback DEF UniqueViolation, DeadlockAbort, Fail, Failed, Running
<1>8. ASSUME NEW r \in Row, ApiStep(r) \/ Reactivate(r) PROVE IInv'
  BY <1>0, <1>8, InvSetStatus DEF ApiStep, Suppress, Confirm, MarkFp, Reactivate, Verdict
<1>9. CASE UNCHANGED vars
  <2>1. /\ \A k : RowsOf(k)' = RowsOf(k)
        /\ \A u : Current(u)' = Current(u)
    BY <1>9, RowsOfFixed DEF vars
  <2> QED
    BY <1>0, <1>9, <2>1 DEF vars, IInv, OwnersRun, RowsInOrder, StatementsOnList,
      OneCandidatePerKey, SupersededReplaced, EvidenceSurvives, HoldsGuard
<1> QED
  BY <1>1, <1>2, <1>3, <1>4, <1>5, <1>6, <1>7, <1>8, <1>9
  DEF Next, ScanNext, ScanStep, Terminated

\* The inductive invariant, of every behaviour.
THEOREM Invariant == Spec => []IInv
BY InvInit, InvNext, PTL DEF Spec

\* No interleaving of scans and verdicts gives a key two active findings.
THEOREM NeverScoredTwice == Spec => []OneActivePerKey
<1>1. IInv => OneActivePerKey
  BY DEF IInv, OneCandidatePerKey, OneActivePerKey
<1> QED
  BY <1>1, Invariant, PTL

\* An evidence point once reported is never left with superseded rows only.
THEOREM EvidenceNeverLost == Spec => []EvidenceSurvives
<1>1. IInv => EvidenceSurvives
  BY DEF IInv
<1> QED
  BY <1>1, Invariant, PTL

\* No scan supersedes a row an analyst has judged.
THEOREM VerdictsNotOverwritten == Spec => VerdictsStand
<1>1. IInv /\ [Next]_vars =>
        [\A r \in Row : status[r] \in Verdict => status'[r] # "superseded"]_vars
  <2> SUFFICES ASSUME IInv, [Next]_vars, NEW r \in Row, status[r] \in Verdict
               PROVE  status'[r] # "superseded"
    OBVIOUS
  <2>1. ASSUME NEW t \in Txn, Commit(t) PROVE status'[r] # "superseded"
    BY <2>1, CommitView DEF Verdict
  <2>2. ASSUME NEW x \in Row, NEW s \in Verdict \cup {"active"}, SetStatus(x, s)
        PROVE  status'[r] # "superseded"
    BY <2>2 DEF SetStatus, Verdict, IInv, TypeOK
  <2>3. CASE UNCHANGED status
    BY <2>3 DEF Verdict
  <2> QED
    BY <2>1, <2>2, <2>3
    DEF Next, ScanNext, ScanStep, Begin, TakeGuard, Snapshot, Supersede, Insert,
        UniqueViolation, DeadlockAbort, Fail, Rollback, ApiStep, Suppress, Confirm,
        MarkFp, Reactivate, Terminated, vars, Verdict
<1> QED
  BY <1>1, Invariant, PTL DEF Spec, VerdictsStand

(***************************************************************************)
(* Scans that one guard serializes.  As long as nobody reactivates a       *)
(* finding, what such a scan finds it can rely on until it is written.     *)
(***************************************************************************)
\* A scan that owns a row of a key has found that key.
LEMMA OwnerHasKey ==
  ASSUME IInv, NEW k \in Key, NEW r \in RowsOf(k), owner[r] # NoTxn
  PROVE  owner[r] \in Txn /\ HoldsGuard(owner[r]) /\ k \in KeysOf(owner[r])
<1>1. r \in Row /\ owner[r] \in Txn /\ HoldsGuard(owner[r]) /\ dirty[r] \in {"active", "superseded"}
  BY DEF RowsOf, IInv, TypeOK, OwnersRun
<1>2. \A q \in RowsOf(k) : q[1] = owner[r] => k \in KeysOf(owner[r])
  BY DEF RowsOf, KeysOf
<1>3. \A q \in RowsOf(k) : owner[q] = owner[r] /\ dirty[q] = "active" => q[1] = owner[r]
  BY <1>1 DEF RowsOf, IInv, OwnersRun
<1>4. pc[owner[r]] = "insert" /\ Current(owner[r]) = k => k \in KeysOf(owner[r])
  BY <1>1 DEF IInv, StatementsOnList, Current, KeysOf
<1> QED
  BY <1>1, <1>2, <1>3, <1>4 DEF IInv, SupersededReplaced

\* A scan at a statement of its list has found the statement's key.
LEMMA StatementHasKey ==
  ASSUME IInv, NEW t \in Txn, pc[t] \in {"snapshot", "supersede", "insert"}
  PROVE  Current(t) \in Key /\ Current(t) \in KeysOf(t) /\ HoldsGuard(t)
<1>1. at[t] \in DOMAIN findings[t]
  BY DEF IInv, StatementsOnList
<1> QED
  BY <1>1, RowOfStatement DEF IInv, Current, KeysOf, HoldsGuard, Running

\* Among serialized scans a key that one has found only that one works on.
LEMMA OneWorker ==
  ASSUME GuardsExclude, NEW t \in Txn, NEW u \in Txn, Serialized(t), HoldsGuard(t), HoldsGuard(u),
         KeysOf(u) \cap KeysOf(t) # {}
  PROVE  u = t
BY DEF GuardsExclude, Serialized

LEMMA NobodyElseOwns ==
  ASSUME IInv, GuardsExclude, NEW t \in Txn, Serialized(t),
         pc[t] \in {"snapshot", "supersede", "insert"}
  PROVE  \A r \in RowsOf(Current(t)) : owner[r] \in {NoTxn, t}
<1> SUFFICES ASSUME NEW r \in RowsOf(Current(t)), owner[r] # NoTxn PROVE owner[r] = t
  OBVIOUS
<1>1. Current(t) \in Key /\ Current(t) \in KeysOf(t) /\ HoldsGuard(t)
  BY StatementHasKey
<1>2. owner[r] \in Txn /\ HoldsGuard(owner[r]) /\ Current(t) \in KeysOf(owner[r])
  BY <1>1, OwnerHasKey
<1> QED
  BY <1>1, <1>2, OneWorker

LEMMA SerializedUnwaiting ==
  ASSUME IInv, GuardsExclude, NEW t \in Txn, Serialized(t)
  PROVE  ~Deadlocked(t)
<1>1. CASE pc[t] = "guard"
  <2> SUFFICES ASSUME NEW w \in Txn, t \in WaitsFor(w) PROVE FALSE
    BY DEF Deadlocked
  <2>1. ~HoldsGuard(t)
    BY <1>1 DEF HoldsGuard
  <2>2. \A r \in Row : owner[r] # t
    BY <2>1, TxnAssumption DEF IInv, OwnersRun
  <2>3. pc[w] = "supersede" => \A r \in seen[w] : owner[r] # t
    BY <2>2 DEF IInv, TypeOK
  <2>4. pc[w] = "insert" => \A r \in InDoubt(w, Current(w)) : owner[r] # t
    BY <2>2 DEF InDoubt, RowsOf
  <2> QED
    BY <2>1, <2>3, <2>4 DEF WaitsFor
<1>2. CASE pc[t] \in {"supersede", "insert"}
  <2>1. \A r \in RowsOf(Current(t)) : owner[r] \in {NoTxn, t}
    BY <1>2, NobodyElseOwns
  <2>2. pc[t] = "supersede" => seen[t] \subseteq RowsOf(Current(t))
    BY DEF IInv, StatementsOnList
  <2>3. WaitsFor(t) = {}
    BY <1>2, <2>1, <2>2 DEF WaitsFor, InDoubt
  <2> QED
    BY <2>3 DEF Deadlocked
<1>3. CASE pc[t] \notin {"guard", "supersede", "insert"}
  <2>1. WaitsFor(t) = {}
    BY <1>3 DEF WaitsFor
  <2> QED
    BY <2>1 DEF Deadlocked
<1> QED
  BY <1>1, <1>2, <1>3

\* The guard is taken when nobody holds it.
LEMMA GuardsNext ==
  ASSUME IInv, GuardsExclude, [ApiNext]_vars
  PROVE  GuardsExclude'
<1>1. ASSUME NEW t \in Txn, TakeGuard(t) PROVE GuardsExclude'
  <2>1. \A u \in Txn \ {t} : GuardOf[u] = GuardOf[t] => ~HoldsGuard(u)
    BY <1>1 DEF TakeGuard, WaitsFor
  <2>2. \A u \in Txn \ {t} : HoldsGuard(u)' <=> HoldsGuard(u)
    BY <1>1 DEF TakeGuard, HoldsGuard, IInv, TypeOK
  <2> QED
    BY <2>1, <2>2 DEF GuardsExclude
<1>2. ASSUME \A t \in Txn : HoldsGuard(t)' /\ GuardOf[t] # NoLock => HoldsGuard(t)
      PROVE  GuardsExclude'
  BY <1>2 DEF GuardsExclude
<1>3. ASSUME NEW t \in Txn, Begin(t) PROVE GuardsExclude'
  <2>1. \A u \in Txn : HoldsGuard(u)' /\ GuardOf[u] # NoLock => HoldsGuard(u)
    BY <1>3 DEF Begin, HoldsGuard, IInv, TypeOK
  <2> QED
    BY <1>2, <2>1
<1>4. ASSUME NEW t \in Txn, Snapshot(t) \/ Supersede(t) \/ Insert(t) \/ Commit(t)
      PROVE  GuardsExclude'
  <2>1. \A u \in Txn : HoldsGuard(u)' => HoldsGuard(u)
    BY <1>4 DEF Snapshot, Supersede, Insert, Commit, HoldsGuard, Running, IInv, TypeOK
  <2> QED
    BY <1>2, <2>1
<1>5. ASSUME NEW t \in Txn, UniqueViolation(t) \/ DeadlockAbort(t) \/ Fail(t)
      PROVE  GuardsExclude'
  <2>1. \A u \in Txn : HoldsGuard(u)' => HoldsGuard(u)
    BY <1>5 DEF UniqueViolation, DeadlockAbort, Fail, Rollback, HoldsGuard, Running, IInv, TypeOK
  <2> QED
    BY <1>2, <2>1
<1>6. ASSUME UNCHANGED pc PROVE GuardsExclude'
  BY <1>6 DEF GuardsExclude, HoldsGuard
<1> QED
  BY <1>1, <1>3, <1>4, <1>5, <1>6
  DEF ApiNext, ScanNext, ScanStep, ApiStep, Suppress, Confirm, MarkFp, SetStatus, Terminated, vars

\* A step that is not t's own makes no row of its key active for t.
LEMMA WayKept ==
  ASSUME IInv, GuardsExclude, WayCleared, UNCHANGED findings, NEW t \in Txn, Serialized(t),
         pc[t] \in {"supersede", "insert"},
         pc'[t] = pc[t], at'[t] = at[t], seen'[t] = seen[t],
         \A r \in Row : \/ owner'[r] = owner[r] /\ dirty'[r] = dirty[r]
                          /\ (status'[r] = "active" => status[r] = "active")
                       \/ owner[r] \in Txn \ {t}
                       \/ \E u \in Txn \ {t} : /\ pc[u] \in {"supersede", "insert"}
                                               /\ r \in RowsOf(Current(u))
  PROVE  \A r \in RowsOf(Current(t)) :
           View(t, r)' = "active" => pc'[t] = "supersede" /\ r \in seen'[t]
<1> SUFFICES ASSUME NEW r \in RowsOf(Current(t)), View(t, r)' = "active"
             PROVE  pc'[t] = "supersede" /\ r \in seen'[t]
  OBVIOUS
<1>1. r \in Row /\ owner[r] \in {NoTxn, t}
  BY NobodyElseOwns DEF RowsOf
<1>2. Current(t) \in Key /\ Current(t) \in KeysOf(t) /\ HoldsGuard(t)
  BY StatementHasKey
<1>3. ASSUME NEW u \in Txn \ {t}, pc[u] \in {"supersede", "insert"}, r \in RowsOf(Current(u))
      PROVE  FALSE
  <2>1. Current(u) \in KeysOf(u) /\ HoldsGuard(u)
    BY <1>3, StatementHasKey
  <2>2. Current(u) = Current(t)
    BY <1>3 DEF RowsOf
  <2> QED
    BY <1>2, <2>1, <2>2, OneWorker
<1>4. View(t, r) = "active"
  BY <1>1, <1>3, TxnAssumption DEF View
<1> QED
  BY <1>4 DEF WayCleared

LEMMA WayNext ==
  ASSUME IInv, GuardsExclude, WayCleared, [ApiNext]_vars
  PROVE  WayCleared'
<1>0. /\ UNCHANGED findings
      /\ \A k : RowsOf(k)' = RowsOf(k)
      /\ \A t : at'[t] = at[t] => Current(t)' = Current(t)
  <2>1. UNCHANGED findings
    BY DEF ApiNext, ScanNext, ScanStep, Begin, TakeGuard, Snapshot, Supersede, Insert, Commit,
           UniqueViolation, DeadlockAbort, Fail, Rollback,
           ApiStep, Suppress, Confirm, MarkFp, SetStatus, Terminated, vars
  <2> QED
    BY <2>1, RowsOfFixed
<1> SUFFICES ASSUME NEW t \in Txn, Serialized(t), pc'[t] \in {"supersede", "insert"},
                    NEW r \in RowsOf(Current(t)'), View(t, r)' = "active"
             PROVE  pc'[t] = "supersede" /\ r \in seen'[t]
  BY <1>0 DEF WayCleared, Serialized, KeysOf
<1> DEFINE Goal == pc'[t] = "supersede" /\ r \in seen'[t]
           Quiet(x) == \/ owner'[x] = owner[x] /\ dirty'[x] = dirty[x]
                          /\ (status'[x] = "active" => status[x] = "active")
                       \/ owner[x] \in Txn \ {t}
                       \/ \E u \in Txn \ {t} : /\ pc[u] \in {"supersede", "insert"}
                                               /\ x \in RowsOf(Current(u))
<1>1. ASSUME pc'[t] = pc[t], at'[t] = at[t], seen'[t] = seen[t], \A x \in Row : Quiet(x)
      PROVE  Goal
  BY <1>0, <1>1, WayKept
<1> HIDE DEF Goal, Quiet
<1>2. ASSUME Snapshot(t) PROVE Goal
  <2>1. /\ Current(t)' = Current(t) /\ pc'[t] = "supersede"
        /\ View(t, r)' = View(t, r)
    BY <1>0, <1>2 DEF Snapshot, View, IInv, TypeOK
  <2>2. seen'[t] = {x \in RowsOf(Current(t)) : View(t, x) = "active"}
    BY <1>2 DEF Snapshot, IInv, TypeOK
  <2> QED
    BY <2>1, <2>2 DEF Goal
<1>3. ASSUME Supersede(t) PROVE Goal
  <2>1. /\ Current(t)' = Current(t) /\ pc[t] = "supersede" /\ r \in Row
    BY <1>0, <1>3 DEF Supersede, RowsOf
  <2>2. CASE r \in Superseded(t)
    BY <1>3, <2>1, <2>2 DEF Supersede, View
  <2>3. CASE r \notin Superseded(t)
    <3>1. View(t, r) = "active"
      BY <1>3, <2>1, <2>3 DEF Supersede, View
    <3> QED
      BY <2>1, <2>3, <3>1 DEF Superseded, WayCleared
  <2> QED
    BY <2>2, <2>3
<1>4. ASSUME Begin(t) \/ TakeGuard(t) \/ Insert(t) PROVE Goal
  <2>1. \A i : NextStatement(t, i) \in {"snapshot", "commit"}
    BY DEF NextStatement
  <2>2. pc \in [Txn -> {"begin"} \cup Running \cup Ended]
    BY DEF IInv, TypeOK
  <2> QED
    BY <1>4, <2>1, <2>2 DEF Begin, TakeGuard, Insert
<1>5. ASSUME Commit(t) \/ UniqueViolation(t) \/ DeadlockAbort(t) \/ Fail(t) PROVE Goal
  BY <1>5 DEF Commit, UniqueViolation, DeadlockAbort, Fail, Rollback, IInv, TypeOK
<1>6. ASSUME NEW u \in Txn \ {t}, Begin(u) \/ TakeGuard(u) \/ Snapshot(u) PROVE Goal
  BY <1>1, <1>6 DEF Begin, TakeGuard, Snapshot, IInv, TypeOK, Quiet
<1>7. ASSUME NEW u \in Txn \ {t}, Supersede(u) PROVE Goal
  <2>1. pc[u] = "supersede" /\ Superseded(u) \subseteq RowsOf(Current(u))
    BY <1>7 DEF Supersede, Superseded, IInv, StatementsOnList
  <2> QED
    BY <1>1, <1>7, <2>1 DEF Supersede, IInv, TypeOK, Quiet
<1>8. ASSUME NEW u \in Txn \ {t}, Insert(u) PROVE Goal
  <2>1. <<u, at[u]>> \in RowsOf(Current(u)) /\ pc[u] = "insert"
    BY <1>8, RowOfStatement DEF Insert, IInv, StatementsOnList
  <2> QED
    BY <1>1, <1>8, <2>1 DEF Insert, IInv, TypeOK, Quiet
<1>9. ASSUME NEW u \in Txn \ {t}, Commit(u) PROVE Goal
  BY <1>1, <1>9 DEF Commit, Release, View, IInv, TypeOK, Quiet
<1>10. ASSUME NEW u \in Txn \ {t}, UniqueViolation(u) \/ DeadlockAbort(u) \/ Fail(u) PROVE Goal
  BY <1>1, <1>10
  DEF UniqueViolation, DeadlockAbort, Fail, Rollback, Release, IInv, TypeOK, Quiet
<1>11. ASSUME NEW x \in Row, NEW s \in Verdict, SetStatus(x, s) PROVE Goal
  BY <1>1, <1>11 DEF SetStatus, Verdict, IInv, TypeOK, Quiet
<1>12. ASSUME UNCHANGED vars PROVE Goal
  BY <1>1, <1>12 DEF vars, Quiet
<1> QED
  BY <1>2, <1>3, <1>4, <1>5, <1>6, <1>7, <1>8, <1>9, <1>10, <1>11, <1>12
  DEF ApiNext, ScanNext, ScanStep, ApiStep, Suppress, Confirm, MarkFp, Verdict, Terminated, Goal

\* The INSERT of a serialized scan finds no entry of its key in the index.
LEMMA CompleteNext ==
  ASSUME IInv, SerialInv, [ApiNext]_vars
  PROVE  SerializedScansComplete'
<1>1. UNCHANGED findings /\ \A t \in Txn : Serialized(t)' => Serialized(t)
  BY DEF ApiNext, ScanNext, ScanStep, Begin, TakeGuard, Snapshot, Supersede, Insert, Commit,
         UniqueViolation, DeadlockAbort, Fail, Rollback,
         ApiStep, Suppress, Confirm, MarkFp, SetStatus, Terminated, vars, Serialized, KeysOf
<1>2. ASSUME NEW t \in Txn, Serialized(t) PROVE ~UniqueViolation(t) /\ ~DeadlockAbort(t)
  <2>1. ~Conflict(t, Current(t)) \/ pc[t] # "insert"
    BY <1>2 DEF SerialInv, WayCleared, Conflict
  <2> QED
    BY <1>2, <2>1, SerializedUnwaiting DEF SerialInv, UniqueViolation, DeadlockAbort
<1>3. ASSUME NEW t \in Txn, ~UniqueViolation(t), ~DeadlockAbort(t),
             pc[t] \notin {"collided", "deadlocked"}
      PROVE  pc'[t] \notin {"collided", "deadlocked"}
  <2>1. \A u, i : NextStatement(u, i) \in {"snapshot", "commit"}
    BY DEF NextStatement
  <2>2. pc \in [Txn -> {"begin"} \cup Running \cup Ended]
    BY DEF IInv, TypeOK
  <2>3. ASSUME NEW u \in Txn, Begin(u) \/ TakeGuard(u) \/ Snapshot(u) \/ Supersede(u) \/ Insert(u)
        PROVE  pc'[t] \notin {"collided", "deadlocked"}
    BY <1>3, <2>1, <2>2, <2>3 DEF Begin, TakeGuard, Snapshot, Supersede, Insert
  <2>4. ASSUME NEW u \in Txn, Commit(u) \/ Fail(u) PROVE pc'[t] \notin {"collided", "deadlocked"}
    BY <1>3, <2>2, <2>4 DEF Commit, Fail, Rollback
  <2>5. ASSUME NEW u \in Txn, UniqueViolation(u) \/ DeadlockAbort(u)
        PROVE  pc'[t] \notin {"collided", "deadlocked"}
    BY <1>3, <2>2, <2>5 DEF UniqueViolation, DeadlockAbort, Rollback
  <2> QED
    BY <1>3, <2>3, <2>4, <2>5 DEF ScanNext, ScanStep, ApiNext, ApiStep, Suppress, Confirm, MarkFp, SetStatus, Terminated, vars
<1> QED
  BY <1>1, <1>2, <1>3 DEF SerialInv, SerializedScansComplete

\* A scan whose keys only scans with its guard write neither fails on the unique
\* index nor is chosen as a deadlock's victim, whatever the other scans and the
\* analysts' verdicts do meanwhile.
THEOREM GuardedScansComplete == ApiSpec => []SerializedScansComplete
<1>1. Init => IInv /\ SerialInv
  <2>1. Init => SerialInv
    BY DEF Init, SerialInv, GuardsExclude, WayCleared, SerializedScansComplete, HoldsGuard, Running
  <2> QED
    BY <2>1, InvInit
<1>2. IInv /\ SerialInv /\ [ApiNext]_vars => IInv' /\ SerialInv'
  <2>1. [ApiNext]_vars => [Next]_vars
    BY DEF ApiNext, Next
  <2> QED
    BY <2>1, InvNext, GuardsNext, WayNext, CompleteNext DEF SerialInv
<1>3. SerialInv => SerializedScansComplete
  BY DEF SerialInv
<1> QED
  BY <1>1, <1>2, <1>3, PTL DEF ApiSpec

(***************************************************************************)
(* Findings implements FindingStore.                                       *)
(***************************************************************************)
KeysOfRow == [r \in Row |-> {k \in Key : r \in RowsOf(k)}]

\* A row has one key, which its entry in the abstract store names.
LEMMA KeyOfRow ==
  ASSUME NEW k \in Key, NEW r \in RowsOf(k)
  PROVE  /\ r \in Row
         /\ KeysOfRow[r] = {k}
         /\ \A q \in Row : KeysOfRow[q] = KeysOfRow[r] => q \in RowsOf(k)
<1>1. r \in Row /\ \A j \in Key : r \in RowsOf(j) => j = k
  BY DEF RowsOf
<1>2. KeysOfRow[r] = {k}
  BY <1>1 DEF KeysOfRow
<1>3. ASSUME NEW q \in Row, KeysOfRow[q] = {k} PROVE q \in RowsOf(k)
  BY <1>3 DEF KeysOfRow
<1> QED
  BY <1>1, <1>2, <1>3

\* The rows a scan has inserted are, at its COMMIT, the rows it publishes.
LEMMA CommitPublishes ==
  ASSUME IInv, NEW t \in Txn, Commit(t)
  PROVE  \E W \in SUBSET Row : \E newest \in SUBSET W : Store!Publish(W, newest)
<1> DEFINE W == {r \in Row : owner[r] = t /\ status[r] = "none"}
           N == {r \in Row : owner[r] = t /\ dirty[r] = "active"}
<1>1. pc[t] = "commit" /\ UNCHANGED findings
  BY DEF Commit
<1>2. \A r \in N : r[1] = t /\ status[r] = "none"
  BY <1>1, TxnAssumption DEF IInv, OwnersRun, RowsInOrder
<1>3. \A r \in Row : owner[r] = t =>
        \E k \in Key : r \in RowsOf(k) /\ \E n \in N : n \in RowsOf(k)
  <2> SUFFICES ASSUME NEW r \in Row, owner[r] = t
               PROVE  \E k \in Key : r \in RowsOf(k) /\ \E n \in N : n \in RowsOf(k)
    OBVIOUS
  <2>1. r[2] \in DOMAIN findings[r[1]] /\ findings[r[1]] \in Seq(Key)
    BY TxnAssumption DEF IInv, RowsInOrder, TypeOK, Row
  <2>2. PICK k \in Key : r \in RowsOf(k)
    BY <2>1 DEF RowsOf
  <2>3. CASE dirty[r] = "active"
    BY <2>2, <2>3
  <2>4. CASE dirty[r] = "superseded"
    <3>1. PICK q \in RowsOf(k) : owner[q] = t /\ dirty[q] = "active"
      BY <1>1, <2>2, <2>4 DEF IInv, SupersededReplaced
    <3> QED
      BY <2>2, <3>1 DEF RowsOf
  <2> QED
    BY <2>3, <2>4, TxnAssumption DEF IInv, OwnersRun
<1>4. \A r \in W : \E n \in N : KeysOfRow[n] = KeysOfRow[r]
  <2> SUFFICES ASSUME NEW r \in W PROVE \E n \in N : KeysOfRow[n] = KeysOfRow[r]
    OBVIOUS
  <2>1. PICK k \in Key : r \in RowsOf(k) /\ \E n \in N : n \in RowsOf(k)
    BY <1>3
  <2>2. PICK n \in N : n \in RowsOf(k)
    BY <2>1
  <2>3. KeysOfRow[r] = {k} /\ KeysOfRow[n] = {k}
    BY <2>1, <2>2, KeyOfRow
  <2> QED
    BY <2>3
<1>5. \A m, n \in N : KeysOfRow[m] = KeysOfRow[n] => m = n
  BY <1>3, KeyOfRow DEF IInv, OneCandidatePerKey
<1>6. ASSUME NEW r \in Row
      PROVE  status'[r] = IF r \in N THEN "active"
                          ELSE IF \/ r \in W
                                  \/ status[r] = "active" /\ \E n \in N : KeysOfRow[n] = KeysOfRow[r]
                          THEN "superseded" ELSE status[r]
  <2>1. CASE owner[r] = t
    <3>1. dirty[r] \in {"active", "superseded"}
      BY <2>1, TxnAssumption DEF IInv, OwnersRun
    <3>2. \E n \in N : KeysOfRow[n] = KeysOfRow[r]
      BY <1>3, <2>1, KeyOfRow
    <3> QED
      BY <2>1, <3>1, <3>2, CommitView
  <2>2. CASE owner[r] # t
    <3>1. ASSUME status[r] = "active", NEW n \in N, KeysOfRow[n] = KeysOfRow[r]
          PROVE  FALSE
      <4>1. PICK k \in Key : n \in RowsOf(k)
        BY <1>3
      <4>2. r \in RowsOf(k)
        BY <3>1, <4>1, KeyOfRow
      <4> QED
        BY <1>2, <2>2, <3>1, <4>1, <4>2 DEF IInv, OneCandidatePerKey
    <3> QED
      BY <2>2, <3>1, CommitView
  <2> QED
    BY <2>1, <2>2
<1>7. status' = [r \in Row |-> IF r \in N THEN "active"
                               ELSE IF \/ r \in W
                                       \/ status[r] = "active" /\ \E n \in N : KeysOfRow[n] = KeysOfRow[r]
                               THEN "superseded" ELSE status[r]]
  <2>1. status' = [r \in Row |-> View(t, r)]
    BY DEF Commit
  <2> QED
    BY <1>6, <2>1
<1>8. UNCHANGED KeysOfRow
  BY <1>1, RowsOfFixed DEF KeysOfRow
<1>9. N \subseteq W /\ \A r \in W : status[r] = "none"
  BY <1>2
<1>10. Store!Publish(W, N)
  BY <1>4, <1>5, <1>7, <1>8, <1>9 DEF Store!Publish, KeysOfRow
<1> QED
  BY <1>9, <1>10

\* A verdict is one change of one row.
LEMMA SetStatusJudges ==
  ASSUME IInv, NEW x \in Row, NEW s \in Verdict \cup {"active"}, SetStatus(x, s),
         s = "active" => \A k \in Key : \A q \in RowsOf(k) \ {x} :
           x \in RowsOf(k) => status[q] # "active" /\ dirty[q] # "active"
  PROVE  Store!Judge(x, s)
<1>1. UNCHANGED KeysOfRow
  BY RowsOfFixed DEF SetStatus, KeysOfRow
<1>2. status[x] # "none" /\ status' = [status EXCEPT ![x] = s]
  BY DEF SetStatus
<1>3. \E k \in Key : x \in RowsOf(k)
  <2>1. x[2] \in DOMAIN findings[x[1]] /\ findings[x[1]] \in Seq(Key)
    BY <1>2 DEF IInv, RowsInOrder, TypeOK, Row
  <2> QED
    BY <2>1 DEF RowsOf
<1>4. s = "active" => \A q \in Row \ {x} : KeysOfRow[q] = KeysOfRow[x] => status[q] # "active"
  BY <1>3, KeyOfRow
<1> QED
  BY <1>1, <1>2, <1>4 DEF Store!Judge, KeysOfRow

\* To its readers the table is one in which scans happen in one step.
THEOREM ScansAreAtomic == Spec => ImplementsStore
<1>1. Init => Store!Init
  BY DEF Init, Store!Init
<1>2. IInv /\ [Next]_vars => [Store!Next]_<<KeysOfRow, status>>
  <2> SUFFICES ASSUME IInv, [Next]_vars, ~UNCHANGED <<KeysOfRow, status>>
               PROVE  Store!Next
    OBVIOUS
  <2>1. ASSUME NEW t \in Txn, Commit(t) PROVE Store!Next
    BY <2>1, CommitPublishes DEF Store!Next
  <2>2. ASSUME NEW x \in Row, ApiStep(x) \/ Reactivate(x) PROVE Store!Next
    <3>1. PICK s \in Verdict \cup {"active"} : Store!Judge(x, s)
      BY <2>2, SetStatusJudges
      DEF ApiStep, Suppress, Confirm, MarkFp, Reactivate, Verdict
    <3> QED
      BY <3>1 DEF Store!Next, Store!Verdict, Verdict
  <2>3. ASSUME UNCHANGED <<findings, status>> PROVE FALSE
    BY <2>3, RowsOfFixed DEF KeysOfRow
  <2> QED
    BY <2>1, <2>2, <2>3
    DEF Next, ScanNext, ScanStep, Begin, TakeGuard, Snapshot, Supersede, Insert,
        UniqueViolation, DeadlockAbort, Fail, Rollback, Terminated, vars
<1> QED
  BY <1>1, <1>2, Invariant, PTL DEF Spec, ImplementsStore, Store!Spec, KeysOfRow
=============================================================================

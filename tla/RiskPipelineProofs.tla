------------------------- MODULE RiskPipelineProofs -------------------------
(***************************************************************************)
(* Theorems about RiskPipeline, for any number of ingestors, commands,     *)
(* writers, servers, findings and failures.                                *)
(***************************************************************************)
EXTENDS RiskPipeline, FiniteSetTheorems, TLAPS

\* Where a process goes once it is done with a server.
LEMMA AfterServerPc ==
  ASSUME NEW p \in Proc, NEW left
  PROVE  AfterServer(p, left) \in {"select", "cursor", "commit"}
BY DEF AfterServer

LEMMA AlertInit == Init => AlertInv
<1> SUFFICES ASSUME Init PROVE AlertInv
  OBVIOUS
<1>1. ASSUME Server # {} PROVE (CHOOSE s \in Server : TRUE) \in Server
  BY <1>1
<1>2. cur \in [Proc -> {CHOOSE s \in Server : TRUE}]
  BY DEF Init
<1>3. ControlOK
  BY <1>1, <1>2, ServerAssumption DEF Init, ControlOK
<1>4. LocksHeld /\ AlertsClear
  BY DEF Init, LocksHeld, AlertsClear
<1>5. NoDuplicateAlert
  BY DEF Init, NoDuplicateAlert
<1> QED
  BY <1>3, <1>4, <1>5 DEF AlertInv

\* Steps that change neither locks, alerts nor any process.
LEMMA AlertWriters ==
  ASSUME AlertInv, UNCHANGED <<lock, open, recent, pend, pc, todo, cur, agg>>
  PROVE  AlertInv'
BY DEF AlertInv, ControlOK, LocksHeld, AlertsClear, NoDuplicateAlert

\* Steps that only move a process p from one place to another.
LEMMA AlertMove ==
  ASSUME AlertInv, NEW p \in Proc, UNCHANGED <<lock, open, recent, pend>>,
         NEW to \in {"select", "update", "cursor", "commit"},
         pc' = [pc EXCEPT ![p] = to],
         todo' \in [Proc -> SUBSET Server], cur' \in [Proc -> Server],
         agg' = [q \in Proc |-> agg'[q]],
         \A q \in Proc \ {p} : cur'[q] = cur[q] /\ agg'[q] = agg[q]
  PROVE  AlertInv'
<1>1. \A q \in Proc : IF q = p THEN pc'[q] = to ELSE pc'[q] = pc[q]
  BY DEF AlertInv, ControlOK
<1>2. ControlOK'
  BY DEF AlertInv, ControlOK, Busy
<1>3. LocksHeld'
  BY <1>1 DEF AlertInv, ControlOK, LocksHeld
<1>4. AlertsClear' /\ NoDuplicateAlert'
  BY <1>1 DEF AlertInv, AlertsClear, NoDuplicateAlert
<1> QED
  BY <1>2, <1>3, <1>4 DEF AlertInv

LEMMA AlertUpdateServer ==
  ASSUME AlertInv, NEW p \in Proc, UpdateServer(p)
  PROVE  AlertInv'
<1> DEFINE to == IF p \in Ingestor /\ agg[p] \in Alert THEN "check_open"
                 ELSE AfterServer(p, todo[p] \ {cur[p]})
<1>1. /\ pc[p] = "update" /\ lock[cur[p]] \in {NoProc, p}
      /\ pc' = [pc EXCEPT ![p] = to] /\ lock' = [lock EXCEPT ![cur[p]] = p]
      /\ todo' = [todo EXCEPT ![p] = @ \ {cur[p]}]
      /\ UNCHANGED <<open, recent, pend, cur, agg>>
  BY DEF UpdateServer, triage
<1>2. /\ to \in {"check_open", "select", "cursor", "commit"}
      /\ to = "check_open" => p \in Ingestor /\ agg[p] \in Alert
  BY AfterServerPc
<1> HIDE DEF to
<1>3. ControlOK'
  BY <1>1, <1>2 DEF AlertInv, ControlOK, Busy
<1>4. LocksHeld'
  <2>1. \A s \in Server : lock'[s] = IF s = cur[p] THEN p ELSE lock[s]
    BY <1>1 DEF AlertInv, ControlOK
  <2>2. \A q \in Proc : pc'[q] = IF q = p THEN to ELSE pc[q]
    BY <1>1 DEF AlertInv, ControlOK
  <2>3. \A e \in pend : e[2] \in Server /\ lock[e[2]] = e[1] /\ e[1] # NoProc
    BY SetsAssumption DEF AlertInv, ControlOK, LocksHeld, Proc
  <2>4. \A e \in pend : lock'[e[2]] = e[1]
    BY <1>1, <2>1, <2>3
  <2>5. \A q \in Proc : pc[q] \in {"check_open", "check_recent", "enqueue"} => lock[cur[q]] = q
    BY DEF AlertInv, LocksHeld
  <2>6. \A s \in Server : lock'[s] # NoProc => pc'[lock'[s]] \notin {"idle", "done"}
    BY <1>2, <2>1, <2>2 DEF AlertInv, ControlOK, LocksHeld
  <2>7. ASSUME NEW q \in Proc, pc'[q] \in {"check_open", "check_recent", "enqueue"}
        PROVE  q \in Ingestor /\ lock'[cur'[q]] = q /\ agg'[q] \in Alert
    <3>1. CASE q = p
      BY <1>1, <1>2, <2>1, <2>2, <2>7, <3>1 DEF AlertInv, ControlOK
    <3>2. CASE q # p
      <4>1. lock[cur[q]] = q /\ q \in Ingestor /\ agg[q] \in Alert
        BY <2>2, <2>7, <3>2 DEF AlertInv, LocksHeld
      <4>2. q # NoProc /\ cur[q] \in Server
        BY SetsAssumption DEF Proc, AlertInv, ControlOK
      <4> QED
        BY <1>1, <2>1, <3>2, <4>1, <4>2
    <3> QED
      BY <3>1, <3>2
  <2> QED
    BY <1>1, <2>4, <2>6, <2>7 DEF LocksHeld
<1>5. AlertsClear' /\ NoDuplicateAlert'
  BY <1>1, <1>2 DEF AlertInv, ControlOK, AlertsClear, NoDuplicateAlert
<1> QED
  BY <1>3, <1>4, <1>5 DEF AlertInv

LEMMA AlertCheckOpen ==
  ASSUME AlertInv, NEW i \in Ingestor, CheckOpen(i)
  PROVE  AlertInv'
<1> DEFINE to == IF AlreadyOpen(i) THEN AfterServer(i, todo[i]) ELSE "check_recent"
<1>1. /\ pc[i] = "check_open" /\ pc' = [pc EXCEPT ![i] = to]
      /\ UNCHANGED <<lock, open, recent, pend, todo, cur, agg>>
      /\ i \in Proc
  BY DEF CheckOpen, triage, Proc
<1>2. /\ to \in {"select", "cursor", "commit", "check_recent"}
      /\ to = "check_recent" => ~AlreadyOpen(i)
  BY <1>1, AfterServerPc
<1>3. ~AlreadyOpen(i) => /\ open[cur[i]][agg[i]] = 0
                         /\ <<i, cur[i], agg[i]>> \notin pend
  BY <1>1 DEF AlreadyOpen, AlertInv, ControlOK, LocksHeld
<1> HIDE DEF to
<1>4. \A q \in Proc : pc'[q] = IF q = i THEN to ELSE pc[q]
  BY <1>1 DEF AlertInv, ControlOK
<1>5. ControlOK'
  BY <1>1, <1>2 DEF AlertInv, ControlOK, Busy
<1>6. LocksHeld'
  BY <1>1, <1>2, <1>4 DEF AlertInv, ControlOK, LocksHeld
<1>7. AlertsClear' /\ NoDuplicateAlert'
  BY <1>1, <1>2, <1>3, <1>4 DEF AlertInv, AlertsClear, NoDuplicateAlert
<1> QED
  BY <1>5, <1>6, <1>7 DEF AlertInv

LEMMA AlertCheckRecent ==
  ASSUME AlertInv, NEW i \in Ingestor, CheckRecent(i)
  PROVE  AlertInv'
<1> DEFINE to == IF RecentResolution(i) THEN AfterServer(i, todo[i]) ELSE "enqueue"
<1>1. /\ pc[i] = "check_recent" /\ pc' = [pc EXCEPT ![i] = to]
      /\ UNCHANGED <<lock, open, recent, pend, todo, cur, agg>>
      /\ i \in Proc
  BY DEF CheckRecent, triage, Proc
<1>2. /\ to \in {"select", "cursor", "commit", "enqueue"}
      /\ to = "enqueue" => ~recent[cur[i]][agg[i]]
  BY <1>1, AfterServerPc DEF RecentResolution
<1> HIDE DEF to
<1>3. \A q \in Proc : pc'[q] = IF q = i THEN to ELSE pc[q]
  BY <1>1 DEF AlertInv, ControlOK
<1>4. ControlOK'
  BY <1>1, <1>2 DEF AlertInv, ControlOK, Busy
<1>5. LocksHeld'
  BY <1>1, <1>2, <1>3 DEF AlertInv, ControlOK, LocksHeld
<1>6. AlertsClear' /\ NoDuplicateAlert'
  BY <1>1, <1>2, <1>3 DEF AlertInv, AlertsClear, NoDuplicateAlert
<1> QED
  BY <1>4, <1>5, <1>6 DEF AlertInv

LEMMA AlertEnqueue ==
  ASSUME AlertInv, NEW i \in Ingestor, Enqueue(i)
  PROVE  AlertInv'
<1> DEFINE to == AfterServer(i, todo[i])
           e0 == <<i, cur[i], agg[i]>>
<1>1. /\ pc[i] = "enqueue" /\ pc' = [pc EXCEPT ![i] = to] /\ pend' = pend \cup {e0}
      /\ UNCHANGED <<lock, open, recent, todo, cur, agg>>
      /\ i \in Proc /\ to \in {"select", "cursor", "commit"}
  BY AfterServerPc DEF Enqueue, triage, Proc
<1>2. /\ lock[cur[i]] = i /\ agg[i] \in Alert /\ cur[i] \in Server
      /\ open[cur[i]][agg[i]] = 0 /\ ~recent[cur[i]][agg[i]]
  BY <1>1 DEF AlertInv, ControlOK, LocksHeld, AlertsClear
<1> HIDE DEF to
<1>3. \A q \in Proc : pc'[q] = IF q = i THEN to ELSE pc[q]
  BY <1>1 DEF AlertInv, ControlOK
<1>4. ControlOK'
  BY <1>1, <1>2 DEF AlertInv, ControlOK, Busy
<1>5. LocksHeld'
  BY <1>1, <1>2, <1>3 DEF AlertInv, ControlOK, LocksHeld
<1>6. AlertsClear' /\ NoDuplicateAlert'
  BY <1>1, <1>2, <1>3 DEF AlertInv, AlertsClear, NoDuplicateAlert
<1> QED
  BY <1>4, <1>5, <1>6 DEF AlertInv

\* The end of a transaction: p's locks and uncommitted alerts go, and its alerts
\* are open afterwards if it committed.
LEMMA AlertRelease ==
  ASSUME AlertInv, NEW p \in Proc, Release(p), UNCHANGED <<recent, cur>>,
         open' \in [Server -> [Alert -> Nat]],
         \A s \in Server, l \in Alert :
           open'[s][l] = open[s][l] \/ (open'[s][l] = open[s][l] + 1 /\ <<p, s, l>> \in pend)
  PROVE  AlertInv'
<1>1. /\ \A s \in Server : lock'[s] = IF lock[s] = p THEN NoProc ELSE lock[s]
      /\ pend' = {e \in pend : e[1] # p}
      /\ \A q \in Proc : IF q = p THEN pc'[q] \in {"idle", "done"}
                         ELSE pc'[q] = pc[q] /\ agg'[q] = agg[q]
  BY DEF Release, AlertInv, ControlOK
<1>2. ControlOK'
  BY DEF Release, AlertInv, ControlOK
<1>3. LocksHeld'
  <2>1. \A s \in Server : lock'[s] # NoProc => pc'[lock'[s]] \notin {"idle", "done"}
    BY <1>1 DEF AlertInv, ControlOK, LocksHeld
  <2>2. \A q \in Proc : pc'[q] \in {"check_open", "check_recent", "enqueue"} =>
          q \in Ingestor /\ lock'[cur'[q]] = q /\ agg'[q] \in Alert
    BY <1>1 DEF AlertInv, ControlOK, LocksHeld
  <2>3. \A e \in pend' : lock'[e[2]] = e[1]
    BY <1>1 DEF AlertInv, ControlOK, LocksHeld
  <2> QED
    BY <2>1, <2>2, <2>3 DEF LocksHeld
<1>4. \A e \in pend : /\ e[2] \in Server /\ e[3] \in Alert
                      /\ <<e[1], e[2], e[3]>> = e
                      /\ lock[e[2]] = e[1]
  BY DEF AlertInv, ControlOK, LocksHeld
<1>5. AlertsClear'
  <2>1. ASSUME NEW q \in Proc, pc'[q] \in {"check_recent", "enqueue"}
        PROVE  /\ open'[cur[q]][agg[q]] = 0 /\ <<q, cur[q], agg[q]>> \notin pend'
               /\ pc'[q] = "enqueue" => ~recent[cur[q]][agg[q]]
    <3>1. q # p /\ pc[q] \in {"check_recent", "enqueue"} /\ pc'[q] = pc[q]
      BY <1>1, <2>1
    <3>2. /\ lock[cur[q]] = q /\ agg[q] \in Alert /\ cur[q] \in Server
          /\ open[cur[q]][agg[q]] = 0 /\ <<q, cur[q], agg[q]>> \notin pend
          /\ pc[q] = "enqueue" => ~recent[cur[q]][agg[q]]
      BY <3>1 DEF AlertInv, ControlOK, LocksHeld, AlertsClear
    <3>3. <<p, cur[q], agg[q]>> \notin pend
      BY <1>4, <3>1, <3>2
    <3> QED
      BY <1>1, <3>1, <3>2, <3>3
  <2>2. ASSUME NEW e \in pend'
        PROVE  open'[e[2]][e[3]] = 0 /\ ~recent[e[2]][e[3]]
    <3>1. e \in pend /\ e[1] # p /\ open[e[2]][e[3]] = 0 /\ ~recent[e[2]][e[3]]
      BY <1>1, <2>2 DEF AlertInv, AlertsClear
    <3>2. <<p, e[2], e[3]>> \notin pend
      BY <1>4, <3>1
    <3> QED
      BY <1>4, <3>1, <3>2
  <2> QED
    BY <1>1, <2>1, <2>2 DEF AlertsClear
<1>6. NoDuplicateAlert'
  <2> SUFFICES ASSUME NEW s \in Server, NEW l \in Alert PROVE open'[s][l] <= 1
    BY DEF NoDuplicateAlert
  <2>1. open[s][l] \in Nat /\ open[s][l] <= 1
    BY DEF AlertInv, ControlOK, NoDuplicateAlert
  <2>2. ASSUME <<p, s, l>> \in pend PROVE open[s][l] = 0
    <3> DEFINE e == <<p, s, l>>
    <3>1. e[2] = s /\ e[3] = l /\ e \in pend
      BY <2>2
    <3> HIDE DEF e
    <3> QED
      BY <3>1 DEF AlertInv, AlertsClear
  <2> QED
    BY <2>1, <2>2
<1> QED
  BY <1>2, <1>3, <1>5, <1>6 DEF AlertInv

LEMMA AlertCommit ==
  ASSUME AlertInv, NEW p \in Proc, Commit(p)
  PROVE  AlertInv'
<1>1. /\ Release(p) /\ UNCHANGED <<recent, cur>>
      /\ open' = [s \in Server |-> [l \in Alert |->
           IF <<p, s, l>> \in pend THEN open[s][l] + 1 ELSE open[s][l]]]
  BY DEF Commit
<1>2. open' \in [Server -> [Alert -> Nat]]
  BY <1>1 DEF AlertInv, ControlOK
<1>3. \A s \in Server, l \in Alert :
        open'[s][l] = open[s][l] \/ (open'[s][l] = open[s][l] + 1 /\ <<p, s, l>> \in pend)
  BY <1>1
<1> QED
  BY <1>1, <1>2, <1>3, AlertRelease

LEMMA AlertRollback ==
  ASSUME AlertInv, NEW p \in Proc, Rollback(p)
  PROVE  AlertInv'
<1>1. Release(p) /\ UNCHANGED <<recent, cur, open>>
  BY DEF Rollback, triage
<1>2. open' \in [Server -> [Alert -> Nat]]
  BY <1>1 DEF AlertInv, ControlOK
<1> QED
  BY <1>1, <1>2, AlertRelease

\* Alerts may close, and alerts that are not open may become raisable again.
LEMMA AlertAnswers ==
  ASSUME AlertInv, UNCHANGED <<lock, pend, pc, todo, cur, agg>>,
         open' \in [Server -> [Alert -> Nat]],
         recent' \in [Server -> [Alert -> BOOLEAN]],
         \A x \in Server, m \in Alert :
           /\ open[x][m] = 0 => /\ open'[x][m] = 0
                                /\ recent'[x][m] = recent[x][m] \/ ~recent'[x][m]
           /\ open'[x][m] <= open[x][m]
  PROVE  AlertInv'
<1>1. ControlOK'
  BY DEF AlertInv, ControlOK
<1>2. LocksHeld'
  BY DEF AlertInv, LocksHeld
<1>3. AlertsClear'
  <2>1. \A e \in pend : e[2] \in Server /\ e[3] \in Alert
    BY DEF AlertInv, ControlOK
  <2>2. \A p \in Proc : pc[p] \in {"check_recent", "enqueue"} => cur[p] \in Server /\ agg[p] \in Alert
    BY DEF AlertInv, ControlOK, LocksHeld
  <2>3. ASSUME NEW x \in Server, NEW m \in Alert, open[x][m] = 0
        PROVE  open'[x][m] = 0 /\ (~recent[x][m] => ~recent'[x][m])
    BY <2>3
  <2>4. \A p \in Proc : pc[p] \in {"check_recent", "enqueue"} => open'[cur[p]][agg[p]] = 0
    BY <2>2, <2>3 DEF AlertInv, AlertsClear
  <2>5. \A p \in Proc : pc[p] = "enqueue" => ~recent'[cur[p]][agg[p]]
    BY <2>2, <2>3 DEF AlertInv, AlertsClear
  <2>6. \A e \in pend : open'[e[2]][e[3]] = 0 /\ ~recent'[e[2]][e[3]]
    BY <2>1, <2>3 DEF AlertInv, AlertsClear
  <2> QED
    BY <2>4, <2>5, <2>6 DEF AlertInv, AlertsClear
<1>4. NoDuplicateAlert'
  <2>1. \A x \in Server, m \in Alert : open[x][m] \in Nat /\ open'[x][m] \in Nat
    BY DEF AlertInv, ControlOK
  <2> QED
    BY <2>1 DEF AlertInv, NoDuplicateAlert
<1> QED
  BY <1>1, <1>2, <1>3, <1>4 DEF AlertInv

\* What an analyst resolves is open, so no process is about to raise it.
LEMMA AlertAnalyst ==
  ASSUME AlertInv, NEW s \in Server, NEW l \in Alert, Resolve(s, l) \/ DayPasses(s, l)
  PROVE  AlertInv'
<1>1. UNCHANGED <<lock, pend, pc, todo, cur, agg>>
  BY DEF Resolve, DayPasses, local
<1>2. /\ open \in [Server -> [Alert -> Nat]]
      /\ recent \in [Server -> [Alert -> BOOLEAN]]
  BY DEF AlertInv, ControlOK
<1>3. CASE Resolve(s, l)
  <2>1. /\ open[s][l] > 0
        /\ open' = [open EXCEPT ![s] = [open[s] EXCEPT ![l] = open[s][l] - 1]]
        /\ recent' = [recent EXCEPT ![s] = [recent[s] EXCEPT ![l] = TRUE]]
    BY <1>3 DEF Resolve
  <2>2. open[s] \in [Alert -> Nat] /\ recent[s] \in [Alert -> BOOLEAN]
    BY <1>2
  <2>3. /\ [open[s] EXCEPT ![l] = open[s][l] - 1] \in [Alert -> Nat]
        /\ [recent[s] EXCEPT ![l] = TRUE] \in [Alert -> BOOLEAN]
    BY <2>1, <2>2
  <2>4. /\ open' \in [Server -> [Alert -> Nat]]
        /\ recent' \in [Server -> [Alert -> BOOLEAN]]
    BY <1>2, <2>1, <2>3
  <2>5. ASSUME NEW x \in Server, NEW m \in Alert
        PROVE  /\ open[x][m] = 0 => open'[x][m] = 0 /\ recent'[x][m] = recent[x][m]
               /\ open'[x][m] <= open[x][m]
    <3>1. open[x] \in [Alert -> Nat] /\ recent[x] \in [Alert -> BOOLEAN]
      BY <1>2
    <3>2. CASE x = s /\ m = l
      <4>1. open'[s][l] = open[s][l] - 1
        BY <1>2, <2>1, <2>2
      <4>2. open[s][l] \in Nat
        BY <2>2
      <4>3. open[s][l] # 0 /\ open'[s][l] <= open[s][l]
        BY <2>1, <4>1, <4>2
      <4> QED
        BY <3>2, <4>3
    <3>3. CASE x # s
      BY <1>2, <2>1, <3>1, <3>3
    <3>4. CASE x = s /\ m # l
      BY <1>2, <2>1, <2>2, <3>1, <3>4
    <3> QED
      BY <3>2, <3>3, <3>4
  <2> QED
    BY <1>1, <2>4, <2>5, AlertAnswers
<1>4. CASE DayPasses(s, l)
  <2>1. /\ open' = open
        /\ recent' = [recent EXCEPT ![s] = [recent[s] EXCEPT ![l] = FALSE]]
    BY <1>4 DEF DayPasses
  <2>2. [recent[s] EXCEPT ![l] = FALSE] \in [Alert -> BOOLEAN]
    BY <1>2
  <2>3. recent' \in [Server -> [Alert -> BOOLEAN]]
    BY <1>2, <2>1, <2>2
  <2>4. ASSUME NEW x \in Server, NEW m \in Alert
        PROVE  recent'[x][m] = recent[x][m] \/ ~recent'[x][m]
    BY <1>2, <2>1
  <2>5. \A x \in Server, m \in Alert : open'[x][m] <= open[x][m]
    BY <1>2, <2>1
  <2> QED
    BY <1>1, <1>2, <2>1, <2>3, <2>4, <2>5, AlertAnswers
<1> QED
  BY <1>3, <1>4

LEMMA AlertNext == AlertInv /\ [Next]_vars => AlertInv'
<1> SUFFICES ASSUME AlertInv, [Next]_vars PROVE AlertInv'
  OBVIOUS
<1>1. ASSUME WriterNext \/ UNCHANGED vars PROVE AlertInv'
  BY <1>1, AlertWriters
  DEF WriterNext, Write, LongBegin, LongCommit, triage, local, vars
<1>2. ASSUME NEW i \in Ingestor, Poll(i) PROVE AlertInv'
  <2>1. Dirty(i) \subseteq Server
    BY SetsAssumption DEF Dirty, Fresh
  <2> QED
    BY <1>2, <2>1, AlertMove DEF Poll, triage, Proc, AlertInv, ControlOK
<1>3. ASSUME NEW i \in Ingestor, IdlePoll(i) PROVE AlertInv'
  BY <1>3, AlertWriters DEF IdlePoll, vars
<1>4. ASSUME NEW c \in Cli, NEW s \in Server, Aggregate(c, s) PROVE AlertInv'
  BY <1>4, AlertMove DEF Aggregate, triage, Proc, AlertInv, ControlOK
<1>5. ASSUME NEW p \in Proc, NEW s \in Server, Select(p, s) PROVE AlertInv'
  BY <1>5, AlertMove DEF Select, triage, AlertInv, ControlOK
<1>6. ASSUME NEW i \in Ingestor, SetCursor(i) PROVE AlertInv'
  BY <1>6, AlertMove DEF SetCursor, triage, Proc, AlertInv, ControlOK
<1>7. ASSUME NEW p \in Proc, Fail(p) \/ CommitFails(p) \/ DeadlockAbort(p) PROVE AlertInv'
  BY <1>7, AlertRollback DEF Fail, CommitFails, DeadlockAbort
<1>8. ASSUME NEW i \in Ingestor, Restart(i) PROVE AlertInv'
  BY <1>8, AlertRollback DEF Restart, Proc
<1>9. ASSUME AnalystNext PROVE AlertInv'
  BY <1>9, AlertAnalyst DEF AnalystNext
<1> QED
  BY <1>1, <1>2, <1>3, <1>4, <1>5, <1>6, <1>7, <1>8, <1>9,
     AlertUpdateServer, AlertCheckOpen, AlertCheckRecent, AlertEnqueue, AlertCommit
  DEF Next, ProcNext, IngestorStep, ProcStep, Proc

\* The inductive invariant, of every behaviour.
THEOREM AlertInvariant == Spec => []AlertInv
BY AlertInit, AlertNext, PTL DEF Spec

\* However many ingestors run, fail and restart, a server has at most one open
\* alert of each priority.
THEOREM OneOpenAlert == Spec => []NoDuplicateAlert
<1>1. AlertInv => NoDuplicateAlert
  BY DEF AlertInv
<1> QED
  BY <1>1, AlertInvariant, PTL

\* An alert resolved within the debounce period is never raised again.
THEOREM ResolvedNotRaised == Spec => Debounced
<1>1. AlertInv /\ [Next]_vars =>
        [\A s \in Server, l \in Alert : open'[s][l] > open[s][l] => ~recent[s][l]]_vars
  <2> SUFFICES ASSUME AlertInv, [Next]_vars, NEW s \in Server, NEW l \in Alert,
                      open'[s][l] > open[s][l]
               PROVE  ~recent[s][l]
    OBVIOUS
  <2>0. open[s][l] \in Nat
    BY DEF AlertInv, ControlOK
  <2>1. ASSUME NEW p \in Proc, Commit(p) PROVE ~recent[s][l]
    <3> DEFINE e == <<p, s, l>>
    <3>1. e \in pend /\ e[2] = s /\ e[3] = l
      BY <2>0, <2>1 DEF Commit
    <3> HIDE DEF e
    <3> QED
      BY <3>1 DEF AlertInv, AlertsClear
  <2>2. CASE UNCHANGED open
    BY <2>0, <2>2
  <2>3. ASSUME NEW x \in Server, NEW m \in Alert, Resolve(x, m) PROVE FALSE
    <3>1. open \in [Server -> [Alert -> Nat]] /\ open[s] \in [Alert -> Nat]
      BY DEF AlertInv, ControlOK
    <3>2. open' = [open EXCEPT ![x] = [open[x] EXCEPT ![m] = open[x][m] - 1]]
      BY <2>3 DEF Resolve
    <3> QED
      BY <2>0, <3>1, <3>2
  <2> QED
    BY <2>1, <2>2, <2>3
    DEF Next, WriterNext, ProcNext, AnalystNext, IngestorStep, ProcStep, Proc, Write,
        LongBegin, LongCommit, Poll, IdlePoll, Aggregate, Select, UpdateServer, CheckOpen,
        CheckRecent, Enqueue, SetCursor, Fail, CommitFails, Restart, DeadlockAbort,
        Rollback, DayPasses, triage, vars
<1> QED
  BY <1>1, AlertInvariant, PTL DEF Spec, Debounced
-----------------------------------------------------------------------------
\* A bounded set of numbers has a highest one.
LEMMA HighestIn ==
  ASSUME NEW n \in Nat, NEW S \in SUBSET (0..n), S # {}
  PROVE  Highest(S) \in S /\ \A y \in S : y <= Highest(S)
<1> DEFINE Above(x) == (x + 1)..n
           T == {Above(x) : x \in S}
<1>1. IsWellFoundedOn(StrictSubsetOrdering(0..n), SUBSET (0..n))
  <2>1. FiniteSubsetsOf(0..n) = SUBSET (0..n)
    <3>1. IsFiniteSet(0..n)
      BY FS_Interval
    <3> QED
      BY <3>1, FS_FiniteSubsetsOfFinite
  <2>2. IsWellFoundedOn(StrictSubsetOrdering(0..n), FiniteSubsetsOf(0..n))
    BY FS_StrictSubsetOrderingWellFounded
  <2> QED
    BY <2>1, <2>2
<1>2. T \subseteq SUBSET (0..n) /\ T # {}
  <2>1. \A x \in S : Above(x) \subseteq 0..n
    OBVIOUS
  <2> HIDE DEF Above
  <2> QED
    BY <2>1
<1>3. PICK A \in T : \A B \in T : <<B, A>> \notin StrictSubsetOrdering(0..n)
  BY <1>1, <1>2, WFMin
<1>4. PICK x \in S : A = Above(x)
  BY <1>3
<1>5. ASSUME NEW y \in S PROVE y <= x
  <2>1. Above(y) \in T /\ Above(y) \in SUBSET (0..n) /\ Above(x) \in SUBSET (0..n)
    BY <1>2
  <2>2. ~(Above(y) \subseteq Above(x) /\ Above(x) # Above(y))
    BY <1>3, <1>4, <2>1 DEF StrictSubsetOrdering
  <2>3. x < y => Above(y) \subseteq Above(x) /\ y \in Above(x) /\ y \notin Above(y)
    OBVIOUS
  <2> QED
    BY <2>2, <2>3
<1>6. \E z \in S : \A y \in S : y <= z
  BY <1>5
<1> QED
  BY <1>6 DEF Highest

LEMMA RiskLevel ==
  ASSUME level \in [Row -> Level], NEW s \in Server
  PROVE  Risk(s) \in Level
<1> DEFINE S == {level[f] : f \in {g \in Row : ServerOf[g] = s}} \cup {0}
<1>1. S \in SUBSET (0..MaxLevel) /\ S # {}
  BY BoundsAssumption DEF Level
<1> HIDE DEF S
<1>2. Highest(S) \in S
  BY <1>1, HighestIn, BoundsAssumption
<1>3. Highest(S) \in Level
  BY <1>1, <1>2 DEF Level
<1> QED
  BY <1>3 DEF Risk, S

\* A poll's cursor is the stamp of a row, ...
LEMMA PollCursor ==
  ASSUME NEW n \in Nat, \A f \in Row : stamp[f] \in 0..n,
         NEW i \in Ingestor, Fresh(i) # {}
  PROVE  Highest({stamp[f] : f \in Fresh(i)}) \in 0..n
<1> DEFINE S == {stamp[f] : f \in Fresh(i)}
<1>1. S \in SUBSET (0..n) /\ S # {}
  BY DEF Fresh
<1> HIDE DEF S
<1>2. Highest(S) \in S
  BY <1>1, HighestIn
<1> QED
  BY <1>1, <1>2 DEF S

-----------------------------------------------------------------------------
\* The type of what AlertInv does not speak of.
DataOK ==
  /\ now \in Time
  /\ level \in [Row -> Level] /\ stamp \in [Row -> Time]
  /\ began \in [LongWriter -> 0..(MaxNow + 1)]
  /\ score \in [Server -> Level] /\ wrote \in [Server -> Level]
  /\ agg \in [Proc -> Level]
  /\ cursor \in [Ingestor -> Time] /\ last \in [Ingestor -> Time]
  /\ fails \in 0..MaxFails /\ lostCommits \in 0..MaxLostCommits

LEMMA DataInit == Init => DataOK
BY BoundsAssumption DEF Init, DataOK, Time, Level

LEMMA DataRelease ==
  ASSUME DataOK, NEW p \in Proc, Release(p), UNCHANGED writers,
         score' \in [Server -> Level], last' \in [Ingestor -> Time],
         fails' \in 0..MaxFails, lostCommits' \in 0..MaxLostCommits
  PROVE  DataOK'
<1>1. 0 \in Level /\ 0 \in Time
  BY BoundsAssumption DEF Level, Time
<1>2. wrote' \in [Server -> Level]
  BY <1>1 DEF DataOK, Release
<1>3. agg' \in [Proc -> Level]
  BY <1>1 DEF DataOK, Release
<1>4. cursor' \in [Ingestor -> Time]
  BY <1>1 DEF DataOK, Release
<1> QED
  BY <1>2, <1>3, <1>4 DEF DataOK, writers

LEMMA DataNext ==
  ASSUME DataOK, AlertInv, [Next]_vars
  PROVE  DataOK'
<1>0. 0 \in Level /\ 0 \in Time
  BY BoundsAssumption DEF Level, Time
<1>1. ASSUME NEW F \in SUBSET Row, NEW l \in Level, Write(F, l) PROVE DataOK'
  <2>1. now' \in Time /\ now' = now + 1
    BY <1>1, BoundsAssumption DEF Write, DataOK, Time
  <2>2. level' \in [Row -> Level] /\ stamp' \in [Row -> Time]
    BY <1>1, <2>1 DEF Write, Put, DataOK
  <2> QED
    BY <1>1, <2>1, <2>2 DEF Write, DataOK, local, bounds
<1>2. ASSUME NEW w \in LongWriter, LongBegin(w) PROVE DataOK'
  <2>1. now' \in Time /\ now' = now + 1 /\ now + 1 \in 0..(MaxNow + 1)
    BY <1>2, BoundsAssumption DEF LongBegin, DataOK, Time
  <2>2. began' \in [LongWriter -> 0..(MaxNow + 1)]
    BY <1>2, <2>1 DEF LongBegin, DataOK
  <2> QED
    BY <1>2, <2>1, <2>2 DEF LongBegin, DataOK, local, bounds
<1>3. ASSUME NEW w \in LongWriter, NEW F \in SUBSET Row, NEW l \in Level, LongCommit(w, F, l)
      PROVE  DataOK'
  <2>1. began[w] \in Time /\ MaxNow + 1 \in 0..(MaxNow + 1)
    BY <1>3, BoundsAssumption DEF LongCommit, DataOK, Time
  <2>2. level' \in [Row -> Level] /\ stamp' \in [Row -> Time]
    BY <1>3, <2>1 DEF LongCommit, Put, DataOK
  <2>3. began' \in [LongWriter -> 0..(MaxNow + 1)]
    BY <1>3, <2>1 DEF LongCommit, DataOK
  <2> QED
    BY <1>3, <2>2, <2>3 DEF LongCommit, DataOK, local, bounds
<1>4. ASSUME NEW i \in Ingestor, Poll(i) PROVE DataOK'
  <2>1. Highest({stamp[f] : f \in Fresh(i)}) \in Time
    BY <1>4, PollCursor, BoundsAssumption DEF Poll, DataOK, Time
  <2>2. cursor' \in [Ingestor -> Time]
    BY <1>4, <2>1 DEF Poll, DataOK
  <2> QED
    BY <1>4, <2>2 DEF Poll, DataOK, writers, bounds
<1>5. ASSUME NEW p \in Proc, NEW s \in Server, Select(p, s) PROVE DataOK'
  <2>1. agg' \in [Proc -> Level]
    BY <1>5, RiskLevel DEF Select, DataOK
  <2> QED
    BY <1>5, <2>1 DEF Select, DataOK, writers, bounds
<1>6. ASSUME NEW p \in Proc, UpdateServer(p) PROVE DataOK'
  <2>1. wrote' \in [Server -> Level]
    BY <1>6 DEF UpdateServer, DataOK
  <2> QED
    BY <1>6, <2>1 DEF UpdateServer, DataOK, writers, bounds
<1>7. ASSUME NEW i \in Ingestor, SetCursor(i) PROVE DataOK'
  BY <1>7 DEF SetCursor, DataOK, writers, bounds
<1>8. ASSUME NEW p \in Proc, Commit(p) PROVE DataOK'
  <2>1. score' \in [Server -> Level]
    BY <1>8 DEF Commit, DataOK
  <2> QED
    BY <1>8, <2>1, DataRelease DEF Commit, bounds, DataOK
<1>9. ASSUME NEW p \in Proc, Fail(p) \/ CommitFails(p) \/ DeadlockAbort(p) PROVE DataOK'
  <2>1. fails' \in 0..MaxFails /\ lostCommits' \in 0..MaxLostCommits
    BY <1>9, BoundsAssumption DEF Fail, CommitFails, DeadlockAbort, DataOK, bounds
  <2>2. Rollback(p) /\ UNCHANGED last
    BY <1>9 DEF Fail, CommitFails, DeadlockAbort
  <2> QED
    BY <2>1, <2>2, DataRelease DEF Rollback, DataOK
<1>10. ASSUME NEW i \in Ingestor, Restart(i) PROVE DataOK'
  <2>1. fails' \in 0..MaxFails /\ lostCommits' \in 0..MaxLostCommits
    BY <1>10, BoundsAssumption DEF Restart, DataOK
  <2>2. Rollback(i) /\ last' \in [Ingestor -> Time]
    BY <1>0, <1>10 DEF Restart, DataOK
  <2> QED
    BY <2>1, <2>2, DataRelease DEF Rollback, DataOK, Proc
<1>11. ASSUME UNCHANGED <<writers, score, wrote, agg, cursor, last, bounds>> PROVE DataOK'
  BY <1>11 DEF DataOK, writers, bounds
<1>12. ASSUME AnalystNext PROVE DataOK'
  BY <1>11, <1>12 DEF AnalystNext, Resolve, DayPasses, local
<1>13. ASSUME NEW i \in Ingestor, IdlePoll(i) \/ CheckOpen(i) \/ CheckRecent(i) \/ Enqueue(i)
       PROVE  DataOK'
  BY <1>11, <1>13 DEF IdlePoll, CheckOpen, CheckRecent, Enqueue, vars, writers, bounds
<1>14. ASSUME NEW c \in Cli, NEW s \in Server, Aggregate(c, s) PROVE DataOK'
  BY <1>11, <1>14 DEF Aggregate
<1>15. ASSUME UNCHANGED vars PROVE DataOK'
  BY <1>11, <1>15 DEF vars, writers, bounds
<1> QED
  BY <1>1, <1>2, <1>3, <1>4, <1>5, <1>6, <1>7, <1>8, <1>9, <1>10, <1>12, <1>13, <1>14, <1>15
  DEF Next, WriterNext, ProcNext, IngestorStep, ProcStep, Proc

\* Every variable stays in its type.
THEOREM TypeCorrect == Spec => []TypeOK
<1>1. Init => DataOK
  BY DataInit
<1>2. DataOK /\ AlertInv /\ [Next]_vars => DataOK'
  BY DataNext
<1>3. DataOK /\ AlertInv => TypeOK
  BY DEF DataOK, AlertInv, ControlOK, TypeOK
<1> QED
  BY <1>1, <1>2, <1>3, AlertInvariant, PTL DEF Spec

-----------------------------------------------------------------------------
\* Scores are current once things are quiet, if nothing but ingestors writes
\* them, transactions that write findings are short and no commit fails.
OnlyIngestors == Ingestor # {} /\ Cli = {} /\ LongWriter = {} /\ MaxLostCommits = 0

Base == DataOK /\ AlertInv /\ SettleInv

LEMMA BaseFacts ==
  ASSUME Base, OnlyIngestors
  PROVE  /\ Proc = Ingestor /\ NoProc \notin Ingestor
         /\ now \in Nat /\ level \in [Row -> Level] /\ score \in [Server -> Level]
         /\ \A f \in Row : stamp[f] \in 0..now
         /\ cursor \in [Ingestor -> 0..now] /\ last \in [Ingestor -> 0..now]
         /\ lock \in [Server -> Ingestor \cup {NoProc}]
         /\ pc \in [Ingestor -> {"idle", "commit", "done"} \cup Busy]
         /\ todo \in [Ingestor -> SUBSET Server] /\ cur \in [Ingestor -> Server]
         /\ agg \in [Ingestor -> Level] /\ wrote \in [Server -> Level]
         /\ \A s \in Server, i \in Ingestor : lock[s] = i => pc[i] \notin {"idle", "done"}
<1>1. Proc = Ingestor /\ NoProc \notin Ingestor
  BY SetsAssumption DEF OnlyIngestors, Proc
<1>2. now \in Nat /\ \A f \in Row : stamp[f] \in 0..now
  BY BoundsAssumption DEF Base, DataOK, SettleInv, SeenPast, Time
<1>3. cursor \in [Ingestor -> 0..now] /\ last \in [Ingestor -> 0..now]
  <2>1. cursor \in [Ingestor -> Time] /\ last \in [Ingestor -> Time]
    BY DEF Base, DataOK
  <2>2. \A i \in Ingestor : cursor[i] \in 0..now /\ last[i] \in 0..now
    BY <1>2, <2>1, BoundsAssumption DEF Base, SettleInv, SeenPast, Time
  <2> QED
    BY <2>1, <2>2
<1>4. \A s \in Server, i \in Ingestor : lock[s] = i => pc[i] \notin {"idle", "done"}
  BY <1>1 DEF Base, AlertInv, LocksHeld
<1> QED
  BY <1>1, <1>2, <1>3, <1>4 DEF Base, DataOK, AlertInv, ControlOK

\* SettleInv in terms that do not depend on the state: the risk of a server at
\* given levels, and whether it has changed after t by given stamps.
RiskOf(lv, s) == Highest({lv[f] : f \in {g \in Row : ServerOf[g] = s}} \cup {0})
LaterOf(st, s, t) == \E f \in Row : ServerOf[f] = s /\ st[f] > t

Stale(s, i) ==
  /\ pc[i] = "update" /\ cur[i] = s =>
       agg[i] = RiskOf(level, s) \/ LaterOf(stamp, s, cursor[i])
  /\ lock[s] = i => wrote[s] = RiskOf(level, s) \/ LaterOf(stamp, s, cursor[i])
Taken(s, i) ==
  pc[i] \in Busy /\ LaterOf(stamp, s, last[i]) =>
    s \in todo[i] \/ lock[s] = i \/ LaterOf(stamp, s, cursor[i])
Pursuer(s, i) == LaterOf(stamp, s, last[i]) \/ (pc[i] = "commit" /\ lock[s] = i)
Followed(s) ==
  \/ score[s] = RiskOf(level, s)
  \/ LaterOf(stamp, s, 0) /\ \E i \in Ingestor : Pursuer(s, i)

SettleForm ==
  /\ SeenPast /\ CursorLast
  /\ \A s \in Server, i \in Ingestor : Stale(s, i) /\ Taken(s, i)
  /\ \A s \in Server : Followed(s)

LEMMA SettleIsForm == SettleInv => SettleForm
<1> SUFFICES ASSUME SettleInv PROVE SettleForm
  OBVIOUS
<1>1. \A s \in Server, i \in Ingestor : Stale(s, i)
  BY DEF SettleInv, StaleLater, Risk, Later, Stale, RiskOf, LaterOf
<1>2. \A s \in Server, i \in Ingestor : Taken(s, i)
  BY DEF SettleInv, SeenTaken, Later, Taken, LaterOf
<1>3. \A s \in Server : Followed(s)
  BY DEF SettleInv, Pursued, Risk, Later, Followed, Pursuer, RiskOf, LaterOf
<1> QED
  BY <1>1, <1>2, <1>3 DEF SettleForm, SettleInv

LEMMA SettleIsFormNext == SettleForm' => SettleInv'
<1> SUFFICES ASSUME SettleForm' PROVE SettleInv'
  OBVIOUS
<1>1. StaleLater'
  BY DEF StaleLater, Risk, Later, SettleForm, Stale, RiskOf, LaterOf
<1>2. SeenTaken'
  BY DEF SeenTaken, Later, SettleForm, Taken, LaterOf
<1>3. Pursued'
  BY DEF Pursued, Risk, Later, SettleForm, Followed, Pursuer, RiskOf, LaterOf
<1> QED
  BY <1>1, <1>2, <1>3 DEF SettleForm, SettleInv

\* A change of a server's findings is later than all cursors.
LEMMA SettleWrite ==
  ASSUME Base, OnlyIngestors, NEW F \in SUBSET Row, NEW l \in Level, OneServer(F), Write(F, l)
  PROVE  SettleInv'
<1>0. /\ now \in Nat /\ \A f \in Row : stamp[f] \in 0..now
      /\ \A i \in Ingestor : cursor[i] \in 0..now /\ last[i] \in 0..now
      /\ SettleForm
  BY BaseFacts, SettleIsForm DEF Base
<1>1. PICK g \in F : \A f \in F : ServerOf[f] = ServerOf[g]
  BY DEF OneServer
<1> DEFINE s0 == ServerOf[g]
<1>2. /\ now' = now + 1
      /\ \A f \in Row : level'[f] = IF f \in F THEN l ELSE level[f]
      /\ \A f \in Row : stamp'[f] = IF f \in F THEN now + 1 ELSE stamp[f]
      /\ UNCHANGED <<score, lock, wrote, pc, todo, cur, agg, cursor, last>>
  BY DEF Write, Put, local
<1>3. \A t \in 0..now : LaterOf(stamp', s0, t)
  BY <1>0, <1>1, <1>2 DEF LaterOf
<1>4. \A s \in Server : s # s0 => RiskOf(level', s) = RiskOf(level, s)
  <2> SUFFICES ASSUME NEW s \in Server, s # s0 PROVE RiskOf(level', s) = RiskOf(level, s)
    OBVIOUS
  <2>1. {level'[f] : f \in {h \in Row : ServerOf[h] = s}} = {level[f] : f \in {h \in Row : ServerOf[h] = s}}
    BY <1>1, <1>2
  <2> QED
    BY <2>1 DEF RiskOf
<1>5. \A s \in Server, t \in 0..now : s # s0 => (LaterOf(stamp', s, t) <=> LaterOf(stamp, s, t))
  BY <1>1, <1>2 DEF LaterOf
<1> HIDE DEF s0
<1>6. SeenPast' /\ CursorLast'
  BY <1>0, <1>2 DEF SettleForm, SeenPast, CursorLast
<1>7. \A s \in Server, i \in Ingestor : Stale(s, i)' /\ Taken(s, i)'
  BY <1>0, <1>2, <1>3, <1>4, <1>5 DEF SettleForm, Stale, Taken
<1>8. \A s \in Server : Followed(s)'
  <2>1. 0 \in 0..now /\ Ingestor # {}
    BY <1>0 DEF OnlyIngestors
  <2>2. ASSUME NEW s \in Server, s = s0 PROVE Followed(s)'
    BY <1>0, <1>2, <1>3, <2>1, <2>2 DEF Followed, Pursuer
  <2>3. ASSUME NEW s \in Server, s # s0 PROVE Followed(s)'
    BY <1>0, <1>2, <1>4, <1>5, <2>1, <2>3 DEF SettleForm, Followed, Pursuer
  <2> QED
    BY <2>2, <2>3 DEF Followed, Pursuer
<1> QED
  BY <1>6, <1>7, <1>8, SettleIsFormNext DEF SettleForm, Stale, Taken, Followed, Pursuer

\* Steps of the tick that write nothing.
LEMMA SettleMove ==
  ASSUME Base, OnlyIngestors, NEW p \in Ingestor,
         UNCHANGED <<now, level, stamp, score, lock, wrote, todo, cursor, last>>,
         \A i \in Ingestor : i # p => pc'[i] = pc[i] /\ cur'[i] = cur[i] /\ agg'[i] = agg[i],
         pc[p] \in Busy, pc'[p] \in Busy, pc'[p] = "cursor" => todo[p] = {},
         \A s \in Server : pc'[p] = "update" /\ cur'[p] = s => agg'[p] = Risk(s)
  PROVE  SettleInv'
<1>0. SettleForm /\ pc[p] # "commit" /\ pc'[p] # "commit"
  BY SettleIsForm DEF Base, Busy
<1>1. \A s \in Server : Risk(s) = RiskOf(level, s)
  BY DEF Risk, RiskOf
<1>2. SeenPast' /\ CursorLast'
  BY <1>0 DEF SettleForm, SeenPast, CursorLast
<1>3. \A s \in Server, i \in Ingestor : Stale(s, i)' /\ Taken(s, i)'
  BY <1>0, <1>1 DEF SettleForm, Stale, Taken
<1>4. \A s \in Server : Followed(s)'
  BY <1>0 DEF SettleForm, Followed, Pursuer
<1> QED
  BY <1>2, <1>3, <1>4, SettleIsFormNext DEF SettleForm, Stale, Taken, Followed, Pursuer

\* The servers of the changes seen are taken up.
LEMMA SettlePoll ==
  ASSUME Base, OnlyIngestors, NEW p \in Ingestor, Poll(p)
  PROVE  SettleInv'
<1>0. /\ SettleForm /\ pc[p] = "idle" /\ todo'[p] = Dirty(p) /\ pc'[p] = "select"
      /\ UNCHANGED <<now, level, stamp, score, lock, wrote, cur, agg, last>>
      /\ \A s \in Server : lock[s] # p
      /\ \A i \in Ingestor : i # p => pc'[i] = pc[i] /\ todo'[i] = todo[i] /\ cursor'[i] = cursor[i]
      /\ cursor'[p] = Highest({stamp[f] : f \in Fresh(p)}) /\ Fresh(p) # {}
  BY BaseFacts, SettleIsForm DEF Base, Poll, writers
<1>1. cursor'[p] \in 0..now
  BY <1>0, BaseFacts, PollCursor
<1>2. SeenPast' /\ CursorLast'
  BY <1>0, <1>1 DEF SettleForm, SeenPast, CursorLast
<1>3. \A s \in Server : LaterOf(stamp, s, last[p]) => s \in Dirty(p)
  BY DEF LaterOf, Dirty, Fresh
<1>4. \A s \in Server, i \in Ingestor : Stale(s, i)' /\ Taken(s, i)'
  BY <1>0, <1>3 DEF SettleForm, Stale, Taken
<1>5. \A s \in Server : Followed(s)'
  BY <1>0 DEF SettleForm, Followed, Pursuer
<1> QED
  BY <1>2, <1>4, <1>5, SettleIsFormNext DEF SettleForm, Stale, Taken, Followed, Pursuer

\* A level that was read before a change has a cursor before it, too.
LEMMA SettleUpdateServer ==
  ASSUME Base, OnlyIngestors, NEW p \in Ingestor, UpdateServer(p)
  PROVE  SettleInv'
<1>0. /\ SettleForm /\ pc[p] = "update" /\ cur[p] \in Server /\ lock[cur[p]] \in {NoProc, p}
      /\ UNCHANGED <<now, level, stamp, score, cur, agg, cursor, last>>
      /\ \A s \in Server : /\ lock'[s] = IF s = cur[p] THEN p ELSE lock[s]
                           /\ wrote'[s] = IF s = cur[p] THEN agg[p] ELSE wrote[s]
      /\ \A i \in Ingestor : i # p => pc'[i] = pc[i] /\ todo'[i] = todo[i]
      /\ todo'[p] = todo[p] \ {cur[p]}
      /\ NoProc \notin Ingestor
  BY BaseFacts, SettleIsForm DEF Base, UpdateServer, writers
<1>1. /\ pc'[p] \in Busy \ {"update"} /\ pc'[p] # "commit" /\ (pc'[p] = "cursor" => todo'[p] = {})
      /\ pc[p] \in Busy
  BY BaseFacts DEF UpdateServer, AfterServer, Busy
<1>2. SeenPast' /\ CursorLast'
  BY <1>0, <1>1 DEF SettleForm, SeenPast, CursorLast
<1>3. \A s \in Server, i \in Ingestor : Stale(s, i)' /\ Taken(s, i)'
  BY <1>0, <1>1 DEF SettleForm, Stale, Taken
<1>4. \A s \in Server : Followed(s)'
  <2>1. \A s \in Server, i \in Ingestor : Pursuer(s, i) => Pursuer(s, i)'
    BY <1>0 DEF Pursuer
  <2> QED
    BY <1>0, <2>1 DEF SettleForm, Followed, Pursuer
<1> QED
  BY <1>2, <1>3, <1>4, SettleIsFormNext DEF SettleForm, Stale, Taken, Followed, Pursuer

\* What the cursor passes over has been written.
LEMMA SettleSetCursor ==
  ASSUME Base, OnlyIngestors, NEW p \in Ingestor, SetCursor(p)
  PROVE  SettleInv'
<1>0. /\ SettleForm /\ pc[p] = "cursor" /\ pc'[p] = "commit" /\ last'[p] = cursor[p]
      /\ UNCHANGED <<now, level, stamp, score, lock, wrote, todo, cur, agg, cursor>>
      /\ \A i \in Ingestor : i # p => pc'[i] = pc[i] /\ last'[i] = last[i]
  BY BaseFacts, SettleIsForm DEF Base, SetCursor, writers
<1>2. SeenPast' /\ CursorLast'
  BY <1>0 DEF SettleForm, SeenPast, CursorLast
<1>3. \A s \in Server, i \in Ingestor : Stale(s, i)' /\ Taken(s, i)'
  BY <1>0 DEF SettleForm, Stale, Taken, Busy
<1>4. \A s \in Server : LaterOf(stamp, s, last[p]) => lock[s] = p \/ LaterOf(stamp, s, cursor[p])
  BY <1>0 DEF SettleForm, Taken, CursorLast, Busy
<1>5. \A s \in Server : Followed(s)'
  <2>1. \A s \in Server, i \in Ingestor : Pursuer(s, i) => Pursuer(s, i)'
    BY <1>0, <1>4 DEF Pursuer
  <2> QED
    BY <1>0, <2>1 DEF SettleForm, Followed, Pursuer
<1> QED
  BY <1>2, <1>3, <1>5, SettleIsFormNext DEF SettleForm, Stale, Taken, Followed, Pursuer

\* The end of a tick, whether it has committed, with the scores that it wrote,
\* or not.
Ends(p) ==
  /\ Release(p) /\ UNCHANGED <<now, level, stamp, cur>>
  /\ \A i \in Ingestor : i # p => last'[i] = last[i]
  /\ last'[p] \in 0..now
  /\ \A s \in Server : \/ score'[s] = RiskOf(level, s)
                       \/ LaterOf(stamp, s, 0) /\ LaterOf(stamp, s, last'[p])
                       \/ /\ score'[s] = score[s]
                          /\ lock[s] = p => pc[p] # "commit"
                          /\ last'[p] = last[p]

LEMMA SettleRelease ==
  ASSUME Base, OnlyIngestors, NEW p \in Ingestor, Ends(p)
  PROVE  SettleInv'
<1>e. /\ Release(p) /\ UNCHANGED <<now, level, stamp, cur>>
      /\ \A i \in Ingestor : i # p => last'[i] = last[i]
      /\ last'[p] \in 0..now
  BY DEF Ends
<1>0. /\ SettleForm /\ pc'[p] = "idle" /\ cursor'[p] = 0 /\ NoProc \notin Ingestor
      /\ \A s \in Server : /\ lock'[s] = IF lock[s] = p THEN NoProc ELSE lock[s]
                           /\ lock[s] # p => wrote'[s] = wrote[s]
      /\ \A i \in Ingestor : i # p => /\ pc'[i] = pc[i] /\ todo'[i] = todo[i]
                                     /\ cursor'[i] = cursor[i] /\ agg'[i] = agg[i]
  BY <1>e, BaseFacts, SettleIsForm DEF Base, Release, OnlyIngestors
<1>1. now \in Nat
  BY BaseFacts
<1>2. SeenPast' /\ CursorLast'
  BY <1>e, <1>0, <1>1 DEF SettleForm, SeenPast, CursorLast
<1>3. \A s \in Server, i \in Ingestor : Stale(s, i)' /\ Taken(s, i)'
  BY <1>e, <1>0 DEF SettleForm, Stale, Taken, Busy
<1>4. ASSUME NEW s \in Server PROVE Followed(s)'
  <2>1. CASE score'[s] = RiskOf(level, s)
    BY <1>e, <2>1 DEF Followed
  <2>2. CASE LaterOf(stamp, s, 0) /\ LaterOf(stamp, s, last'[p])
    BY <1>e, <2>2 DEF Followed, Pursuer
  <2>3. CASE /\ score'[s] = score[s]
             /\ lock[s] = p => pc[p] # "commit"
             /\ last'[p] = last[p]
    <3>1. \A i \in Ingestor : Pursuer(s, i) => Pursuer(s, i)'
      BY <1>e, <1>0, <2>3 DEF Pursuer
    <3> QED
      BY <1>e, <1>0, <2>3, <3>1 DEF SettleForm, Followed, Pursuer
  <2> QED
    BY <2>1, <2>2, <2>3 DEF Ends
<1> QED
  BY <1>2, <1>3, <1>4, SettleIsFormNext DEF SettleForm, Stale, Taken, Followed, Pursuer

LEMMA SettleCommit ==
  ASSUME Base, OnlyIngestors, NEW p \in Ingestor, Commit(p)
  PROVE  SettleInv'
<1>0. /\ SettleForm /\ pc[p] = "commit" /\ Release(p) /\ UNCHANGED <<now, level, stamp, cur, last>>
      /\ \A s \in Server : score'[s] = IF lock[s] = p THEN wrote[s] ELSE score[s]
      /\ last[p] \in 0..now
  BY BaseFacts, SettleIsForm DEF Base, Commit, writers
<1>1. last[p] = cursor[p]
  BY <1>0 DEF SettleForm, CursorLast
<1>2. \A s \in Server : LaterOf(stamp, s, cursor[p]) => LaterOf(stamp, s, 0)
  BY <1>0, <1>1, BaseFacts DEF LaterOf
<1>3. \A s \in Server : lock[s] = p => wrote[s] = RiskOf(level, s) \/ LaterOf(stamp, s, cursor[p])
  BY <1>0 DEF SettleForm, Stale
<1>4. \A s \in Server : \/ score'[s] = RiskOf(level, s)
                        \/ LaterOf(stamp, s, 0) /\ LaterOf(stamp, s, last'[p])
                        \/ /\ score'[s] = score[s]
                           /\ lock[s] = p => pc[p] # "commit"
                           /\ last'[p] = last[p]
  BY <1>0, <1>1, <1>2, <1>3
<1>5. /\ \A i \in Ingestor : i # p => last'[i] = last[i]
      /\ last'[p] \in 0..now
      /\ UNCHANGED <<now, level, stamp, cur>> /\ Release(p)
  BY <1>0
<1> QED
  BY <1>4, <1>5, SettleRelease DEF Ends

LEMMA SettleRollback ==
  ASSUME Base, OnlyIngestors, NEW p \in Ingestor, Fail(p) \/ DeadlockAbort(p) \/ Restart(p)
  PROVE  SettleInv'
<1>0. /\ SettleForm /\ Release(p) /\ UNCHANGED <<now, level, stamp, score, cur>>
      /\ \A i \in Ingestor : i # p => last'[i] = last[i]
      /\ last'[p] = 0 \/ (last'[p] = last[p] /\ pc[p] # "commit")
      /\ last[p] \in 0..now /\ 0 \in 0..now
  <2>1. DeadlockAbort(p) => pc[p] = "update"
    BY DEF DeadlockAbort, Deadlocked, WaitsFor
  <2> QED
    BY <2>1, BaseFacts, SettleIsForm DEF Base, Fail, DeadlockAbort, Restart, Rollback, writers, Busy
<1>1. \A s \in Server : score[s] = RiskOf(level, s) \/ LaterOf(stamp, s, 0)
  BY <1>0 DEF SettleForm, Followed
<1>2. \A s \in Server : \/ score'[s] = RiskOf(level, s)
                        \/ LaterOf(stamp, s, 0) /\ LaterOf(stamp, s, last'[p])
                        \/ /\ score'[s] = score[s]
                           /\ lock[s] = p => pc[p] # "commit"
                           /\ last'[p] = last[p]
  BY <1>0, <1>1
<1>3. /\ \A i \in Ingestor : i # p => last'[i] = last[i]
      /\ last'[p] \in 0..now
      /\ UNCHANGED <<now, level, stamp, cur>> /\ Release(p)
  BY <1>0
<1> QED
  BY <1>2, <1>3, SettleRelease DEF Ends

LEMMA SettleNext ==
  ASSUME Base, OnlyIngestors, [Next]_vars
  PROVE  SettleInv'
<1>1. ASSUME NEW p \in Ingestor, NEW s \in Server, Select(p, s) PROVE SettleInv'
  BY <1>1, BaseFacts, SettleMove DEF Select, writers, Busy
<1>2. ASSUME NEW p \in Ingestor, CheckOpen(p) \/ CheckRecent(p) \/ Enqueue(p) PROVE SettleInv'
  <2>1. AfterServer(p, todo[p]) \in {"select", "cursor"} /\ (AfterServer(p, todo[p]) = "cursor" => todo[p] = {})
    BY DEF AfterServer
  <2>2. /\ UNCHANGED <<now, level, stamp, score, lock, wrote, todo, cur, agg, cursor, last>>
        /\ pc[p] \in Busy
        /\ \E to \in {"check_recent", "enqueue", AfterServer(p, todo[p])} : pc' = [pc EXCEPT ![p] = to]
    BY <1>2 DEF CheckOpen, CheckRecent, Enqueue, writers, Busy
  <2>3. /\ \A i \in Ingestor : i # p => pc'[i] = pc[i]
        /\ pc'[p] \in Busy \ {"update"} /\ (pc'[p] = "cursor" => todo[p] = {})
    BY <2>1, <2>2, BaseFacts DEF Busy
  <2> QED
    BY <2>2, <2>3, SettleMove
<1>3. ASSUME UNCHANGED <<writers, score, lock, wrote, local, last>> PROVE SettleInv'
  <2>1. SettleForm /\ UNCHANGED <<now, level, stamp, score, lock, wrote, pc, todo, cur, agg, cursor, last>>
    BY <1>3, SettleIsForm DEF Base, writers, local
  <2>2. SettleForm'
    BY <2>1 DEF SettleForm, SeenPast, CursorLast, Stale, Taken, Followed, Pursuer
  <2> QED
    BY <2>2, SettleIsFormNext
<1>4. ASSUME AnalystNext PROVE SettleInv'
  BY <1>3, <1>4 DEF AnalystNext, Resolve, DayPasses
<1>5. ASSUME UNCHANGED vars PROVE SettleInv'
  BY <1>3, <1>5 DEF vars, writers, local
<1>6. \A p \in Proc : ~CommitFails(p)
  BY DEF CommitFails, OnlyIngestors, Base, DataOK
<1> QED
  BY <1>1, <1>2, <1>4, <1>5, <1>6, BaseFacts, SettleWrite, SettlePoll, SettleUpdateServer,
     SettleSetCursor, SettleCommit, SettleRollback
  DEF Next, WriterNext, ProcNext, IngestorStep, ProcStep, IdlePoll, OnlyIngestors

LEMMA SettleInit == Init => SettleInv
<1> SUFFICES ASSUME Init PROVE SettleInv
  OBVIOUS
<1>1. \A s \in Server : Risk(s) = 0
  <2> TAKE s \in Server
  <2>1. {level[f] : f \in {g \in Row : ServerOf[g] = s}} \cup {0} = {0}
    BY DEF Init
  <2>2. Highest({0}) = 0
    BY DEF Highest
  <2> QED
    BY <2>1, <2>2 DEF Risk
<1>2. Pursued
  BY <1>1 DEF Init, Pursued
<1>3. SeenPast /\ CursorLast /\ SeenTaken
  BY DEF Init, SeenPast, CursorLast, SeenTaken, Busy, Proc
<1>4. StaleLater
  BY SetsAssumption DEF Init, StaleLater, Proc
<1> QED
  BY <1>2, <1>3, <1>4 DEF SettleInv

\* Once no writer and no tick is under way and no ingestor has anything to see,
\* every score is that of the findings - unless a command has aggregated beside
\* the ingestors, a writer's transaction has outlasted a poll, or a commit has
\* failed after the cursor moved, which are the cases the runs refute.
THEOREM ScoresSettle ==
  ASSUME Ingestor # {}, Cli = {}, LongWriter = {}, MaxLostCommits = 0
  PROVE  Spec => []SettledScoresCurrent
<1>0. OnlyIngestors
  BY DEF OnlyIngestors
<1>1. Init => DataOK /\ SettleInv
  BY DataInit, SettleInit
<1>2. DataOK /\ SettleInv /\ AlertInv /\ [Next]_vars => DataOK' /\ SettleInv'
  BY <1>0, DataNext, SettleNext DEF Base
<1>3. DataOK /\ SettleInv /\ AlertInv => SettledScoresCurrent
  <2> SUFFICES ASSUME DataOK, SettleInv, AlertInv, Quiet, NEW s \in Server
               PROVE  score[s] = Risk(s)
    BY DEF SettledScoresCurrent
  <2>1. \A i \in Ingestor : ~Later(s, last[i])
    BY DEF Quiet, Later, Fresh
  <2>2. \A i \in Ingestor : pc[i] # "commit"
    BY DEF Quiet, Proc
  <2> QED
    BY <2>1, <2>2 DEF SettleInv, Pursued
<1> QED
  BY <1>1, <1>2, <1>3, AlertInvariant, PTL DEF Spec
=============================================================================

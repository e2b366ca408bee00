---------------------------- MODULE RiskPipeline ----------------------------
(***************************************************************************)
(* The polling ingestors, the aggregate command and the triage queue       *)
(* (risk_scoring/), beside the transactions that write findings.           *)
(*                                                                         *)
(* A tick of an ingestor is one transaction: it polls findings.updated_at  *)
(* past its cursor, and for each dirty server reads the active findings,   *)
(* updates the servers row - whose lock it then holds to the end - and     *)
(* routes the result to triage_queue.  `mta-risk aggregate` does the same  *)
(* for one server, without routing.  Statements are READ COMMITTED: each   *)
(* sees what is committed when it runs.                                    *)
(*                                                                         *)
(* updated_at is now() of the transaction that writes the row, which in    *)
(* PostgreSQL is the time the transaction started.  The clock ticks with   *)
(* each writing transaction that starts, so stamps are distinct.           *)
(*                                                                         *)
(* What a finding contributes is its level: 0 while it is not active.      *)
(* Module Scoring has the scores and priorities themselves.                *)
(***************************************************************************)
EXTENDS Naturals, FiniteSets

CONSTANTS
  Server,
  Row,          \* rows of findings
  ServerOf,     \* the server of each row
  MaxLevel,     \* levels are 0..MaxLevel; a server's is its highest
  AlertFrom,    \* levels from here on are P0 or P1 and go to triage
  Ingestor,     \* processes running `mta-risk ingest`
  Cli,          \* runs of `mta-risk aggregate`
  LongWriter,   \* scans whose transaction stays open while they work
  NoProc,
  MaxNow,       \* bound: transactions that write findings
  MaxFails,     \* bound: failed ticks and restarts
  MaxLostCommits \* bound: commits that fail

ASSUME ServerAssumption == Server # {}
ASSUME SetsAssumption ==
  /\ NoProc \notin Ingestor \cup Cli
  /\ Ingestor \cap Cli = {}
  /\ ServerOf \in [Row -> Server]
ASSUME BoundsAssumption ==
  /\ MaxLevel \in Nat
  /\ AlertFrom \in 1..MaxLevel
  /\ MaxNow \in Nat
  /\ MaxFails \in Nat
  /\ MaxLostCommits \in Nat

VARIABLES
  now,       \* the clock
  level,     \* committed level of each finding row
  stamp,     \* its updated_at; 0 before the row exists
  began,     \* began[w]: when long writer w started; 0 before, MaxNow + 1 after
  score,     \* servers.risk_score, committed
  lock,      \* lock[s]: the process holding the lock of servers row s
  wrote,     \* the holder's uncommitted risk_score
  open,      \* open[s][l]: committed triage rows pending or in review
  recent,    \* recent[s][l]: some row was resolved within 24 hours
  pend,      \* uncommitted triage rows, with their process
  pc, todo, cur, agg,   \* of each process: servers left, the current one, its level
  cursor,    \* new_cursor of the running tick
  last,      \* state.last_seen of each ingestor
  fails, lostCommits

bounds == <<fails, lostCommits>>
writers == <<now, level, stamp, began>>
triage == <<open, recent>>
local == <<pc, todo, cur, agg, cursor>>
vars == <<now, level, stamp, began, score, lock, wrote, open, recent, pend,
          pc, todo, cur, agg, cursor, last, fails, lostCommits>>

Proc == Ingestor \cup Cli
Level == 0..MaxLevel
Alert == AlertFrom..MaxLevel
Time == 0..MaxNow

Highest(S) == CHOOSE x \in S : \A y \in S : y <= x

\* The level the aggregator finds for s.
Risk(s) == Highest({level[f] : f \in {g \in Row : ServerOf[g] = s}} \cup {0})

Fresh(i) == {f \in Row : stamp[f] > last[i]}
Dirty(i) == {ServerOf[f] : f \in Fresh(i)}

Init ==
  /\ now = 0
  /\ level = [f \in Row |-> 0]
  /\ stamp = [f \in Row |-> 0]
  /\ began = [w \in LongWriter |-> 0]
  /\ score = [s \in Server |-> 0]
  /\ lock = [s \in Server |-> NoProc]
  /\ wrote = [s \in Server |-> 0]
  /\ open = [s \in Server |-> [l \in Alert |-> 0]]
  /\ recent = [s \in Server |-> [l \in Alert |-> FALSE]]
  /\ pend = {}
  /\ pc = [p \in Proc |-> "idle"]
  /\ todo = [p \in Proc |-> {}]
  /\ cur \in [Proc -> {CHOOSE s \in Server : TRUE}]
  /\ agg = [p \in Proc |-> 0]
  /\ cursor = [i \in Ingestor |-> 0]
  /\ last = [i \in Ingestor |-> 0]
  /\ fails = 0 /\ lostCommits = 0

-----------------------------------------------------------------------------
\* A short transaction - an API verdict, a static or remote scan's save - puts
\* the findings F of one server at a new level.
Put(F, l, t) ==
  /\ level' = [f \in Row |-> IF f \in F THEN l ELSE level[f]]
  /\ stamp' = [f \in Row |-> IF f \in F THEN t ELSE stamp[f]]

OneServer(F) == F # {} /\ \A f, g \in F : ServerOf[f] = ServerOf[g]

Write(F, l) ==
  /\ now < MaxNow
  /\ now' = now + 1
  /\ Put(F, l, now + 1)
  /\ UNCHANGED <<began, score, lock, wrote, triage, pend, local, last, bounds>>

\* A semantic scan opens its transaction, talks to the model, and commits.
LongBegin(w) ==
  /\ began[w] = 0
  /\ now < MaxNow
  /\ now' = now + 1
  /\ began' = [began EXCEPT ![w] = now + 1]
  /\ UNCHANGED <<level, stamp, score, lock, wrote, triage, pend, local, last, bounds>>

LongCommit(w, F, l) ==
  /\ began[w] \in 1..MaxNow
  /\ Put(F, l, began[w])
  /\ began' = [began EXCEPT ![w] = MaxNow + 1]
  /\ UNCHANGED <<now, score, lock, wrote, triage, pend, local, last, bounds>>

-----------------------------------------------------------------------------
\* tick: a poll that finds nothing changes nothing.
IdlePoll(i) ==
  /\ pc[i] = "idle"
  /\ Fresh(i) = {}
  /\ UNCHANGED vars

Poll(i) ==
  /\ pc[i] = "idle"
  /\ Fresh(i) # {}
  /\ todo' = [todo EXCEPT ![i] = Dirty(i)]
  /\ cursor' = [cursor EXCEPT ![i] = Highest({stamp[f] : f \in Fresh(i)})]
  /\ pc' = [pc EXCEPT ![i] = "select"]
  /\ UNCHANGED <<writers, score, lock, wrote, triage, pend, cur, agg, last, bounds>>

\* `mta-risk aggregate s`
Aggregate(c, s) ==
  /\ pc[c] = "idle"
  /\ todo' = [todo EXCEPT ![c] = {s}]
  /\ pc' = [pc EXCEPT ![c] = "select"]
  /\ UNCHANGED <<writers, score, lock, wrote, triage, pend, cur, agg, cursor, last, bounds>>

\* aggregate: the findings are read, ...
Select(p, s) ==
  /\ pc[p] = "select"
  /\ s \in todo[p]
  /\ cur' = [cur EXCEPT ![p] = s]
  /\ agg' = [agg EXCEPT ![p] = Risk(s)]
  /\ pc' = [pc EXCEPT ![p] = "update"]
  /\ UNCHANGED <<writers, score, lock, wrote, triage, pend, todo, cursor, last, bounds>>

\* ... and the result written, once the servers row is free.
AfterServer(p, left) ==
  CASE left # {} -> "select"
    [] left = {} /\ p \in Ingestor -> "cursor"
    [] OTHER -> "commit"

\* Faulty: write only the history, and leave the servers row alone.
UpdateHistoryOnly(p) ==
  /\ pc[p] = "update"
  /\ lock[cur[p]] \in {NoProc, p}
  /\ todo' = [todo EXCEPT ![p] = @ \ {cur[p]}]
  /\ pc' = [pc EXCEPT ![p] = IF p \in Ingestor /\ agg[p] \in Alert THEN "check_open"
                             ELSE AfterServer(p, todo[p] \ {cur[p]})]
  /\ UNCHANGED <<writers, score, lock, wrote, triage, pend, cur, agg, cursor, last, bounds>>

UpdateServer(p) ==
  /\ pc[p] = "update"
  /\ lock[cur[p]] \in {NoProc, p}
  /\ lock' = [lock EXCEPT ![cur[p]] = p]
  /\ wrote' = [wrote EXCEPT ![cur[p]] = agg[p]]
  /\ todo' = [todo EXCEPT ![p] = @ \ {cur[p]}]
  /\ pc' = [pc EXCEPT ![p] = IF p \in Ingestor /\ agg[p] \in Alert THEN "check_open"
                             ELSE AfterServer(p, todo[p] \ {cur[p]})]
  /\ UNCHANGED <<writers, score, triage, pend, cur, agg, cursor, last, bounds>>

\* route: _already_open, _recent_resolution and the INSERT are three statements.
AlreadyOpen(i) == open[cur[i]][agg[i]] > 0 \/ <<i, cur[i], agg[i]>> \in pend
\* Faulty: look for the resolution among the open rows.
ResolutionAmongOpen(i) == open[cur[i]][agg[i]] > 0 /\ recent[cur[i]][agg[i]]
RecentResolution(i) == recent[cur[i]][agg[i]]

CheckOpen(i) ==
  /\ pc[i] = "check_open"
  /\ pc' = [pc EXCEPT ![i] = IF AlreadyOpen(i) THEN AfterServer(i, todo[i]) ELSE "check_recent"]
  /\ UNCHANGED <<writers, score, lock, wrote, triage, pend, todo, cur, agg, cursor, last, bounds>>

CheckRecent(i) ==
  /\ pc[i] = "check_recent"
  /\ pc' = [pc EXCEPT ![i] = IF RecentResolution(i) THEN AfterServer(i, todo[i]) ELSE "enqueue"]
  /\ UNCHANGED <<writers, score, lock, wrote, triage, pend, todo, cur, agg, cursor, last, bounds>>

Enqueue(i) ==
  /\ pc[i] = "enqueue"
  /\ pend' = pend \cup {<<i, cur[i], agg[i]>>}
  /\ pc' = [pc EXCEPT ![i] = AfterServer(i, todo[i])]
  /\ UNCHANGED <<writers, score, lock, wrote, triage, todo, cur, agg, cursor, last, bounds>>

\* Faulty: the cursor is the time of the tick's end, ...
SetCursorToNow(i) ==
  /\ pc[i] = "cursor"
  /\ last' = [last EXCEPT ![i] = now]
  /\ pc' = [pc EXCEPT ![i] = "commit"]
  /\ UNCHANGED <<writers, score, lock, wrote, triage, pend, todo, cur, agg, cursor, bounds>>

\* ... or one past what was seen.
SetCursorBeyond(i) ==
  /\ pc[i] = "cursor"
  /\ last' = [last EXCEPT ![i] = cursor[i] + 1]
  /\ pc' = [pc EXCEPT ![i] = "commit"]
  /\ UNCHANGED <<writers, score, lock, wrote, triage, pend, todo, cur, agg, cursor, bounds>>

\* The cursor advances inside the session scope, the commit follows at its end.
SetCursor(i) ==
  /\ pc[i] = "cursor"
  /\ last' = [last EXCEPT ![i] = cursor[i]]
  /\ pc' = [pc EXCEPT ![i] = "commit"]
  /\ UNCHANGED <<writers, score, lock, wrote, triage, pend, todo, cur, agg, cursor, bounds>>

Release(p) ==
  /\ lock' = [s \in Server |-> IF lock[s] = p THEN NoProc ELSE lock[s]]
  /\ wrote' = [s \in Server |-> IF lock[s] = p THEN 0 ELSE wrote[s]]
  /\ pend' = {e \in pend : e[1] # p}
  /\ todo' = [todo EXCEPT ![p] = {}]
  /\ agg' = [agg EXCEPT ![p] = 0]
  /\ cursor' = [i \in Ingestor |-> IF i = p THEN 0 ELSE cursor[i]]
  /\ pc' = [pc EXCEPT ![p] = IF p \in Cli THEN "done" ELSE "idle"]

Commit(p) ==
  /\ pc[p] = "commit"
  /\ score' = [s \in Server |-> IF lock[s] = p THEN wrote[s] ELSE score[s]]
  /\ open' = [s \in Server |-> [l \in Alert |->
               IF <<p, s, l>> \in pend THEN open[s][l] + 1 ELSE open[s][l]]]
  /\ Release(p)
  /\ UNCHANGED <<writers, recent, cur, last, bounds>>

-----------------------------------------------------------------------------
\* An exception before the cursor moves: session_scope rolls the tick back and
\* run_forever logs it and goes on.
Rollback(p) == Release(p) /\ UNCHANGED <<writers, score, triage, cur>>

Busy == {"select", "update", "check_open", "check_recent", "enqueue", "cursor"}

\* Faulty: the cursor moves as soon as the poll has returned.
FailPastCursor(p) ==
  /\ pc[p] \in Busy
  /\ fails < MaxFails
  /\ fails' = fails + 1
  /\ Rollback(p)
  /\ last' = [i \in Ingestor |-> IF i = p THEN cursor[p] ELSE last[i]]
  /\ UNCHANGED lostCommits

Fail(p) ==
  /\ pc[p] \in Busy
  /\ fails < MaxFails
  /\ fails' = fails + 1
  /\ Rollback(p)
  /\ UNCHANGED <<last, lostCommits>>

\* COMMIT itself fails, and the cursor has moved.
CommitFails(p) ==
  /\ pc[p] = "commit"
  /\ lostCommits < MaxLostCommits
  /\ lostCommits' = lostCommits + 1
  /\ Rollback(p)
  /\ UNCHANGED <<last, fails>>

\* The ingestor's process dies and is started again, at the epoch.
Restart(i) ==
  /\ fails < MaxFails
  /\ fails' = fails + 1
  /\ Rollback(i)
  /\ last' = [last EXCEPT ![i] = 0]
  /\ UNCHANGED lostCommits

\* PostgreSQL breaks a circle of processes waiting for each other's servers rows.
WaitsFor(p) ==
  IF pc[p] = "update" THEN {lock[cur[p]]} \ {NoProc, p} ELSE {}

Deadlocked(p) ==
  \E S \in SUBSET Proc :
    /\ p \in S
    /\ \A q \in S : /\ WaitsFor(q) \cap S # {}
                    /\ \E r \in S : q \in WaitsFor(r)

DeadlockAbort(p) ==
  /\ Deadlocked(p)
  /\ Rollback(p)
  /\ UNCHANGED <<last, bounds>>

\* An analyst closes an open triage row; a day passes.
Resolve(s, l) ==
  /\ open[s][l] > 0
  /\ open' = [open EXCEPT ![s][l] = @ - 1]
  /\ recent' = [recent EXCEPT ![s][l] = TRUE]
  /\ UNCHANGED <<writers, score, lock, wrote, pend, local, last, bounds>>

DayPasses(s, l) ==
  /\ recent[s][l]
  /\ recent' = [recent EXCEPT ![s][l] = FALSE]
  /\ UNCHANGED <<writers, score, lock, wrote, open, pend, local, last, bounds>>

-----------------------------------------------------------------------------
WriterNext ==
  \/ \E F \in SUBSET Row, l \in Level : OneServer(F) /\ Write(F, l)
  \/ \E w \in LongWriter : LongBegin(w)
  \/ \E w \in LongWriter, F \in SUBSET Row, l \in Level : OneServer(F) /\ LongCommit(w, F, l)

ProcStep(p) ==
  \/ \E s \in Server : Select(p, s)
  \/ UpdateServer(p)
  \/ Commit(p)
  \/ DeadlockAbort(p)

IngestorStep(i) ==
  \/ Poll(i) \/ CheckOpen(i) \/ CheckRecent(i) \/ Enqueue(i) \/ SetCursor(i)
  \/ ProcStep(i)

ProcNext ==
  \/ \E i \in Ingestor : IngestorStep(i) \/ IdlePoll(i) \/ Restart(i)
  \/ \E c \in Cli : ProcStep(c) \/ \E s \in Server : Aggregate(c, s)
  \/ \E p \in Proc : Fail(p) \/ CommitFails(p)

AnalystNext == \E s \in Server, l \in Alert : Resolve(s, l) \/ DayPasses(s, l)

Next == WriterNext \/ ProcNext \/ AnalystNext

Spec == Init /\ [][Next]_vars

\* run_forever polls again and again; a tick runs to its end.  The victim of a
\* deadlock sleeps before its next tick, while a row that becomes free goes to
\* the process that waits for it: deadlocks do not keep all ticks from ending.
LastUpdate(i) == UpdateServer(i) /\ todo[i] = {cur[i]}

FairSpec ==
  /\ Spec
  /\ \A i \in Ingestor : WF_vars(IngestorStep(i))
  /\ SF_vars(\E i \in Ingestor : LastUpdate(i))

-----------------------------------------------------------------------------
TypeOK ==
  /\ now \in Time
  /\ level \in [Row -> Level] /\ stamp \in [Row -> Time]
  /\ began \in [LongWriter -> 0..(MaxNow + 1)]
  /\ score \in [Server -> Level] /\ wrote \in [Server -> Level]
  /\ lock \in [Server -> Proc \cup {NoProc}]
  /\ open \in [Server -> [Alert -> Nat]]
  /\ recent \in [Server -> [Alert -> BOOLEAN]]
  /\ pend \subseteq Ingestor \X Server \X Alert
  /\ pc \in [Proc -> {"idle", "commit", "done"} \cup Busy]
  /\ todo \in [Proc -> SUBSET Server]
  /\ cur \in [Proc -> Server]
  /\ agg \in [Proc -> Level]
  /\ cursor \in [Ingestor -> Time] /\ last \in [Ingestor -> Time]
  /\ fails \in 0..MaxFails /\ lostCommits \in 0..MaxLostCommits

\* Although triage_queue has no unique constraint and the check and the INSERT
\* are separate statements, no two ingestors open the same alert twice.
NoDuplicateAlert == \A s \in Server, l \in Alert : open[s][l] <= 1

\* An alert resolved in the last 24 hours is not raised again, even when the
\* analyst resolves it while a tick is deciding.
Debounced ==
  [][\A s \in Server, l \in Alert : open'[s][l] > open[s][l] => ~recent[s][l]]_vars

\* What makes these two inductive: a process decides about an alert and raises
\* it under the lock that UpdateServer took, and until it commits no row of the
\* alert is open that an analyst could resolve.
LocksHeld ==
  /\ \A s \in Server : lock[s] # NoProc => pc[lock[s]] \notin {"idle", "done"}
  /\ \A p \in Proc : pc[p] \in {"check_open", "check_recent", "enqueue"} =>
       /\ p \in Ingestor
       /\ lock[cur[p]] = p
       /\ agg[p] \in Alert
  /\ \A e \in pend : lock[e[2]] = e[1]

AlertsClear ==
  /\ \A p \in Proc : pc[p] \in {"check_recent", "enqueue"} =>
       /\ open[cur[p]][agg[p]] = 0
       /\ <<p, cur[p], agg[p]>> \notin pend
  /\ \A p \in Proc : pc[p] = "enqueue" => ~recent[cur[p]][agg[p]]
  /\ \A e \in pend : open[e[2]][e[3]] = 0 /\ ~recent[e[2]][e[3]]

ControlOK ==
  /\ lock \in [Server -> Proc \cup {NoProc}]
  /\ open \in [Server -> [Alert -> Nat]]
  /\ recent \in [Server -> [Alert -> BOOLEAN]]
  /\ pend \subseteq Ingestor \X Server \X Alert
  /\ pc \in [Proc -> {"idle", "commit", "done"} \cup Busy]
  /\ todo \in [Proc -> SUBSET Server]
  /\ cur \in [Proc -> Server]
  /\ agg = [p \in Proc |-> agg[p]]

AlertInv == ControlOK /\ LocksHeld /\ AlertsClear /\ NoDuplicateAlert

\* When nothing is being written or processed and every ingestor has seen every
\* change, each server's score is that of its findings.
Quiet ==
  /\ \A p \in Proc : pc[p] \in {"idle", "done"}
  /\ \A w \in LongWriter : began[w] \notin 1..MaxNow
  /\ \A i \in Ingestor : Fresh(i) = {}

SettledScoresCurrent == Quiet => \A s \in Server : score[s] = Risk(s)

\* What makes it inductive, as long as no command aggregates, no writer stays
\* open and no commit fails.  Cursors and stamps are of the past, and the cursor
\* moves when the tick's servers are done, ...
Later(s, t) == \E f \in Row : ServerOf[f] = s /\ stamp[f] > t

SeenPast ==
  /\ \A f \in Row : stamp[f] <= now
  /\ \A i \in Ingestor : cursor[i] <= now /\ last[i] <= now

CursorLast ==
  \A i \in Ingestor :
    /\ pc[i] = "cursor" => todo[i] = {}
    /\ pc[i] = "commit" => last[i] = cursor[i]

\* ... a level that is out of date when it is written was changed after the
\* poll, so that the tick's cursor does not pass over the change, ...
StaleLater ==
  /\ \A s \in Server, i \in Ingestor :
       pc[i] = "update" /\ cur[i] = s => agg[i] = Risk(s) \/ Later(s, cursor[i])
  /\ \A s \in Server, i \in Ingestor :
       lock[s] = i => wrote[s] = Risk(s) \/ Later(s, cursor[i])

\* ... a tick passes over no change that it does not write, ...
SeenTaken ==
  \A i \in Ingestor, s \in Server :
    pc[i] \in Busy /\ Later(s, last[i]) =>
      s \in todo[i] \/ lock[s] = i \/ Later(s, cursor[i])

\* ... and a score that is out of date is still to be seen by an ingestor, or
\* about to be committed by it.
Pursued ==
  \A s \in Server :
    \/ score[s] = Risk(s)
    \/ /\ Later(s, 0)
       /\ \E i \in Ingestor : Later(s, last[i]) \/ (pc[i] = "commit" /\ lock[s] = i)

SettleInv == SeenPast /\ CursorLast /\ StaleLater /\ SeenTaken /\ Pursued

\* A change is eventually scored.
EventuallyScored == \A s \in Server : <>[](score[s] = Risk(s))
=============================================================================

--------------------------- MODULE RemoteScanProofs ---------------------------
(***************************************************************************)
(* Theorems about RemoteScan, for any scans, tools and states of the       *)
(* server, and any number of its changes, of calls and of statements that  *)
(* fail.                                                                   *)
(***************************************************************************)
EXTENDS RemoteScan, SequenceTheorems, TLAPS

USE NamesAssumption, SiteAssumption, BoundsAssumption

Label == {"begin", "server"} \cup Probing \cup InTransaction \cup Ended
Probe == [cert : Cert \cup {NoCert}, selfSigned : BOOLEAN, ok : BOOLEAN,
          ver : Version \cup {NoVersion}, tools : SUBSET Tool]
Row == [tool : Tool, ref : Scan]
Writes == [rows : SUBSET Row, summary : BOOLEAN, keys : SUBSET Key]

-----------------------------------------------------------------------------
\* The detectors find keys of findings.
LEMMA DetectedKeys ==
  ASSUME NEW p \in Probe, p.ok => p.ver \in Version
  PROVE  Detected(p) \subseteq Key
<1>1. DetectTls(p) \subseteq Key
  BY DEF DetectTls, Key, Probe
<1>2. DetectAuthMissing(p) \subseteq Key
  BY DEF DetectAuthMissing, Key
<1>3. DetectProtocolVersion(p) \subseteq Key
  BY DEF DetectProtocolVersion, Key
<1> QED
  BY <1>1, <1>2, <1>3 DEF Detected

\* Of what a probe has listed only what has a name gets a row.
LEMMA RowsType ==
  ASSUME NEW s \in Scan, probe[s] \in Probe
  PROVE  RowsOf(s) \subseteq Row
BY DEF RowsOf, Synced, Probe, Row

LEMMA TypeFacts ==
  ASSUME TypeOK
  PROVE  /\ pc \in [Scan -> Label] /\ site \in Site /\ probe \in [Scan -> Probe]
         /\ mine \in [Scan -> Writes] /\ observations \in Seq(Scan)
         /\ toolRows \subseteq Row /\ summary \in Scan \cup {NoScan}
         /\ active \in [Key -> Scan \cup {NoScan}] /\ serverLock \in Scan \cup {NoScan}
         /\ changes \in 0..MaxChanges /\ netFails \in 0..MaxNetFails /\ dbFails \in 0..MaxDbFails
BY DEF TypeOK, Label, Probe, Writes, Row

LEMMA SiteFacts ==
  ASSUME TypeOK
  PROVE  site.cert \in Cert /\ site.ver \in Version /\ site.tools \in SUBSET Tool
BY DEF TypeOK

\* Steps of the probe: one of the calls returns or fails.
ProbeStep(s) ==
  \/ Begin(s)
  \/ TlsVerified(s) \/ TlsRefused(s) \/ TlsUnverified(s)
  \/ Initialized(s) \/ Notified(s) \/ Listed(s)
  \/ TlsFails(s) \/ TlsUnverifiedFails(s) \/ InitializeFails(s) \/ ListFails(s) \/ Malformed(s)

\* What a call of the probe adds to its result.
LEMMA ProbeUpdated ==
  ASSUME NEW p \in Probe, NEW c \in Cert, NEW v \in Version, NEW T \in SUBSET Tool
  PROVE  /\ [p EXCEPT !.cert = c, !.selfSigned = TRUE] \in Probe
         /\ [p EXCEPT !.ok = TRUE, !.ver = v] \in Probe
         /\ [p EXCEPT !.tools = T] \in Probe
<1>1. [p EXCEPT !.cert = c, !.selfSigned = TRUE] \in Probe
  BY DEF Probe
<1>2. [p EXCEPT !.ok = TRUE, !.ver = v] \in Probe
  BY DEF Probe
<1>3. [p EXCEPT !.tools = T] \in Probe
  BY DEF Probe
<1> QED
  BY <1>1, <1>2, <1>3

\* A probe is over once the transaction begins.
LEMMA ProbeStepFacts ==
  ASSUME IInv, NEW s \in Scan, ProbeStep(s)
  PROVE  /\ pc[s] \in {"begin"} \cup Probing
         /\ pc' \in [Scan -> Label] /\ pc'[s] \in Probing \cup {"server", "raised"}
         /\ probe' \in [Scan -> Probe]
         /\ probe'[s].ok => probe'[s].ver \in Version
         /\ \A u \in Scan : u # s => pc'[u] = pc[u] /\ probe'[u] = probe[u]
         /\ UNCHANGED <<site, mine, db, changes, dbFails>>
         /\ netFails' \in 0..MaxNetFails
<1>0. pc \in [Scan -> Label] /\ probe \in [Scan -> Probe] /\ netFails \in 0..MaxNetFails
  BY TypeFacts DEF IInv
<1>1. /\ pc[s] \in {"begin"} \cup Probing
      /\ \E l \in Probing \cup {"server", "raised"} : pc' = [pc EXCEPT ![s] = l]
      /\ UNCHANGED <<site, mine, db, changes, dbFails>>
  BY DEF ProbeStep, Begin, TlsVerified, TlsRefused, TlsUnverified, Initialized, Notified, Listed,
         TlsFails, TlsUnverifiedFails, InitializeFails, ListFails, Malformed, Goto, Probing, bounds
<1>2. /\ pc' \in [Scan -> Label] /\ pc'[s] \in Probing \cup {"server", "raised"}
      /\ \A u \in Scan : u # s => pc'[u] = pc[u]
  BY <1>0, <1>1 DEF Label, Ended
<1>3. netFails' \in 0..MaxNetFails
  BY <1>0 DEF ProbeStep, Begin, TlsVerified, TlsRefused, TlsUnverified, Initialized, Notified, Listed,
         TlsFails, TlsUnverifiedFails, InitializeFails, ListFails, Malformed, NetFailure, bounds
<1>4. /\ site.cert \in Cert /\ site.ver \in Version /\ site.tools \in SUBSET Tool
      /\ probe[s].ok => probe[s].ver \in Version
  BY SiteFacts DEF IInv, WritesDue
<1>5. /\ probe' \in [Scan -> Probe] /\ (probe'[s].ok => probe'[s].ver \in Version)
      /\ \A u \in Scan : u # s => probe'[u] = probe[u]
  <2>1. CASE TlsVerified(s)
    BY <1>0, <1>4, <2>1 DEF TlsVerified, Probe
  <2>2. CASE TlsUnverified(s)
    <3>1. PICK p \in Probe : p = [probe[s] EXCEPT !.cert = site.cert, !.selfSigned = TRUE]
      BY <1>0, <1>4, ProbeUpdated
    <3>2. p.ok = probe[s].ok /\ p.ver = probe[s].ver
      BY <1>0, <3>1 DEF Probe
    <3>3. probe' = [probe EXCEPT ![s] = p]
      BY <2>2, <3>1 DEF TlsUnverified
    <3> QED
      BY <1>0, <1>4, <3>2, <3>3
  <2>3. CASE Initialized(s)
    <3>1. PICK p \in Probe : p = [probe[s] EXCEPT !.ok = TRUE, !.ver = site.ver]
      BY <1>0, <1>4, ProbeUpdated
    <3>2. p.ver = site.ver
      BY <1>0, <3>1 DEF Probe
    <3>3. probe' = [probe EXCEPT ![s] = p]
      BY <2>3, <3>1 DEF Initialized
    <3> QED
      BY <1>0, <1>4, <3>2, <3>3
  <2>4. CASE Listed(s)
    <3>1. PICK p \in Probe : p = [probe[s] EXCEPT !.tools = site.tools]
      BY <1>0, <1>4, ProbeUpdated
    <3>2. p.ok = probe[s].ok /\ p.ver = probe[s].ver
      BY <1>0, <3>1 DEF Probe
    <3>3. probe' = [probe EXCEPT ![s] = p]
      BY <2>4, <3>1 DEF Listed
    <3> QED
      BY <1>0, <1>4, <3>2, <3>3
  <2>5. CASE UNCHANGED probe
    BY <1>0, <1>4, <2>5
  <2> QED
    BY <2>1, <2>2, <2>3, <2>4, <2>5
       DEF ProbeStep, Begin, TlsRefused, Notified, TlsFails, TlsUnverifiedFails, InitializeFails,
           ListFails, Malformed
<1> QED
  BY <1>1, <1>2, <1>3, <1>5

\* Steps of the transaction before it ends: what is written is the scan's own.
WriteStep(s) ==
  \/ EnsureServer(s) \/ InsertObservation(s) \/ SyncTools(s)
  \/ WriteRemoteSummary(s) \/ WriteFindings(s)

\* The writes a scan has made when it stands at a label.
Due(s) ==
  /\ pc[s] \notin {"summary", "findings", "commit"} => mine[s] = NoWrites
  /\ pc[s] \in {"summary", "findings", "commit"} => mine[s].rows = RowsOf(s)
  /\ pc[s] \in {"findings", "commit"} => mine[s].summary
  /\ pc[s] = "commit" => mine[s].keys = Detected(probe[s])

LEMMA WriteStepFacts ==
  ASSUME IInv, NEW s \in Scan, WriteStep(s)
  PROVE  /\ pc[s] \in {"server", "observe", "sync", "summary", "findings"}
         /\ pc' \in [Scan -> Label] /\ pc'[s] \in InTransaction
         /\ mine' \in [Scan -> Writes] /\ Due(s)'
         /\ \A u \in Scan : u # s => pc'[u] = pc[u] /\ mine'[u] = mine[u]
         /\ UNCHANGED <<site, probe, observations, toolRows, summary, active, bounds>>
         /\ serverLock' = s /\ (serverLock = s \/ (pc[s] = "server" /\ serverLock = NoScan))
<1>0. /\ pc \in [Scan -> Label] /\ probe \in [Scan -> Probe] /\ mine \in [Scan -> Writes]
      /\ pc[s] \in InTransaction => serverLock = s
  BY TypeFacts DEF IInv, LockHeld
<1>1. /\ pc[s] \in {"server", "observe", "sync", "summary", "findings"}
      /\ \E l \in InTransaction : pc' = [pc EXCEPT ![s] = l]
      /\ UNCHANGED <<site, probe, observations, toolRows, summary, active, bounds>>
      /\ serverLock' = s /\ (serverLock = s \/ (pc[s] = "server" /\ serverLock = NoScan))
  BY <1>0 DEF WriteStep, EnsureServer, InsertObservation, SyncTools, WriteRemoteSummary, WriteFindings,
         Goto, InTransaction, db
<1>2. /\ pc' \in [Scan -> Label] /\ pc'[s] \in InTransaction
      /\ \A u \in Scan : u # s => pc'[u] = pc[u]
  BY <1>0, <1>1 DEF Label
<1>3. Due(s)
  BY DEF IInv, WritesDue, Due
<1>4. probe[s] \in Probe /\ mine[s] \in Writes /\ Detected(probe[s]) \subseteq Key
  BY <1>0, DetectedKeys DEF IInv, WritesDue
<1>5. /\ mine' \in [Scan -> Writes] /\ Due(s)'
      /\ \A u \in Scan : u # s => mine'[u] = mine[u]
  <2>1. CASE EnsureServer(s)
    BY <1>0, <1>3, <2>1 DEF EnsureServer, Due, Goto
  <2>2. CASE InsertObservation(s)
    <3>1. /\ mine' = mine /\ probe' = probe
          /\ pc'[s] = IF probe[s].tools = {} THEN "summary" ELSE "sync"
          /\ mine[s] = NoWrites
      BY <1>0, <1>3, <2>2 DEF InsertObservation, Due, Goto
    <3>2. probe[s].tools = {} => RowsOf(s) = NoWrites.rows
      BY DEF NoWrites, RowsOf, Synced
    <3>3. RowsOf(s)' = RowsOf(s)
      BY <3>1 DEF RowsOf
    <3> QED
      BY <1>0, <3>1, <3>2, <3>3 DEF Due
  <2>3. CASE SyncTools(s)
    <3>1. RowsOf(s) \subseteq Row
      BY <1>4, RowsType
    <3>2. mine' = [mine EXCEPT ![s].rows = RowsOf(s)]
      BY <2>3 DEF SyncTools
    <3>3. mine' \in [Scan -> Writes] /\ \A u \in Scan : u # s => mine'[u] = mine[u]
      BY <1>0, <3>1, <3>2 DEF Writes
    <3>4. mine'[s].rows = RowsOf(s)
      BY <1>0, <3>2 DEF Writes
    <3>5. pc'[s] = "summary" /\ RowsOf(s)' = RowsOf(s)
      BY <1>0, <2>3 DEF SyncTools, Goto, RowsOf
    <3> QED
      BY <3>3, <3>4, <3>5 DEF Due
  <2>4. CASE WriteRemoteSummary(s)
    BY <1>0, <1>3, <2>4 DEF WriteRemoteSummary, Due, Goto, Writes, RowsOf
  <2>5. CASE WriteFindings(s)
    BY <1>0, <1>3, <1>4, <2>5 DEF WriteFindings, Due, Goto, Writes, RowsOf
  <2> QED
    BY <2>1, <2>2, <2>3, <2>4, <2>5 DEF WriteStep
<1> QED
  BY <1>1, <1>2, <1>5

\* A transaction that is rolled back leaves nothing.
LEMMA RollbackFacts ==
  ASSUME IInv, NEW s \in Scan, StatementFails(s) \/ Kill(s)
  PROVE  /\ pc[s] \notin Ended
         /\ pc' \in [Scan -> Label] /\ pc'[s] \in {"raised", "killed"}
         /\ mine' \in [Scan -> Writes] /\ mine'[s] = NoWrites
         /\ \A u \in Scan : u # s => pc'[u] = pc[u] /\ mine'[u] = mine[u]
         /\ serverLock' = IF serverLock = s THEN NoScan ELSE serverLock
         /\ UNCHANGED <<site, probe, observations, toolRows, summary, active, changes, netFails>>
         /\ dbFails' \in 0..MaxDbFails
<1>0. pc \in [Scan -> Label] /\ mine \in [Scan -> Writes] /\ dbFails \in 0..MaxDbFails
  BY TypeFacts DEF IInv
<1>1. /\ pc[s] \notin Ended /\ DbFailure
      /\ \E l \in {"raised", "killed"} : Rollback(s, l)
  BY DEF StatementFails, Kill, InTransaction, Ended
<1>2. NoWrites \in Writes
  BY DEF NoWrites, Writes
<1>3. dbFails' \in 0..MaxDbFails
  BY <1>0, <1>1 DEF DbFailure
<1> QED
  BY <1>0, <1>1, <1>2, <1>3 DEF Rollback, Goto, Label, Ended

LEMMA CommitFacts ==
  ASSUME IInv, NEW s \in Scan, Commit(s)
  PROVE  /\ pc[s] = "commit" /\ serverLock = s
         /\ pc' \in [Scan -> Label] /\ pc'[s] = "returned"
         /\ mine' \in [Scan -> Writes] /\ mine'[s] = NoWrites
         /\ \A u \in Scan : u # s => pc'[u] = pc[u] /\ mine'[u] = mine[u]
         /\ observations' = Append(observations, s)
         /\ toolRows' = toolRows \cup RowsOf(s) /\ RowsOf(s) \subseteq Row
         /\ summary' = s
         /\ active' \in [Key -> Scan \cup {NoScan}]
         /\ \A k \in Key : active'[k] = IF k \in Detected(probe[s]) THEN s ELSE active[k]
         /\ serverLock' = NoScan
         /\ UNCHANGED <<site, probe, bounds>>
<1>0. /\ pc \in [Scan -> Label] /\ mine \in [Scan -> Writes] /\ probe \in [Scan -> Probe]
      /\ active \in [Key -> Scan \cup {NoScan}]
  BY TypeFacts DEF IInv
<1>1. NoWrites \in Writes
  BY DEF NoWrites, Writes
<1>2. /\ pc[s] = "commit" /\ serverLock = s
      /\ mine[s].rows = RowsOf(s) /\ mine[s].summary /\ mine[s].keys = Detected(probe[s])
  BY DEF Commit, IInv, LockHeld, WritesDue, InTransaction
<1>3. RowsOf(s) \subseteq Row
  BY <1>0, RowsType
<1>4. /\ pc' \in [Scan -> Label] /\ pc'[s] = "returned"
      /\ mine' \in [Scan -> Writes] /\ mine'[s] = NoWrites
      /\ \A u \in Scan : u # s => pc'[u] = pc[u] /\ mine'[u] = mine[u]
  BY <1>0, <1>1 DEF Commit, Goto, Label, Ended
<1>5. /\ active' \in [Key -> Scan \cup {NoScan}]
      /\ \A k \in Key : active'[k] = IF k \in Detected(probe[s]) THEN s ELSE active[k]
  BY <1>0, <1>2 DEF Commit
<1> QED
  BY <1>2, <1>3, <1>4, <1>5 DEF Commit

-----------------------------------------------------------------------------
LEMMA Steps ==
  ASSUME [Next]_vars
  PROVE  \/ \E s \in Scan : ProbeStep(s) \/ WriteStep(s) \/ Commit(s) \/ StatementFails(s) \/ Kill(s)
         \/ Change \/ UNCHANGED vars
BY DEF Next, Step, Failure, AllEnded, ProbeStep, WriteStep

LEMMA ChangeFacts ==
  ASSUME IInv, Change
  PROVE  /\ UNCHANGED <<pc, probe, mine, db, netFails, dbFails>>
         /\ site' \in Site /\ changes' \in 0..MaxChanges
<1>1. changes \in 0..MaxChanges
  BY TypeFacts DEF IInv
<1> QED
  BY <1>1 DEF Change

LEMMA IInit == Init => IInv
<1> SUFFICES ASSUME Init PROVE IInv
  OBVIOUS
<1>1. observations = <<>> /\ observations \in Seq(Scan) /\ DOMAIN observations = {} /\ Committed = {}
  BY DEF Init, Committed
<1>2. NoProbe \in Probe /\ NoWrites \in Writes /\ NoProbe.ok = FALSE
  BY DEF NoProbe, NoWrites, Probe, Writes
<1>3. pc \in [Scan -> Label] /\ probe \in [Scan -> Probe] /\ mine \in [Scan -> Writes]
  BY <1>2 DEF Init, Label
<1>4. TypeOK
  BY <1>1, <1>3 DEF Init, TypeOK, Label, Probe, Writes, Row
<1>5. LockHeld /\ CommittedOver /\ NothingObservedLost
  BY <1>1 DEF Init, LockHeld, CommittedOver, NothingObservedLost, InTransaction
<1>6. WritesDue
  BY <1>2 DEF Init, WritesDue
<1>7. CitationsResolve
  BY DEF Init, CitationsResolve
<1> QED
  BY <1>4, <1>5, <1>6, <1>7 DEF IInv

LEMMA TypeNext ==
  ASSUME IInv, [Next]_vars
  PROVE  TypeOK'
<1> DEFINE Typed ==
      /\ pc \in [Scan -> Label] /\ site \in Site /\ probe \in [Scan -> Probe]
      /\ mine \in [Scan -> Writes] /\ observations \in Seq(Scan)
      /\ toolRows \subseteq Row /\ summary \in Scan \cup {NoScan}
      /\ active \in [Key -> Scan \cup {NoScan}] /\ serverLock \in Scan \cup {NoScan}
      /\ changes \in 0..MaxChanges /\ netFails \in 0..MaxNetFails /\ dbFails \in 0..MaxDbFails
<1>0. Typed
  BY TypeFacts DEF IInv
<1>1. ASSUME NEW s \in Scan, ProbeStep(s) PROVE Typed'
  BY <1>0, <1>1, ProbeStepFacts DEF db
<1>2. ASSUME NEW s \in Scan, WriteStep(s) PROVE Typed'
  BY <1>0, <1>2, WriteStepFacts DEF bounds
<1>3. ASSUME NEW s \in Scan, StatementFails(s) \/ Kill(s) PROVE Typed'
  BY <1>0, <1>3, RollbackFacts
<1>4. ASSUME NEW s \in Scan, Commit(s) PROVE Typed'
  <2>1. observations' \in Seq(Scan)
    <3>1. observations' = Append(observations, s)
      BY <1>4, CommitFacts
    <3> QED
      BY <1>0, <3>1, AppendProperties
  <2>2. toolRows' \subseteq Row
    BY <1>0, <1>4, CommitFacts
  <2> QED
    BY <1>0, <1>4, <2>1, <2>2, CommitFacts DEF bounds
<1>5. ASSUME Change PROVE Typed'
  BY <1>0, <1>5, ChangeFacts DEF db
<1>6. ASSUME UNCHANGED vars PROVE Typed'
  BY <1>0, <1>6 DEF vars, db, bounds
<1>7. Typed'
  <2> HIDE DEF Typed
  <2> QED
    BY <1>1, <1>2, <1>3, <1>4, <1>5, <1>6, Steps
<1> QED
  BY <1>7 DEF TypeOK, Label, Probe, Writes, Row

\* The row of the server passes from one transaction to the next.
LEMMA LockNext ==
  ASSUME IInv, [Next]_vars
  PROVE  LockHeld'
<1>0. LockHeld /\ NoScan \notin Scan
  BY DEF IInv
<1>1. ASSUME NEW s \in Scan, ProbeStep(s) PROVE LockHeld'
  BY <1>0, <1>1, ProbeStepFacts DEF LockHeld, db, Probing, InTransaction
<1>2. ASSUME NEW s \in Scan, WriteStep(s) PROVE LockHeld'
  BY <1>0, <1>2, WriteStepFacts DEF LockHeld
<1>3. ASSUME NEW s \in Scan, StatementFails(s) \/ Kill(s) PROVE LockHeld'
  BY <1>0, <1>3, RollbackFacts DEF LockHeld, InTransaction
<1>4. ASSUME NEW s \in Scan, Commit(s) PROVE LockHeld'
  BY <1>0, <1>4, CommitFacts DEF LockHeld, InTransaction
<1>5. ASSUME UNCHANGED <<pc, serverLock>> PROVE LockHeld'
  BY <1>0, <1>5 DEF LockHeld
<1> QED
  BY <1>1, <1>2, <1>3, <1>4, <1>5, Steps, ChangeFacts DEF vars, db

\* A scan's writes follow from its probe, which is over by then.
LEMMA WritesNext ==
  ASSUME IInv, [Next]_vars
  PROVE  WritesDue'
<1> DEFINE Whole(s) == probe[s].ok => probe[s].ver \in Version
<1>0. \A s \in Scan : Whole(s) /\ Due(s)
  BY DEF IInv, WritesDue, Due
<1>1. ASSUME NEW u \in Scan, UNCHANGED <<pc[u], probe[u], mine[u]>> PROVE (Whole(u) /\ Due(u))'
  BY <1>0, <1>1 DEF Due, RowsOf
<1>2. ASSUME NEW s \in Scan, ProbeStep(s), NEW u \in Scan PROVE (Whole(u) /\ Due(u))'
  <2>1. CASE u # s
    BY <1>1, <1>2, <2>1, ProbeStepFacts
  <2>2. CASE u = s
    <3>1. mine[s] = NoWrites
      BY <1>0, <1>2, ProbeStepFacts DEF Due, Probing
    <3> QED
      BY <1>2, <2>2, <3>1, ProbeStepFacts DEF Due, Probing
  <2> QED
    BY <2>1, <2>2
<1>3. ASSUME NEW s \in Scan, WriteStep(s), NEW u \in Scan PROVE (Whole(u) /\ Due(u))'
  BY <1>0, <1>1, <1>3, WriteStepFacts
<1>4. ASSUME NEW s \in Scan, StatementFails(s) \/ Kill(s) \/ Commit(s), NEW u \in Scan
      PROVE  (Whole(u) /\ Due(u))'
  <2>1. /\ probe' = probe /\ mine'[s] = NoWrites /\ pc'[s] \in Ended
        /\ \A v \in Scan : v # s => pc'[v] = pc[v] /\ mine'[v] = mine[v]
    BY <1>4, RollbackFacts, CommitFacts DEF Ended
  <2> QED
    BY <1>0, <1>1, <2>1 DEF Due, Ended
<1>5. ASSUME UNCHANGED <<pc, probe, mine>>, NEW u \in Scan PROVE (Whole(u) /\ Due(u))'
  BY <1>1, <1>5
<1>6. ASSUME NEW u \in Scan PROVE (Whole(u) /\ Due(u))'
  <2> HIDE DEF Whole
  <2> QED
    BY <1>2, <1>3, <1>4, <1>5, Steps, ChangeFacts DEF vars
<1> QED
  BY <1>6 DEF WritesDue, Due

-----------------------------------------------------------------------------
\* As long as the tables stay as they are, and the probes of the scans that
\* have committed, so does what the tables say of them.
LEMMA TablesKept ==
  ASSUME IInv, UNCHANGED <<observations, toolRows, summary, active>>,
         \A s \in Committed : pc'[s] = pc[s] /\ probe'[s] = probe[s]
  PROVE  CommittedOver' /\ CitationsResolve' /\ NothingObservedLost'
<1>0. CommittedOver /\ CitationsResolve /\ NothingObservedLost
  BY DEF IInv
<1>1. Committed' = Committed
  BY DEF Committed
<1>2. CommittedOver'
  BY <1>0, <1>1 DEF CommittedOver
<1>3. CitationsResolve'
  BY <1>0, <1>1 DEF CitationsResolve
<1>4. \A i \in DOMAIN observations : probe'[observations[i]] = probe[observations[i]]
  BY DEF Committed
<1>5. NothingObservedLost'
  BY <1>0, <1>4 DEF NothingObservedLost
<1> QED
  BY <1>2, <1>3, <1>5

LEMMA CommitKeeps ==
  ASSUME IInv, NEW s \in Scan, Commit(s)
  PROVE  CommittedOver' /\ CitationsResolve' /\ NothingObservedLost'
<1>0. /\ CommittedOver /\ CitationsResolve /\ NothingObservedLost
      /\ observations \in Seq(Scan) /\ toolRows \subseteq Row
  BY TypeFacts DEF IInv
<1>1. /\ pc'[s] = "returned" /\ pc[s] # "returned" /\ probe' = probe
      /\ \A u \in Scan : u # s => pc'[u] = pc[u]
      /\ observations' = Append(observations, s)
      /\ toolRows' = toolRows \cup RowsOf(s)
      /\ summary' = s
      /\ \A k \in Key : active'[k] = IF k \in Detected(probe[s]) THEN s ELSE active[k]
  BY CommitFacts
<1>2. /\ Len(observations') = Len(observations) + 1 /\ Len(observations) \in Nat
      /\ DOMAIN observations' = 1..(Len(observations) + 1)
      /\ DOMAIN observations = 1..Len(observations)
      /\ \A i \in 1..Len(observations) : observations'[i] = observations[i]
      /\ observations'[Len(observations) + 1] = s
  <2>1. observations' \in Seq(Scan)
    BY <1>0, <1>1, AppendProperties
  <2> QED
    BY <1>0, <1>1, <2>1, AppendProperties
<1>3. Committed' = Committed \cup {s} /\ Committed \subseteq Scan
  <2>1. \A i \in DOMAIN observations' :
          i = Len(observations) + 1 \/ (i \in DOMAIN observations /\ observations'[i] = observations[i])
    BY <1>2
  <2>2. Committed' \subseteq Committed \cup {s}
    BY <1>2, <2>1 DEF Committed
  <2>3. Committed \cup {s} \subseteq Committed'
    BY <1>2 DEF Committed
  <2>4. Committed \subseteq Scan
    BY <1>0, <1>2 DEF Committed
  <2> QED
    BY <2>2, <2>3, <2>4
<1>4. CommittedOver'
  BY <1>0, <1>1, <1>3 DEF CommittedOver
<1>5. CitationsResolve'
  <2>1. \A k \in Key : active'[k] # NoScan => active'[k] \in Committed' /\ k \in Detected(probe'[active'[k]])
    BY <1>0, <1>1, <1>3 DEF CitationsResolve
  <2>2. \A r \in toolRows' : r.ref \in Committed' /\ r.tool \in Synced(probe'[r.ref])
    <3>1. \A r \in RowsOf(s) : r.ref = s /\ r.tool \in Synced(probe[s])
      BY DEF RowsOf
    <3> QED
      BY <1>0, <1>1, <1>3, <3>1 DEF CitationsResolve
  <2> QED
    BY <2>1, <2>2 DEF CitationsResolve
<1>6. \A u \in Committed' : Detected(probe[u]) \subseteq Key
  <2>1. \A u \in Scan : probe[u] \in Probe /\ (probe[u].ok => probe[u].ver \in Version)
    BY TypeFacts DEF IInv, WritesDue
  <2> QED
    BY <1>3, <2>1, DetectedKeys
<1>7. ASSUME NEW i \in DOMAIN observations'
      PROVE  /\ \A t \in Synced(probe[observations'[i]]) : \E r \in toolRows' : r.tool = t
             /\ \A k \in Detected(probe[observations'[i]]) :
                  \E j \in i..Len(observations') : active'[k] = observations'[j]
             /\ i = Len(observations') => summary' = observations'[i]
  <2>1. CASE i = Len(observations) + 1
    <3>1. observations'[i] = s /\ i \in i..Len(observations')
      BY <1>2, <2>1
    <3>2. \A t \in Synced(probe[s]) : [tool |-> t, ref |-> s] \in toolRows'
      BY <1>1 DEF RowsOf
    <3>3. \A k \in Detected(probe[s]) : active'[k] = s
      BY <1>1, <1>3, <1>6
    <3>4. \A t \in Synced(probe[s]) : \E r \in toolRows' : r.tool = t
      <4> TAKE t \in Synced(probe[s])
      <4>1. [tool |-> t, ref |-> s] \in toolRows' /\ [tool |-> t, ref |-> s].tool = t
        BY <3>2
      <4> QED
        BY <4>1
    <3>5. \A k \in Detected(probe[s]) : \E j \in i..Len(observations') : active'[k] = observations'[j]
      BY <3>1, <3>3
    <3> QED
      BY <1>1, <3>1, <3>4, <3>5
  <2>2. CASE i # Len(observations) + 1
    <3>1. i \in DOMAIN observations /\ observations'[i] = observations[i] /\ i # Len(observations')
      BY <1>2, <2>2
    <3>2. \A t \in Synced(probe[observations[i]]) : \E r \in toolRows' : r.tool = t
      BY <1>0, <1>1, <3>1 DEF NothingObservedLost
    <3>3. ASSUME NEW k \in Detected(probe[observations[i]])
          PROVE  \E j \in i..Len(observations') : active'[k] = observations'[j]
      <4>1. PICK j \in i..Len(observations) : active[k] = observations[j]
        BY <1>0, <3>1 DEF NothingObservedLost
      <4>2. k \in Key
        BY <1>3, <1>6, <3>1 DEF Committed
      <4>3. j \in i..Len(observations') /\ observations'[j] = observations[j]
        BY <1>2, <3>1
      <4>4. Len(observations) + 1 \in i..Len(observations')
        BY <1>2, <3>1
      <4> QED
        BY <1>1, <1>2, <4>1, <4>2, <4>3, <4>4
    <3> QED
      BY <3>1, <3>2, <3>3
  <2> QED
    BY <2>1, <2>2
<1>8. NothingObservedLost'
  BY <1>1, <1>7 DEF NothingObservedLost
<1> QED
  BY <1>4, <1>5, <1>8

LEMMA TablesNext ==
  ASSUME IInv, [Next]_vars
  PROVE  CommittedOver' /\ CitationsResolve' /\ NothingObservedLost'
<1>0. \A u \in Committed : u \in Scan /\ pc[u] = "returned"
  BY TypeFacts DEF IInv, CommittedOver, Committed
<1>1. ASSUME NEW s \in Scan, ProbeStep(s)
      PROVE  CommittedOver' /\ CitationsResolve' /\ NothingObservedLost'
  <2>1. s \notin Committed
    BY <1>0, <1>1, ProbeStepFacts DEF Probing
  <2> QED
    BY <1>0, <1>1, <2>1, ProbeStepFacts, TablesKept DEF db
<1>2. ASSUME NEW s \in Scan, WriteStep(s)
      PROVE  CommittedOver' /\ CitationsResolve' /\ NothingObservedLost'
  <2>1. s \notin Committed
    BY <1>0, <1>2, WriteStepFacts
  <2> QED
    BY <1>0, <1>2, <2>1, WriteStepFacts, TablesKept
<1>3. ASSUME NEW s \in Scan, StatementFails(s) \/ Kill(s)
      PROVE  CommittedOver' /\ CitationsResolve' /\ NothingObservedLost'
  <2>1. s \notin Committed
    BY <1>0, <1>3, RollbackFacts DEF Ended
  <2> QED
    BY <1>0, <1>3, <2>1, RollbackFacts, TablesKept
<1>4. ASSUME UNCHANGED <<pc, probe, db>>
      PROVE  CommittedOver' /\ CitationsResolve' /\ NothingObservedLost'
  BY <1>4, TablesKept DEF db
<1> QED
  BY <1>1, <1>2, <1>3, <1>4, CommitKeeps, Steps, ChangeFacts DEF vars

LEMMA INext == IInv /\ [Next]_vars => IInv'
BY TypeNext, LockNext, WritesNext, TablesNext DEF IInv

-----------------------------------------------------------------------------
\* The scan in its transaction holds the server's row, and what it has written
\* is what its probe calls for.
THEOREM ScanInvariant == Spec => []IInv
<1>1. Init => IInv
  BY IInit
<1>2. IInv /\ [Next]_vars => IInv'
  BY INext
<1> QED
  BY <1>1, <1>2, PTL DEF Spec

\* Every variable stays in its type.
THEOREM TypeCorrect == Spec => []TypeOK
<1>1. IInv => TypeOK
  BY DEF IInv
<1> QED
  BY <1>1, ScanInvariant, PTL

\* One scan of a server at a time is between ensure_server, which locks the
\* server's row, and the commit (remote_analysis.persistence.ensure_server).
THEOREM OneTransaction ==
  Spec => [](\A s, u \in Scan : pc[s] \in InTransaction /\ pc[u] \in InTransaction => s = u)
<1>1. IInv => \A s, u \in Scan : pc[s] \in InTransaction /\ pc[u] \in InTransaction => s = u
  BY DEF IInv, LockHeld
<1> QED
  BY <1>1, ScanInvariant, PTL

\* The observation an active finding cites shows it, and the one a row of tools
\* names has listed the tool.
THEOREM CitationsHold == Spec => []CitationsResolve
<1>1. IInv => CitationsResolve
  BY DEF IInv
<1> QED
  BY <1>1, ScanInvariant, PTL

\* What a committed observation shows is in the tables, or gave way to a later
\* one (remote_analysis.orchestrator.scan).
THEOREM ObservedKept == Spec => []NothingObservedLost
<1>1. IInv => NothingObservedLost
  BY DEF IInv
<1> QED
  BY <1>1, ScanInvariant, PTL
=============================================================================

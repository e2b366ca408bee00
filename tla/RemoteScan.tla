------------------------------ MODULE RemoteScan ------------------------------
(***************************************************************************)
(* remote_analysis.orchestrator.scan: probe a live MCP server, run the     *)
(* snapshot detectors, persist everything in one transaction.              *)
(*                                                                         *)
(* Scans of one endpoint, started without credentials, overlap; the server *)
(* changes its certificate, protocol version and tools while it is probed. *)
(* A probe is a series of calls.  Most failures end as an answer of the    *)
(* probe (no certificate, ok = False, no tools), a malformed answer ends   *)
(* the scan.  The transaction starts with ensure_server, whose row lock    *)
(* puts the transactions of a server one after the other.                  *)
(*                                                                         *)
(* Findings has what upsert_findings does when nothing orders the scans.   *)
(***************************************************************************)
EXTENDS Naturals, Sequences, FiniteSets

CONSTANTS
  Scan,
  Tool,      \* a tool's name together with its description
  Name, NameOf, \* a tool may come without a name
  Cert, Trusted, Expiring,  \* certificates, those that verify, those with 30 days left or less
  Version, KnownVersions,
  Site,      \* what the server may look like: [cert, ver, tools]
  NoScan, NoName, NoCert, NoVersion,
  MaxChanges,  \* bound: changes of the server
  MaxNetFails, \* bound: calls that fail or are answered with nonsense
  MaxDbFails   \* bound: statements that fail, and processes that die

ASSUME NamesAssumption ==
  /\ NoScan \notin Scan /\ NoName \notin Name
  /\ NoCert \notin Cert /\ NoVersion \notin Version
ASSUME SiteAssumption ==
  /\ NameOf \in [Tool -> Name \cup {NoName}]
  /\ Trusted \subseteq Cert /\ Expiring \subseteq Cert /\ KnownVersions \subseteq Version
  /\ Site \subseteq [cert : Cert, ver : Version, tools : SUBSET Tool]
ASSUME BoundsAssumption == MaxChanges \in Nat /\ MaxNetFails \in Nat /\ MaxDbFails \in Nat

VARIABLES
  pc,
  site,         \* the server
  probe,        \* what each scan has learned: ProbeResult
  mine,         \* each scan's uncommitted writes
  observations, \* remote_observations by scan, in the order of their commits
  toolRows,     \* tools: which tool, and snapshot_ref
  summary,      \* static_summaries of version p1: who wrote it
  active,       \* active[k]: the observation the active finding of key k cites
  serverLock,   \* who holds the row of servers
  changes, netFails, dbFails

db == <<observations, toolRows, summary, active, serverLock>>
bounds == <<changes, netFails, dbFails>>
vars == <<pc, site, probe, mine, db, bounds>>

Probing == {"tls", "tls-unverified", "initialize", "notify", "tools"}
InTransaction == {"observe", "sync", "summary", "findings", "commit"}
Ended == {"returned", "raised", "killed"}

Key ==
  ({"tls-self-signed", "tls-near-expiry"} \X Cert)
    \cup ({"protocol-version-mismatch"} \X Version) \cup {<<"auth-missing", NoVersion>>}

NoProbe ==
  [cert |-> NoCert, selfSigned |-> FALSE, ok |-> FALSE, ver |-> NoVersion, tools |-> {}]
NoWrites == [rows |-> {}, summary |-> FALSE, keys |-> {}]

Init ==
  /\ pc = [s \in Scan |-> "begin"]
  /\ site \in Site
  /\ probe = [s \in Scan |-> NoProbe]
  /\ mine = [s \in Scan |-> NoWrites]
  /\ observations = <<>>
  /\ toolRows = {}
  /\ summary = NoScan
  /\ active = [k \in Key |-> NoScan]
  /\ serverLock = NoScan
  /\ changes = 0 /\ netFails = 0 /\ dbFails = 0

Goto(s, label) == pc' = [pc EXCEPT ![s] = label]
NetFailure == netFails < MaxNetFails /\ netFails' = netFails + 1
DbFailure == dbFails < MaxDbFails /\ dbFails' = dbFails + 1

-----------------------------------------------------------------------------
Begin(s) ==
  /\ pc[s] = "begin"
  /\ Goto(s, "tls")
  /\ UNCHANGED <<site, probe, mine, db, bounds>>

\* A first pass that fails, whatever the reason, is followed by a second one
\* that does not verify; what that one sees is taken as self-signed.
TlsVerified(s) ==
  /\ pc[s] = "tls"
  /\ site.cert \in Trusted
  /\ probe' = [probe EXCEPT ![s].cert = site.cert]
  /\ Goto(s, "initialize")
  /\ UNCHANGED <<site, mine, db, bounds>>

TlsRefused(s) ==
  /\ pc[s] = "tls"
  /\ site.cert \notin Trusted
  /\ Goto(s, "tls-unverified")
  /\ UNCHANGED <<site, probe, mine, db, bounds>>

TlsFails(s) ==
  /\ pc[s] = "tls"
  /\ NetFailure
  /\ Goto(s, "tls-unverified")
  /\ UNCHANGED <<site, probe, mine, db, changes, dbFails>>

TlsUnverified(s) ==
  /\ pc[s] = "tls-unverified"
  /\ probe' = [probe EXCEPT ![s].cert = site.cert, ![s].selfSigned = TRUE]
  /\ Goto(s, "initialize")
  /\ UNCHANGED <<site, mine, db, bounds>>

TlsUnverifiedFails(s) ==
  /\ pc[s] = "tls-unverified"
  /\ NetFailure
  /\ Goto(s, "initialize")
  /\ UNCHANGED <<site, probe, mine, db, changes, dbFails>>

Initialized(s) ==
  /\ pc[s] = "initialize"
  /\ probe' = [probe EXCEPT ![s].ok = TRUE, ![s].ver = site.ver]
  /\ Goto(s, "notify")
  /\ UNCHANGED <<site, mine, db, bounds>>

\* An error of HTTP, or an answer without a result.
InitializeFails(s) ==
  /\ pc[s] = "initialize"
  /\ NetFailure
  /\ Goto(s, "server")
  /\ UNCHANGED <<site, probe, mine, db, changes, dbFails>>

\* Whether the notification arrives makes no difference.
Notified(s) ==
  /\ pc[s] = "notify"
  /\ Goto(s, "tools")
  /\ UNCHANGED <<site, probe, mine, db, bounds>>

Listed(s) ==
  /\ pc[s] = "tools"
  /\ probe' = [probe EXCEPT ![s].tools = site.tools]
  /\ Goto(s, "server")
  /\ UNCHANGED <<site, mine, db, bounds>>

\* The probe keeps ok = True, and has no tools.
ListFails(s) ==
  /\ pc[s] = "tools"
  /\ NetFailure
  /\ Goto(s, "server")
  /\ UNCHANGED <<site, probe, mine, db, changes, dbFails>>

\* A result that is no object raises out of probe and out of scan.
Malformed(s) ==
  /\ pc[s] \in {"initialize", "tools"}
  /\ NetFailure
  /\ Goto(s, "raised")
  /\ UNCHANGED <<site, probe, mine, db, changes, dbFails>>

-----------------------------------------------------------------------------
\* The certificate of an unverified pass comes without its dates.
DetectTls(p) ==
  IF p.cert = NoCert THEN {}
  ELSE IF p.selfSigned THEN {<<"tls-self-signed", p.cert>>}
  ELSE {"tls-near-expiry"} \X ({p.cert} \cap Expiring)

DetectAuthMissing(p) ==
  IF p.ok /\ p.tools # {} THEN {<<"auth-missing", NoVersion>>} ELSE {}

\* Faulty: a probe that failed has reported no version either.
DetectVersionAlways(p) == {"protocol-version-mismatch"} \X ({p.ver} \ KnownVersions)

DetectProtocolVersion(p) ==
  IF p.ok THEN {"protocol-version-mismatch"} \X ({p.ver} \ KnownVersions) ELSE {}

Detected(p) == DetectTls(p) \cup DetectAuthMissing(p) \cup DetectProtocolVersion(p)

EnsureServer(s) ==
  /\ pc[s] = "server"
  /\ serverLock = NoScan
  /\ serverLock' = s
  /\ Goto(s, "observe")
  /\ UNCHANGED <<site, probe, mine, observations, toolRows, summary, active, bounds>>

InsertObservation(s) ==
  /\ pc[s] = "observe"
  /\ Goto(s, IF probe[s].tools = {} THEN "summary" ELSE "sync")
  /\ UNCHANGED <<site, probe, mine, db, bounds>>

\* The tools that get a row: those listed without a name are passed over.
Synced(p) == {t \in p.tools : NameOf[t] # NoName}

\* The rows of a scan's tools.
RowsOf(s) == {[tool |-> t, ref |-> s] : t \in Synced(probe[s])}

\* Faulty: keyed by (server_id, name), as the docstring has it.
SyncKeyed(s) ==
  /\ pc[s] = "sync"
  /\ mine' = [mine EXCEPT ![s].rows =
       {q \in RowsOf(s) : \A r \in toolRows : NameOf[r.tool] # NameOf[q.tool]}]
  /\ Goto(s, "summary")
  /\ UNCHANGED <<site, probe, db, bounds>>

\* tools has no unique constraint to conflict with: every tool gets a new row.
SyncTools(s) ==
  /\ pc[s] = "sync"
  /\ mine' = [mine EXCEPT ![s].rows = RowsOf(s)]
  /\ Goto(s, "summary")
  /\ UNCHANGED <<site, probe, db, bounds>>

WriteRemoteSummary(s) ==
  /\ pc[s] = "summary"
  /\ mine' = [mine EXCEPT ![s].summary = TRUE]
  /\ Goto(s, "findings")
  /\ UNCHANGED <<site, probe, db, bounds>>

\* Faulty: the findings are written by a session of their own.
WriteFindingsAutocommit(s) ==
  /\ pc[s] = "findings"
  /\ mine' = [mine EXCEPT ![s].keys = Detected(probe[s])]
  /\ active' = [k \in Key |-> IF k \in Detected(probe[s]) THEN s ELSE active[k]]
  /\ Goto(s, "commit")
  /\ UNCHANGED <<site, probe, observations, toolRows, summary, serverLock, bounds>>

\* Each finding supersedes the active one with its key and cites the observation.
WriteFindings(s) ==
  /\ pc[s] = "findings"
  /\ mine' = [mine EXCEPT ![s].keys = Detected(probe[s])]
  /\ Goto(s, "commit")
  /\ UNCHANGED <<site, probe, db, bounds>>

Commit(s) ==
  /\ pc[s] = "commit"
  /\ observations' = Append(observations, s)
  /\ toolRows' = toolRows \cup mine[s].rows
  /\ summary' = IF mine[s].summary THEN s ELSE summary
  /\ active' = [k \in Key |-> IF k \in mine[s].keys THEN s ELSE active[k]]
  /\ mine' = [mine EXCEPT ![s] = NoWrites]
  /\ serverLock' = NoScan
  /\ Goto(s, "returned")
  /\ UNCHANGED <<site, probe, bounds>>

\* Faulty: the connection goes back to the pool as it is.
RollbackForgotten(s, label) ==
  /\ mine' = [mine EXCEPT ![s] = NoWrites]
  /\ Goto(s, label)
  /\ UNCHANGED <<site, probe, db, changes, netFails>>

Rollback(s, label) ==
  /\ mine' = [mine EXCEPT ![s] = NoWrites]
  /\ serverLock' = IF serverLock = s THEN NoScan ELSE serverLock
  /\ Goto(s, label)
  /\ UNCHANGED <<site, probe, observations, toolRows, summary, active, changes, netFails>>

StatementFails(s) ==
  /\ pc[s] \in InTransaction \cup {"server"}
  /\ DbFailure
  /\ Rollback(s, "raised")

Kill(s) ==
  /\ pc[s] \notin Ended \cup {"begin"}
  /\ DbFailure
  /\ Rollback(s, "killed")

-----------------------------------------------------------------------------
Change ==
  /\ changes < MaxChanges
  /\ changes' = changes + 1
  /\ site' \in Site \ {site}
  /\ UNCHANGED <<pc, probe, mine, db, netFails, dbFails>>

Step(s) ==
  \/ TlsVerified(s) \/ TlsRefused(s) \/ TlsUnverified(s)
  \/ Initialized(s) \/ Notified(s) \/ Listed(s)
  \/ EnsureServer(s) \/ InsertObservation(s) \/ SyncTools(s)
  \/ WriteRemoteSummary(s) \/ WriteFindings(s) \/ Commit(s)

Failure(s) ==
  \/ TlsFails(s) \/ TlsUnverifiedFails(s) \/ InitializeFails(s) \/ ListFails(s) \/ Malformed(s)
  \/ StatementFails(s) \/ Kill(s)

AllEnded == (\A s \in Scan : pc[s] \in Ended) /\ UNCHANGED vars

Next ==
  \/ \E s \in Scan : Begin(s) \/ Step(s) \/ Failure(s)
  \/ Change
  \/ AllEnded

\* Fairness: every call of the probe is answered or times out, and a
\* transaction that can take its next statement takes it.
Spec == Init /\ [][Next]_vars /\ \A s \in Scan : WF_vars(Step(s))

-----------------------------------------------------------------------------
Committed == {observations[i] : i \in DOMAIN observations}

TypeOK ==
  /\ pc \in [Scan -> {"begin", "server"} \cup Probing \cup InTransaction \cup Ended]
  /\ site \in Site
  /\ probe \in [Scan -> [cert : Cert \cup {NoCert}, selfSigned : BOOLEAN, ok : BOOLEAN,
                         ver : Version \cup {NoVersion}, tools : SUBSET Tool]]
  /\ mine \in [Scan -> [rows : SUBSET [tool : Tool, ref : Scan], summary : BOOLEAN,
                        keys : SUBSET Key]]
  /\ observations \in Seq(Scan)
  /\ toolRows \subseteq [tool : Tool, ref : Scan]
  /\ summary \in Scan \cup {NoScan}
  /\ active \in [Key -> Scan \cup {NoScan}]
  /\ serverLock \in Scan \cup {NoScan}
  /\ changes \in 0..MaxChanges /\ netFails \in 0..MaxNetFails /\ dbFails \in 0..MaxDbFails

\* Whatever a reader of the tables follows leads to an observation that is
\* there and says what is claimed: the observation an active finding cites
\* shows it, the one a row of tools names has listed the tool.
CitationsResolve ==
  /\ \A k \in Key : active[k] # NoScan =>
       active[k] \in Committed /\ k \in Detected(probe[active[k]])
  /\ \A r \in toolRows : r.ref \in Committed /\ r.tool \in Synced(probe[r.ref])

\* Nothing a committed observation shows is lost: every description it has
\* listed under a name is a row of tools - also when the server has changed the description
\* of a tool it had listed before - and each of its findings is active, or gave
\* way to that of an observation committed later; and the stub summary that the
\* semantic layer loads is the last one's.
NothingObservedLost ==
  \A i \in DOMAIN observations :
    LET p == probe[observations[i]] IN
      /\ \A t \in Synced(p) : \E r \in toolRows : r.tool = t
      /\ \A k \in Detected(p) : \E j \in i..Len(observations) : active[k] = observations[j]
      /\ i = Len(observations) => summary = observations[i]

\* What makes these inductive: the scan that is in its transaction holds the
\* server's row, ...
LockHeld == \A s \in Scan : pc[s] \in InTransaction <=> serverLock = s

\* ... a probe that went through has a version, what a scan has written so far
\* is what its probe calls for, ...
WritesDue ==
  \A s \in Scan :
    /\ probe[s].ok => probe[s].ver \in Version
    /\ pc[s] \notin {"summary", "findings", "commit"} => mine[s] = NoWrites
    /\ pc[s] \in {"summary", "findings", "commit"} => mine[s].rows = RowsOf(s)
    /\ pc[s] \in {"findings", "commit"} => mine[s].summary
    /\ pc[s] = "commit" => mine[s].keys = Detected(probe[s])

\* ... and a scan that has committed is over, so that its probe stays what it is.
CommittedOver == \A s \in Committed : pc[s] = "returned"

IInv ==
  /\ TypeOK /\ LockHeld /\ WritesDue /\ CommittedOver
  /\ CitationsResolve /\ NothingObservedLost

\* Every scan comes to an end, whatever the server answers.
ScansEnd == \A s \in Scan : pc[s] # "begin" ~> pc[s] \in Ended
=============================================================================

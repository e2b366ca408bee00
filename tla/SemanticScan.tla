----------------------------- MODULE SemanticScan -----------------------------
(***************************************************************************)
(* SemanticAnalysisOrchestrator.run, as concurrent runs for some servers.  *)
(*                                                                         *)
(* A run is one session_scope.  On its one connection it loads the tools   *)
(* and links each to the handler of its name, lets the shadowing detector  *)
(* write each tool's embedding and search the other servers' tools,        *)
(* gathers the model's answers - a verdict on the description, one on its  *)
(* alignment with the code, and the capabilities, which are looked up in   *)
(* and stored to tool_capabilities -, saves the findings, links them to    *)
(* llm_calls and commits.  Most statements run inside a try that swallows  *)
(* what they raise; PostgreSQL has aborted the transaction by then: its    *)
(* locks are gone, its later statements fail, and its COMMIT is a ROLLBACK.*)
(*                                                                         *)
(* LLMClient has the calls themselves, Findings what saving findings does  *)
(* to the rows of other scans.                                             *)
(***************************************************************************)
EXTENDS Naturals, Sequences, FiniteSets, Functions

CONSTANTS
  Server,
  Scan,
  Tool,        \* rows of tools, of which a server may have several of a name
  Name,
  NameOf,
  ServerOf,    \* of a row and of a run
  Alike,       \* pairs of rows whose descriptions are as good as the same
  CapsOf,      \* what the model finds each tool capable of
  VerdictOf,   \* its verdict on each description of 30 characters or more
  ScoreOf,     \* its alignment_score, in tenths, for each declared tool
  Handled,     \* names of the handlers in the summary of each run's version
  NoScan, NoTool, NoName,
  MaxFails     \* bound: calls of a model that raise, statements that fail,
               \* processes that die

ASSUME NamesAssumption ==
  /\ NoScan \notin Scan /\ NoTool \notin Tool \cup Server /\ NoName \notin Name
  /\ IsFiniteSet(Tool)
  /\ NameOf \in [Tool -> Name] /\ ServerOf \in [Tool \cup Scan -> Server]

ToxicFlowPatterns == {
  [name |-> "untrusted-read-to-sensitive-write",
   sources |-> {"fetch_url", "read_email", "search_web"},
   sinks |-> {"send_email", "execute_shell", "write_file"}],
  [name |-> "sensitive-read-to-external-write",
   sources |-> {"read_file", "read_database", "read_secret"},
   sinks |-> {"http_post", "send_email", "fetch_url"}],
  [name |-> "untrusted-desc-triggers-sensitive",
   sources |-> {"fetch_url", "search_web"},
   sinks |-> {"execute_shell", "write_file", "send_email"}]}

CapabilityVocab == UNION {p.sources \cup p.sinks : p \in ToxicFlowPatterns}

ASSUME ModelAssumption ==
  /\ CapsOf \in [Tool -> SUBSET CapabilityVocab]
  /\ DOMAIN VerdictOf \subseteq Tool
  /\ DOMAIN ScoreOf \subseteq Tool /\ Range(ScoreOf) \subseteq Nat
  /\ Handled \in [Scan -> SUBSET Name]
ASSUME BoundsAssumption == MaxFails \in Nat

VARIABLES
  pc,
  tx,        \* "open", or "aborted" once a statement has failed
  todo,      \* tools still to be shadow-checked, in load_tools' order
  hits,      \* the shadowing detector's findings
  task,      \* task[s][t]: where ToxicFlowDetector._classify is
  caps,      \* caps[s][t]: what it returns
  verdict,   \* verdict[s][c]: what became of call c for a verdict
  conn,      \* the tool whose capability upsert is on the connection, or NoTool
  found,     \* the findings of each run
  saved,     \* its uncommitted rows of findings
  persisted, \* its committed rows of findings
  embedded,  \* rows of tools with an embedding, committed
  stored,    \* tool_capabilities, committed; {} where there is none
  wrote,     \* uncommitted
  toolLock,  \* who holds each row of tools
  capLock,   \* who holds each row of tool_capabilities
  fails

locks == <<toolLock, capLock, wrote>>
search == <<todo, hits>>
detect == <<task, caps, verdict, conn>>
tables == <<embedded, stored>>
vars == <<pc, tx, search, detect, found, saved, persisted, tables, locks, fails>>

Ended == {"returned", "raised", "killed"}
Own(s) == {t \in Tool : ServerOf[t] = ServerOf[s]}

\* Both detectors ask about each tool on its own; the second only if there is
\* code to compare a declaration with.
Call == ((DOMAIN VerdictOf) \X {"tpa-llm"}) \cup ((DOMAIN ScoreOf) \X {"schema-code-alignment"})
Calls(s) ==
  {c \in Call : c[1] \in Own(s) /\ (c[2] = "tpa-llm" \/ NameOf[c[1]] \in Handled[s])}
Outcome == {"pending", "reported", "nothing", "failed"}

\* Findings by what their evidence_key tells apart.
Finding ==
  [by : {"tpa-llm", "schema-code-alignment"}, name : Name, match : {NoTool}]
  \cup [by : {"name-collision"}, name : Name, match : Server]
  \cup [by : {"semantic-clone"}, name : Name, match : Tool]
  \cup [by : {p.name : p \in ToxicFlowPatterns}, name : {NoName}, match : {NoTool}]

\* SELECT without ORDER BY: the tools come in any order.
Orders(S) ==
  {o \in [1..Cardinality(S) -> S] : \A i, j \in DOMAIN o : o[i] = o[j] => i = j}

Init ==
  /\ pc = [s \in Scan |-> "begin"]
  /\ tx = [s \in Scan |-> "open"]
  /\ todo = [s \in Scan |-> <<>>]
  /\ hits = [s \in Scan |-> {}]
  /\ task = [s \in Scan |-> [t \in Tool |-> "lookup"]]
  /\ caps = [s \in Scan |-> [t \in Tool |-> {}]]
  /\ verdict = [s \in Scan |-> [c \in Call |-> "pending"]]
  /\ conn = [s \in Scan |-> NoTool]
  /\ found = [s \in Scan |-> {}]
  /\ saved = [s \in Scan |-> {}]
  /\ persisted = [s \in Scan |-> {}]
  /\ embedded = {t \in Tool : \A s \in Scan : t \notin Own(s)}
  /\ stored = [t \in Tool |-> {}]
  /\ wrote = [t \in Tool |-> {}]
  /\ toolLock = [t \in Tool |-> NoScan]
  /\ capLock = [t \in Tool |-> NoScan]
  /\ fails = 0

-----------------------------------------------------------------------------
\* The end of a transaction, and its abort, give its locks back.
Release(s) ==
  /\ toolLock' = [t \in Tool |-> IF toolLock[t] = s THEN NoScan ELSE toolLock[t]]
  /\ capLock' = [t \in Tool |-> IF capLock[t] = s THEN NoScan ELSE capLock[t]]
  /\ wrote' = [t \in Tool |-> IF capLock[t] = s THEN {} ELSE wrote[t]]

Abort(s) ==
  /\ tx' = [tx EXCEPT ![s] = "aborted"]
  /\ saved' = [saved EXCEPT ![s] = {}]
  /\ Release(s)

\* What a run has in memory goes with it.
Forget(s) ==
  /\ todo' = [todo EXCEPT ![s] = <<>>]
  /\ hits' = [hits EXCEPT ![s] = {}]
  /\ task' = [task EXCEPT ![s] = [t \in Tool |-> "lookup"]]
  /\ caps' = [caps EXCEPT ![s] = [t \in Tool |-> {}]]
  /\ verdict' = [verdict EXCEPT ![s] = [c \in Call |-> "pending"]]
  /\ conn' = [conn EXCEPT ![s] = NoTool]

Fault == fails < MaxFails /\ fails' = fails + 1

Load(s, o) ==
  /\ pc[s] = "begin"
  /\ todo' = [todo EXCEPT ![s] = o]
  /\ pc' = [pc EXCEPT ![s] = "shadow"]
  /\ UNCHANGED <<tx, hits, detect, found, saved, persisted, tables, locks, fails>>

NameHits(s, t) ==
  {[by |-> "name-collision", name |-> NameOf[t], match |-> ServerOf[u]] :
     u \in {u \in Tool \ Own(s) : NameOf[u] = NameOf[t]}}

\* Only embeddings that are committed are found.
DescriptionHits(s, t) ==
  {[by |-> "semantic-clone", name |-> NameOf[t], match |-> u] :
     u \in {u \in embedded \ Own(s) : {t, u} \in Alike}}

Shadowing(s) == pc[s] = "shadow" /\ todo[s] # <<>>

\* Faulty: the embedding is written by whoever syncs the tools.
ShadowSearchOnly(s) ==
  /\ Shadowing(s)
  /\ tx[s] = "open"
  /\ LET t == Head(todo[s]) IN
       hits' = [hits EXCEPT ![s] = @ \cup NameHits(s, t) \cup DescriptionHits(s, t)]
  /\ todo' = [todo EXCEPT ![s] = Tail(@)]
  /\ UNCHANGED <<pc, tx, detect, found, saved, persisted, tables, locks, fails>>

\* ShadowingDetector: UPDATE tools, then the searches by name and description.
Shadow(s) ==
  /\ Shadowing(s)
  /\ tx[s] = "open"
  /\ LET t == Head(todo[s]) IN
       /\ toolLock[t] \in {NoScan, s}
       /\ toolLock' = [toolLock EXCEPT ![t] = s]
       /\ hits' = [hits EXCEPT ![s] = @ \cup NameHits(s, t) \cup DescriptionHits(s, t)]
  /\ todo' = [todo EXCEPT ![s] = Tail(@)]
  /\ UNCHANGED <<pc, tx, detect, found, saved, persisted, tables, capLock, wrote, fails>>

\* One of the three statements fails: the detector logs it or takes no hits.
ShadowFails(s) ==
  /\ Shadowing(s)
  /\ tx[s] = "open"
  /\ Fault
  /\ Abort(s)
  /\ \E H \in {{}, NameHits(s, Head(todo[s]))} : hits' = [hits EXCEPT ![s] = @ \cup H]
  /\ todo' = [todo EXCEPT ![s] = Tail(@)]
  /\ UNCHANGED <<pc, detect, found, persisted, tables>>

\* In an aborted transaction all of them fail.
ShadowInVain(s) ==
  /\ Shadowing(s)
  /\ tx[s] = "aborted"
  /\ todo' = [todo EXCEPT ![s] = Tail(@)]
  /\ UNCHANGED <<pc, tx, hits, detect, found, saved, persisted, tables, locks, fails>>

\* encode, which may ask a model, stands outside the try: the detector raises,
\* its hits are lost and the tools that were to come are not embedded.
EncodeFails(s) ==
  /\ Shadowing(s)
  /\ Fault
  /\ hits' = [hits EXCEPT ![s] = {}]
  /\ pc' = [pc EXCEPT ![s] = "gather"]
  /\ UNCHANGED <<tx, todo, detect, found, saved, persisted, tables, locks>>

RulesDone(s) ==
  /\ pc[s] = "shadow" /\ todo[s] = <<>>
  /\ pc' = [pc EXCEPT ![s] = "gather"]
  /\ UNCHANGED <<tx, search, detect, found, saved, persisted, tables, locks, fails>>

-----------------------------------------------------------------------------
\* _classify: an aborted transaction makes the lookup raise out of _classify,
\* which gather returns as the tool's result.
Lookup(s, t) ==
  /\ pc[s] = "gather" /\ task[s][t] = "lookup" /\ conn[s] = NoTool
  /\ caps' = [caps EXCEPT ![s][t] = IF tx[s] = "open" THEN stored[t] ELSE {}]
  /\ task' = [task EXCEPT ![s][t] = IF tx[s] = "open" /\ stored[t] = {} THEN "llm" ELSE "done"]
  /\ UNCHANGED <<pc, tx, search, verdict, conn, found, saved, persisted, tables, locks, fails>>

LookupFails(s, t) ==
  /\ pc[s] = "gather" /\ task[s][t] = "lookup" /\ conn[s] = NoTool
  /\ tx[s] = "open"
  /\ Fault
  /\ Abort(s)
  /\ task' = [task EXCEPT ![s][t] = "done"]
  /\ UNCHANGED <<pc, search, caps, verdict, conn, found, persisted, tables>>

\* Faulty: what the model names need not be in CAPABILITY_VOCAB.
ClassifiedUnfiltered(s, t) ==
  /\ pc[s] = "gather" /\ task[s][t] = "llm"
  /\ caps' = [caps EXCEPT ![s][t] = CapsOf[t] \cup {"unheard-of"}]
  /\ task' = [task EXCEPT ![s][t] = "store"]
  /\ UNCHANGED <<pc, tx, search, verdict, conn, found, saved, persisted, tables, locks, fails>>

Classified(s, t) ==
  /\ pc[s] = "gather" /\ task[s][t] = "llm"
  /\ caps' = [caps EXCEPT ![s][t] = CapsOf[t]]
  /\ task' = [task EXCEPT ![s][t] = "store"]
  /\ UNCHANGED <<pc, tx, search, verdict, conn, found, saved, persisted, tables, locks, fails>>

ClassifyFails(s, t) ==
  /\ pc[s] = "gather" /\ task[s][t] = "llm"
  /\ Fault
  /\ task' = [task EXCEPT ![s][t] = "done"]
  /\ UNCHANGED <<pc, tx, search, caps, verdict, conn, found, saved, persisted, tables, locks>>

\* The connection runs one statement at a time: while an upsert waits for its
\* row, the other tools' statements wait for the connection.
StoreStarts(s, t) ==
  /\ pc[s] = "gather" /\ task[s][t] = "store" /\ conn[s] = NoTool
  /\ conn' = [conn EXCEPT ![s] = t]
  /\ UNCHANGED <<pc, tx, search, task, caps, verdict, found, saved, persisted, tables, locks, fails>>

StoreEnds(s, t) ==
  /\ conn' = [conn EXCEPT ![s] = NoTool]
  /\ task' = [task EXCEPT ![s][t] = "done"]
  /\ UNCHANGED <<pc, search, caps, verdict, found, persisted, tables>>

Store(s, t) ==
  /\ conn[s] = t
  /\ tx[s] = "open"
  /\ capLock[t] \in {NoScan, s}
  /\ capLock' = [capLock EXCEPT ![t] = s]
  /\ wrote' = [wrote EXCEPT ![t] = caps[s][t]]
  /\ StoreEnds(s, t)
  /\ UNCHANGED <<tx, saved, toolLock, fails>>

StoreFails(s, t) ==
  /\ conn[s] = t
  /\ tx[s] = "open"
  /\ Fault
  /\ Abort(s)
  /\ StoreEnds(s, t)

StoreInVain(s, t) ==
  /\ conn[s] = t
  /\ tx[s] = "aborted"
  /\ StoreEnds(s, t)
  /\ UNCHANGED <<tx, saved, locks, fails>>

Unanswered(s, c) == pc[s] = "gather" /\ c \in Calls(s) /\ verdict[s][c] = "pending"

\* An answer makes a finding, or shows that there is nothing to report.
Answer(s, c, bad) == verdict' = [verdict EXCEPT ![s][c] = IF bad THEN "reported" ELSE "nothing"]

Judged(s, t) ==
  /\ Unanswered(s, <<t, "tpa-llm">>)
  /\ Answer(s, <<t, "tpa-llm">>, VerdictOf[t] \in {"suspicious", "malicious"})
  /\ UNCHANGED <<pc, tx, search, task, caps, conn, found, saved, persisted, tables, locks, fails>>

\* validate refuses a score that is not from 0 to 10, and cuts it to an integer.
Misaligned(score) == score <= 100 /\ score \div 10 <= 3

Aligned(s, t) ==
  /\ Unanswered(s, <<t, "schema-code-alignment">>)
  /\ Answer(s, <<t, "schema-code-alignment">>, Misaligned(ScoreOf[t]))
  /\ UNCHANGED <<pc, tx, search, task, caps, conn, found, saved, persisted, tables, locks, fails>>

\* The call raises, or its answer cannot be used.
AnswerFails(s, c) ==
  /\ Unanswered(s, c)
  /\ Fault
  /\ verdict' = [verdict EXCEPT ![s][c] = "failed"]
  /\ UNCHANGED <<pc, tx, search, task, caps, conn, found, saved, persisted, tables, locks>>

-----------------------------------------------------------------------------
\* Capabilities are collected by name: of rows of one name, the one that comes
\* last in load_tools' order has its say, whatever became of its call.
LastOfName(s) ==
  {last \in [{NameOf[t] : t \in Own(s)} -> Own(s)] : \A n \in DOMAIN last : NameOf[last[n]] = n}

ToxicFindings(s, last) ==
  LET capable(C) == \E n \in DOMAIN last : caps[s][last[n]] \cap C # {} IN
    {[by |-> p.name, name |-> NoName, match |-> NoTool] :
       p \in {p \in ToxicFlowPatterns : capable(p.sources) /\ capable(p.sinks)}}

VerdictFinding(c) == [by |-> c[2], name |-> NameOf[c[1]], match |-> NoTool]
VerdictFindings(s) == {VerdictFinding(c) : c \in {c \in Calls(s) : verdict[s][c] = "reported"}}

\* Faulty: gather without return_exceptions, so that one tool's failure is the
\* detector's.
FoundIfAllJudged(s, last) ==
  hits[s] \cup ToxicFindings(s, last)
  \cup {f \in VerdictFindings(s) : \A c \in Calls(s) : c[2] = f.by => verdict[s][c] # "failed"}

Found(s, last) == hits[s] \cup VerdictFindings(s) \cup ToxicFindings(s, last)

Gathered(s) ==
  /\ pc[s] = "gather"
  /\ \A t \in Own(s) : task[s][t] = "done"
  /\ \A c \in Calls(s) : verdict[s][c] # "pending"
  /\ \E last \in LastOfName(s) : found' = [found EXCEPT ![s] = Found(s, last)]
  /\ pc' = [pc EXCEPT ![s] = "save"]
  /\ UNCHANGED <<tx, search, detect, saved, persisted, tables, locks, fails>>

\* Faulty: session_scope lets what it catches pass without a rollback.
RaiseUnrolled(s) ==
  /\ pc' = [pc EXCEPT ![s] = "raised"]
  /\ UNCHANGED <<tx, search, detect, found, saved, persisted, tables, locks>>

Raise(s) ==
  /\ pc' = [pc EXCEPT ![s] = "raised"]
  /\ Abort(s)
  /\ Forget(s)
  /\ UNCHANGED <<found, persisted, tables>>

\* Findings of the two verdicts carry the id of their call.
AnyToLink(s) == \E f \in found[s] : f.by \in {"tpa-llm", "schema-code-alignment"}

\* Faulty: save_findings opens a session of its own.
SaveAutocommit(s) ==
  /\ pc[s] = "save"
  /\ tx[s] = "open" \/ found[s] = {}
  /\ persisted' = [persisted EXCEPT ![s] = found[s]]
  /\ saved' = [saved EXCEPT ![s] = found[s]]
  /\ pc' = [pc EXCEPT ![s] = IF AnyToLink(s) THEN "link" ELSE "commit"]
  /\ UNCHANGED <<tx, search, detect, found, tables, locks, fails>>

Save(s) ==
  /\ pc[s] = "save"
  /\ tx[s] = "open" \/ found[s] = {}
  /\ saved' = [saved EXCEPT ![s] = found[s]]
  /\ pc' = [pc EXCEPT ![s] = IF AnyToLink(s) THEN "link" ELSE "commit"]
  /\ UNCHANGED <<tx, search, detect, found, persisted, tables, locks, fails>>

SaveInVain(s) ==
  /\ pc[s] = "save"
  /\ tx[s] = "aborted" /\ found[s] # {}
  /\ Raise(s)
  /\ UNCHANGED fails

SaveFails(s) ==
  /\ pc[s] = "save"
  /\ tx[s] = "open" /\ found[s] # {}
  /\ Fault
  /\ Raise(s)

Link(s) ==
  /\ pc[s] = "link"
  /\ pc' = [pc EXCEPT ![s] = "commit"]
  /\ UNCHANGED <<tx, search, detect, found, saved, persisted, tables, locks, fails>>

LinkFails(s) ==
  /\ pc[s] = "link"
  /\ Fault
  /\ Abort(s)
  /\ pc' = [pc EXCEPT ![s] = "commit"]
  /\ UNCHANGED <<search, detect, found, persisted, tables>>

\* COMMIT of an aborted transaction rolls back and raises nothing.
Commit(s) ==
  /\ pc[s] = "commit"
  /\ persisted' = [persisted EXCEPT ![s] = @ \cup saved[s]]
  /\ stored' = [t \in Tool |-> IF capLock[t] = s THEN wrote[t] ELSE stored[t]]
  /\ embedded' = embedded \cup {t \in Tool : toolLock[t] = s}
  /\ Release(s)
  /\ Forget(s)
  /\ pc' = [pc EXCEPT ![s] = "returned"]
  /\ UNCHANGED <<tx, found, saved, fails>>

CommitFails(s) ==
  /\ pc[s] = "commit"
  /\ Fault
  /\ Raise(s)

Kill(s) ==
  /\ pc[s] \notin Ended \cup {"begin"}
  /\ Fault
  /\ Abort(s)
  /\ pc' = [pc EXCEPT ![s] = "killed"]
  /\ Forget(s)
  /\ UNCHANGED <<found, persisted, tables>>

-----------------------------------------------------------------------------
WaitsFor(s) ==
  CASE Shadowing(s) /\ tx[s] = "open" -> {toolLock[Head(todo[s])]} \ {NoScan, s}
    [] pc[s] = "gather" /\ conn[s] # NoTool /\ tx[s] = "open" -> {capLock[conn[s]]} \ {NoScan, s}
    [] OTHER -> {}

Deadlocked(s) ==
  \E S \in SUBSET Scan :
    /\ s \in S
    /\ \A u \in S : /\ WaitsFor(u) \cap S # {}
                    /\ \E w \in S : u \in WaitsFor(w)

\* The victim's statement raises, and the detector swallows that too.
ShadowDeadlock(s) ==
  /\ Shadowing(s) /\ Deadlocked(s)
  /\ Abort(s)
  /\ todo' = [todo EXCEPT ![s] = Tail(@)]
  /\ UNCHANGED <<pc, hits, detect, found, persisted, tables, fails>>

StoreDeadlock(s, t) ==
  /\ conn[s] = t /\ Deadlocked(s)
  /\ Abort(s)
  /\ StoreEnds(s, t)
  /\ UNCHANGED fails

ToolStep(s, t) ==
  \/ Lookup(s, t) \/ Classified(s, t) \/ StoreStarts(s, t)
  \/ Store(s, t) \/ StoreInVain(s, t) \/ StoreDeadlock(s, t)
  \/ Judged(s, t) \/ Aligned(s, t)

Step(s) ==
  \/ Shadow(s) \/ ShadowInVain(s) \/ ShadowDeadlock(s) \/ RulesDone(s)
  \/ \E t \in Own(s) : ToolStep(s, t)
  \/ Gathered(s) \/ Save(s) \/ SaveInVain(s) \/ Link(s) \/ Commit(s)

Failure(s) ==
  \/ ShadowFails(s) \/ EncodeFails(s)
  \/ SaveFails(s) \/ LinkFails(s) \/ CommitFails(s) \/ Kill(s)
  \/ \E t \in Own(s) : LookupFails(s, t) \/ ClassifyFails(s, t) \/ StoreFails(s, t)
  \/ \E c \in Calls(s) : AnswerFails(s, c)

AllEnded == (\A s \in Scan : pc[s] \in Ended) /\ UNCHANGED vars

Next ==
  \/ \E s \in Scan : (\E o \in Orders(Own(s)) : Load(s, o)) \/ Step(s) \/ Failure(s)
  \/ AllEnded

\* Fairness: a run that has begun is driven on by its event loop, every call of
\* the model ends, and PostgreSQL breaks circles of waiting transactions.
Spec == Init /\ [][Next]_vars /\ \A s \in Scan : WF_vars(Step(s))

-----------------------------------------------------------------------------
TypeOK ==
  /\ pc \in [Scan -> {"begin", "shadow", "gather", "save", "link", "commit"} \cup Ended]
  /\ tx \in [Scan -> {"open", "aborted"}]
  /\ todo \in [Scan -> Seq(Tool)]
  /\ hits \in [Scan -> SUBSET Finding]
  /\ task \in [Scan -> [Tool -> {"lookup", "llm", "store", "done"}]]
  /\ caps \in [Scan -> [Tool -> SUBSET CapabilityVocab]]
  /\ verdict \in [Scan -> [Call -> Outcome]]
  /\ conn \in [Scan -> Tool \cup {NoTool}]
  /\ found \in [Scan -> SUBSET Finding]
  /\ saved \in [Scan -> SUBSET Finding]
  /\ persisted \in [Scan -> SUBSET Finding]
  /\ embedded \subseteq Tool
  /\ stored \in [Tool -> SUBSET CapabilityVocab]
  /\ wrote \in [Tool -> SUBSET CapabilityVocab]
  /\ toolLock \in [Tool -> Scan \cup {NoScan}]
  /\ capLock \in [Tool -> Scan \cup {NoScan}]
  /\ fails \in 0..MaxFails

\* A run stores capabilities while it waits for the model, in the order the
\* answers come in; yet it waits for no other run's, and two runs cannot
\* deadlock there, because the embedding it wrote first keeps the tool's row -
\* but for tools an encoder's failure has left without one.
CapabilitiesUncontended ==
  \A t \in Tool : capLock[t] # NoScan =>
    toolLock[t] = capLock[t] \/ t \in Range(todo[capLock[t]])

\* A run's findings are persisted all together and only if the run returns.
PersistedWhole ==
  \A s \in Scan : persisted[s] # {} => pc[s] = "returned" /\ persisted[s] = found[s]

\* A call that fails costs its own tool's verdict of its own detector and no
\* other: what the model answered to the other calls is in the run's findings.
AnswersReported ==
  \A s \in Scan : pc[s] \in {"save", "link", "commit"} =>
    \A c \in Calls(s) : verdict[s][c] = "reported" => VerdictFinding(c) \in found[s]

\* What makes these inductive: a run whose transaction is open keeps the rows of
\* the tools it has embedded, ...
EmbeddedFirst ==
  \A s \in Scan : pc[s] \notin {"begin"} \cup Ended /\ tx[s] = "open" =>
    \A t \in Own(s) : toolLock[t] = s \/ t \in Range(todo[s])

\* ... capabilities are stored of its own tools, through its one connection, ...
StoredOwn ==
  \A s \in Scan :
    /\ \A t \in Tool : capLock[t] = s =>
         t \in Own(s) /\ tx[s] = "open" /\ pc[s] \in {"gather", "save", "link", "commit"}
    /\ conn[s] # NoTool => pc[s] = "gather" /\ conn[s] \in Own(s) /\ task[s][conn[s]] = "store"

\* ... and its rows of findings are all or none of them there.
SavedWhole ==
  \A s \in Scan : saved[s] # {} => pc[s] \in {"link", "commit", "returned"} /\ saved[s] = found[s]

IInv ==
  /\ TypeOK
  /\ EmbeddedFirst /\ StoredOwn
  /\ SavedWhole /\ PersistedWhole
  /\ AnswersReported

\* Every run comes to an end, whoever else holds its tools.
RunsEnd == \A s \in Scan : pc[s] # "begin" ~> pc[s] \in Ended

\* docs: if the similarity search fails, shadowing is skipped and the other
\* detectors go on.
ShadowFailureSkipped == \A s \in Scan : pc[s] # "raised"

\* The same without the exception: what holds with the default encoder, a hash.
CapabilitiesNeverContended ==
  \A t \in Tool : capLock[t] # NoScan => toolLock[t] = capLock[t]

\* A flow between two rows of a server's tools is reported.
FlowsReported ==
  \A s \in Scan : pc[s] = "save" => \A p \in ToxicFlowPatterns :
    (\E t, u \in Own(s) : caps[s][t] \cap p.sources # {} /\ caps[s][u] \cap p.sinks # {})
      => \E f \in found[s] : f.by = p.name

\* docs: descriptions like those of another server's tools are reported; of two
\* clones whose servers have both been scanned, one run at least tells.
ClonesReported ==
  \A s, r \in Scan : persisted[s] # {} /\ persisted[r] # {} =>
    \A t \in Own(s), u \in Own(r) : t # u /\ ServerOf[s] # ServerOf[r] /\ {t, u} \in Alike =>
      \E f \in persisted[s] \cup persisted[r] : f.by = "semantic-clone"
=============================================================================

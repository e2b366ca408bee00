--------------------------- MODULE StaticScanProofs ---------------------------
(***************************************************************************)
(* Theorems about StaticScan, for any number of overlapping scans, any     *)
(* artifact, any set of installed scanners and any number of failures.     *)
(***************************************************************************)
EXTENDS StaticScan, TLAPS

USE NamesAssumption, InstalledAssumption, PackedAssumption, BoundsAssumption

-----------------------------------------------------------------------------
\* The analyzers are seven, and the same name is not given twice to a reader
\* of `crashed`: an analyzer is one of them by its index.
LEMMA AnalyzersSeven ==
  /\ Len(Analyzers) = 7 /\ DOMAIN Analyzers = 1..7
  /\ \A n \in 1..7 : Analyzers[n] \in Analyzer
  /\ \A a \in Analyzer : \E n \in 1..7 : a = Analyzers[n]
<1>1. Len(Analyzers) = 7 /\ DOMAIN Analyzers = 1..7
  BY DEF Analyzers
<1> QED
  BY <1>1 DEF Analyzer

\* What an analyzer starts: at most three tools, ...
LEMMA WhereType ==
  ASSUME NEW c, NEW t \in Tool
  PROVE  Where(c, t) \in Seq(Tool) /\ Len(Where(c, t)) \in 0..1
<1>1. CASE c
  BY <1>1 DEF Where
<1>2. CASE ~c
  <2>1. <<>> \in Seq(Tool) /\ Len(<<>>) = 0
    OBVIOUS
  <2> QED
    BY <1>2, <2>1 DEF Where
<1> QED
  BY <1>1, <1>2

LEMMA ToolsBounded ==
  ASSUME NEW a \in Analyzer, NEW B
  PROVE  /\ ToolsOf(a, B) \in Seq(Tool)
         /\ Len(ToolsOf(a, B)) \in 0..3
<1>1. SecretTools(B) \in Seq(Tool) /\ Len(SecretTools(B)) \in 0..2
  <2> DEFINE T == Where("trufflehog" \in B, "trufflehog")
             G == Where("gitleaks" \in B, "gitleaks")
  <2>1. T \in Seq(Tool) /\ Len(T) \in 0..1 /\ G \in Seq(Tool) /\ Len(G) \in 0..1
    BY WhereType DEF Tool
  <2>2. SecretTools(B) = T \o G
    BY DEF SecretTools
  <2> HIDE DEF T, G
  <2> QED
    BY <2>1, <2>2
<1>2. ScaTools(B) \in Seq(Tool) /\ Len(ScaTools(B)) \in 0..3
  <2> DEFINE O == Where("osv" \in B, "osv")
             N == Where("package.json" \in Manifests /\ "npm" \in B, "npm")
             P == Where("requirements.txt" \in Manifests /\ "pip" \in B, "pip")
  <2>1. /\ O \in Seq(Tool) /\ Len(O) \in 0..1
        /\ N \in Seq(Tool) /\ Len(N) \in 0..1
        /\ P \in Seq(Tool) /\ Len(P) \in 0..1
    BY WhereType DEF Tool
  <2>2. ScaTools(B) = O \o N \o P
    BY DEF ScaTools
  <2> HIDE DEF O, N, P
  <2> QED
    BY <2>1, <2>2
<1>3. CodeqlTools(B) \in Seq(Tool) /\ Len(CodeqlTools(B)) \in 0..2
  <2>1. <<"create", "analyze">> \in Seq(Tool) /\ Len(<<"create", "analyze">>) = 2
    BY DEF Tool
  <2>2. <<>> \in Seq(Tool) /\ Len(<<>>) = 0
    OBVIOUS
  <2> QED
    BY <2>1, <2>2 DEF CodeqlTools
<1>4. a \notin {"secret", "sca", "codeql", "reputation"} => <<a>> \in Seq(Tool) /\ Len(<<a>>) = 1
  <2>1. a \in {"manifest", "obfuscation", "semgrep", "secret", "sca", "codeql", "reputation"}
    BY DEF Analyzer, Analyzers
  <2>2. SUFFICES ASSUME a \in Tool PROVE <<a>> \in Seq(Tool) /\ Len(<<a>>) = 1
    BY <2>1 DEF Tool
  <2> QED
    BY <2>2
<1>5. ReputationTools \in Seq(Tool) /\ Len(ReputationTools) = 0
  BY DEF ReputationTools
<1>6. \/ a = "secret" /\ ToolsOf(a, B) = SecretTools(B)
      \/ a = "sca" /\ ToolsOf(a, B) = ScaTools(B)
      \/ a = "codeql" /\ ToolsOf(a, B) = CodeqlTools(B)
      \/ a = "reputation" /\ ToolsOf(a, B) = ReputationTools
      \/ a \notin {"secret", "sca", "codeql", "reputation"} /\ ToolsOf(a, B) = <<a>>
  BY DEF ToolsOf
<1>7. 0..2 \subseteq 0..3 /\ {0, 1} \subseteq 0..3
  OBVIOUS
<1> QED
  BY <1>1, <1>2, <1>3, <1>4, <1>5, <1>6, <1>7, Zenon

\* ... codeql's second one is the last, ...
LEMMA PhasedTools ==
  ASSUME NEW a \in Analyzer, NEW B, Phased(a)
  PROVE  ToolsOf(a, B) \in {<<>>, <<"create", "analyze">>}
BY DEF Phased, ToolsOf, CodeqlTools

\* ... and trufflehog runs before gitleaks.
LEMMA TrufflehogFirst ==
  ASSUME NEW B, NEW i \in DOMAIN ToolsOf("secret", B), NEW j \in DOMAIN ToolsOf("secret", B),
         ToolsOf("secret", B)[j] = "trufflehog", ToolsOf("secret", B)[i] = "gitleaks"
  PROVE  j \in 1..i
<1> DEFINE T == Where("trufflehog" \in B, "trufflehog")
           G == Where("gitleaks" \in B, "gitleaks")
<1>1. ToolsOf("secret", B) = T \o G
  BY DEF ToolsOf, SecretTools
<1>2. T \in Seq(Tool) /\ Len(T) \in 0..1 /\ G \in Seq(Tool) /\ Len(G) \in 0..1
  BY WhereType DEF Tool
<1>3. \A n \in 1..Len(T) : T[n] = "trufflehog"
  BY DEF Where
<1>4. \A n \in 1..Len(G) : G[n] = "gitleaks"
  BY DEF Where
<1> HIDE DEF T, G
<1>5. /\ DOMAIN (T \o G) = 1..(Len(T) + Len(G))
      /\ \A n \in 1..(Len(T) + Len(G)) :
           (T \o G)[n] = IF n <= Len(T) THEN T[n] ELSE G[n - Len(T)]
  BY <1>2
<1>6. i \in 1..(Len(T) + Len(G)) /\ j \in 1..(Len(T) + Len(G))
  BY <1>1, <1>5
<1>7. j <= Len(T)
  BY <1>1, <1>2, <1>4, <1>5, <1>6
<1>8. i > Len(T)
  BY <1>1, <1>2, <1>3, <1>5, <1>6
<1> QED
  BY <1>2, <1>6, <1>7, <1>8

\* The evidence_key of something a tool finds.
LEMMA EvidenceKeyType ==
  ASSUME NEW s \in Scan, NEW t \in Tool, NEW h \in HitsOf[t]
  PROVE  /\ EvidenceKey(s, t, h) \in Key
         /\ EvidenceKey(s, t, h).by = t /\ EvidenceKey(s, t, h).hit = h
BY DEF EvidenceKey, Key, Hit

LEMMA RunningType ==
  ASSUME TypeOK, NEW s \in Scan, next[s] <= Len(Analyzers)
  PROVE  /\ next[s] \in 1..7 /\ Running(s) \in Analyzer
         /\ Tools(s) \in Seq(Tool) /\ Len(Tools(s)) \in 0..3
         /\ DOMAIN Tools(s) = 1..Len(Tools(s))
<1>1. next[s] \in 1..7 /\ Running(s) \in Analyzer
  BY AnalyzersSeven DEF TypeOK, Running
<1> QED
  BY <1>1, ToolsBounded DEF Tools

\* What a scan is at, when it starts one more tool.
LEMMA AtToolType ==
  ASSUME TypeOK, NEW s \in Scan, AtTool(s)
  PROVE  /\ pc[s] = "analyze" /\ next[s] <= Len(Analyzers)
         /\ tool[s] \in 1..Len(Tools(s)) /\ tool[s] \in DOMAIN Tools(s)
         /\ Tools(s)[tool[s]] \in Tool
<1>1. pc[s] = "analyze" /\ next[s] <= Len(Analyzers) /\ tool[s] \in 1..Len(Tools(s))
  BY DEF AtTool, Analyzing
<1>2. Tools(s) \in Seq(Tool)
  BY <1>1, RunningType
<1> QED
  BY <1>1, <1>2

-----------------------------------------------------------------------------
LEMMA TypeInit == Init => TypeOK
<1>1. Len(Analyzers) = 7
  BY AnalyzersSeven
<1> QED
  BY <1>1 DEF Init, TypeOK, NoDir, Ended

\* A step around the analyzer loop leaves what the loop works with alone.
LEMMA TypeAround ==
  ASSUME TypeOK, NEW s \in Scan,
         \/ MakeWorkdir(s) \/ CopyDirectory(s) \/ Fetch(s) \/ Unpack(s) \/ PrepareFails(s)
         \/ Extract(s) \/ Analyzed(s) \/ SaveSummary(s) \/ SaveFindings(s) \/ Commit(s)
         \/ CleanUp(s) \/ Raise(s) \/ Kill(s)
  PROVE  TypeOK'
<1>1. /\ UNCHANGED <<packed, onPath, loop>>
      /\ UNCHANGED fails \/ Failure
  BY DEF MakeWorkdir, CopyDirectory, Fetch, Unpack, PrepareFails, Extract, Analyzed, SaveSummary,
         SaveFindings, Commit, CleanUp, Raise, Kill
<1>2. fails' \in 0..MaxFails
  BY <1>1 DEF TypeOK, Failure
<1>3. pc' \in [Scan -> {"begin", "copy", "fetch", "unpack", "extract", "analyze", "save_summary",
                       "save_findings", "commit", "clean_up", "clean_up_raising"} \cup Ended]
  <2>1. \E l \in {"copy", "fetch", "extract", "unpack", "analyze", "save_summary", "save_findings",
                  "commit", "clean_up", "clean_up_raising"} \cup Ended : Goto(s, l)
    BY DEF Ended, MakeWorkdir, CopyDirectory, Fetch, Unpack, PrepareFails, Extract,
           Analyzed, SaveSummary, SaveFindings, Commit, CleanUp, Raise, Kill
  <2> QED
    BY <2>1 DEF TypeOK, Goto
<1>4. workdir' \in [Scan -> {NoDir, "empty", "artifact", "files"}]
  BY DEF TypeOK, Leave, MakeWorkdir, CopyDirectory, Fetch, Unpack, PrepareFails, Extract,
         Analyzed, SaveSummary, SaveFindings, Commit, CleanUp, Raise, Kill
<1>5. summary' \in Scan \cup {NoScan} /\ summaryLock' \in Scan \cup {NoScan}
  BY DEF TypeOK, db, Unlock, MakeWorkdir, CopyDirectory, Fetch, Unpack, PrepareFails, Extract,
         Analyzed, SaveSummary, SaveFindings, Commit, CleanUp, Raise, Kill
<1>6. active' \in [Key -> Scan \cup {NoScan}]
  BY DEF TypeOK, db, MakeWorkdir, CopyDirectory, Fetch, Unpack, PrepareFails, Extract,
         Analyzed, SaveSummary, SaveFindings, Commit, CleanUp, Raise, Kill
<1>7. wrote' \in [Scan -> SUBSET Key]
  BY DEF TypeOK, db, MakeWorkdir, CopyDirectory, Fetch, Unpack, PrepareFails, Extract,
         Analyzed, SaveSummary, SaveFindings, Commit, CleanUp, Raise, Kill
<1> QED
  BY <1>1, <1>2, <1>3, <1>4, <1>5, <1>6, <1>7 DEF TypeOK, loop

\* What is collected are evidence_keys.
LEMMA CollectType ==
  ASSUME TypeOK, NEW s \in Scan, NEW t \in Tool, NEW H \in SUBSET HitsOf[t], Collect(s, t, H)
  PROVE  hits' \in [Scan -> SUBSET Key]
<1>1. {EvidenceKey(s, t, h) : h \in H} \subseteq Key
  BY EvidenceKeyType
<1> QED
  BY <1>1 DEF TypeOK, Collect

\* A tool that has run is not run again, and none is past the last.
LEMMA ToolAdvances ==
  ASSUME TypeOK, NEW s \in Scan, RunTool(s) \/ ToolFails(s)
  PROVE  \E n \in 1..4 : tool' = [tool EXCEPT ![s] = n] /\ n > tool[s]
<1>1. \A n \in 0..3 : \A i \in 1..n : /\ i + 1 \in 1..4 /\ i + 1 > i
                                    /\ n + 1 \in 1..4 /\ n + 1 > i
  OBVIOUS
<1>2. tool[s] \in 1..Len(Tools(s)) /\ Len(Tools(s)) \in 0..3
  BY AtToolType, RunningType DEF RunTool, ToolFails
<1>3. /\ tool[s] + 1 \in 1..4 /\ tool[s] + 1 > tool[s]
      /\ Len(Tools(s)) + 1 \in 1..4 /\ Len(Tools(s)) + 1 > tool[s]
  BY <1>1, <1>2, Zenon
<1> QED
  BY <1>3 DEF RunTool, ToolFails

LEMMA TypeTool ==
  ASSUME TypeOK, NEW s \in Scan, MakeScratch(s) \/ RunTool(s) \/ ToolFails(s)
  PROVE  TypeOK'
<1>1. CASE MakeScratch(s)
  BY <1>1 DEF TypeOK, MakeScratch, db
<1>2. CASE RunTool(s) \/ ToolFails(s)
  <2>1. AtTool(s)
    BY <1>2 DEF RunTool, ToolFails
  <2> DEFINE t == Tools(s)[tool[s]]
  <2>2. /\ t \in Tool /\ tool[s] \in 1..Len(Tools(s)) /\ Len(Tools(s)) \in 0..3
    BY <2>1, AtToolType, RunningType
  <2>3. PICK H \in SUBSET HitsOf[t] : Collect(s, t, H)
    BY <1>2 DEF RunTool, ToolFails, Finds
  <2>4. hits' \in [Scan -> SUBSET Key]
    BY <2>2, <2>3, CollectType
  <2>5. tool' \in [Scan -> 0..4]
    <3>1. PICK n \in 1..4 : tool' = [tool EXCEPT ![s] = n]
      BY <1>2, ToolAdvances
    <3> QED
      BY <3>1 DEF TypeOK
  <2>6. failed' \in [Scan -> SUBSET Tool] /\ fails' \in 0..MaxFails
    <3>1. failed' = failed \/ failed' = [failed EXCEPT ![s] = @ \cup {t}]
      BY <1>2 DEF RunTool, ToolFails
    <3>2. fails' = fails \/ (fails < MaxFails /\ fails' = fails + 1)
      BY <1>2 DEF RunTool, ToolFails, Failure
    <3>3. failed \in [Scan -> SUBSET Tool] /\ fails \in 0..MaxFails
      BY DEF TypeOK
    <3>4. failed' \in [Scan -> SUBSET Tool]
      BY <2>2, <3>1, <3>3
    <3> QED
      BY <3>2, <3>3, <3>4
  <2>7. UNCHANGED <<pc, workdir, packed, onPath, next, scratch, crashed, result, db>>
    BY <1>2 DEF RunTool, ToolFails
  <2> QED
    BY <2>4, <2>5, <2>6, <2>7 DEF TypeOK, db
<1> QED
  BY <1>1, <1>2

LEMMA TypeAnalyzer ==
  ASSUME TypeOK, NEW s \in Scan, AnalyzerDone(s) \/ ToolRaises(s) \/ AnalyzerCrash(s)
  PROVE  TypeOK'
<1>1. next[s] <= Len(Analyzers) /\ Proceed(s)
  BY DEF AnalyzerDone, ToolRaises, AnalyzerCrash, AtTool, Analyzing, Crash
<1>2. next[s] \in 1..7 /\ Running(s) \in Analyzer
  BY <1>1, RunningType
<1>3. next' \in [Scan -> 1..(Len(Analyzers) + 1)]
  BY <1>1, <1>2, AnalyzersSeven DEF TypeOK, Proceed
<1>4. tool' \in [Scan -> 0..4] /\ hits' \in [Scan -> SUBSET Key] /\ scratch' \in [Scan -> BOOLEAN]
  BY <1>1 DEF TypeOK, Proceed, FirstTool
<1>5. fails' \in 0..MaxFails
  BY DEF TypeOK, AnalyzerDone, ToolRaises, AnalyzerCrash, Failure
<1>6. crashed' \in [Scan -> SUBSET Analyzer] /\ result' \in [Scan -> SUBSET Key]
  <2>1. Deduped(Running(s), hits[s]) \subseteq Key
    BY DEF Deduped, TypeOK
  <2>2. CASE AnalyzerDone(s)
    BY <2>1, <2>2 DEF TypeOK, AnalyzerDone
  <2>3. CASE ToolRaises(s) \/ AnalyzerCrash(s)
    <3>1. crashed' = [crashed EXCEPT ![s] = @ \cup {Running(s)}] /\ UNCHANGED result
      BY <2>3 DEF ToolRaises, AnalyzerCrash, Crash
    <3> QED
      BY <1>2, <3>1 DEF TypeOK
  <2> QED
    BY <2>2, <2>3
<1> QED
  BY <1>1, <1>3, <1>4, <1>5, <1>6 DEF TypeOK, Proceed, db

LEMMA TypeCancel ==
  ASSUME TypeOK, NEW s \in Scan, Cancel(s)
  PROVE  TypeOK'
<1>1. /\ UNCHANGED <<workdir, packed, onPath, next, tool, hits, failed, crashed, result, db>>
      /\ pc' = [pc EXCEPT ![s] = "clean_up_raising"] /\ scratch' = [scratch EXCEPT ![s] = FALSE]
      /\ Failure
  BY DEF Cancel, Goto
<1>2. fails' \in 0..MaxFails
  BY <1>1 DEF TypeOK, Failure
<1> QED
  BY <1>1, <1>2 DEF TypeOK, db

LEMMA TypeNext == TypeOK /\ [Next]_vars => TypeOK'
<1> SUFFICES ASSUME TypeOK, [Next]_vars PROVE TypeOK'
  OBVIOUS
<1>1. CASE UNCHANGED vars
  BY <1>1 DEF TypeOK, vars, loop, db
<1>2. CASE Next
  <2>1. AllEnded => TypeOK'
    BY <1>1 DEF AllEnded
  <2> QED
    BY <1>2, <2>1, TypeAround, TypeTool, TypeAnalyzer, TypeCancel DEF Next, Step
<1> QED
  BY <1>1, <1>2

\* Every scan's state stays what it is meant to be; in particular an analyzer
\* collects nothing but evidence_keys, whichever of its tools fail or raise.
THEOREM TypeCorrect == Spec => []TypeOK
BY TypeInit, TypeNext, PTL DEF Spec

-----------------------------------------------------------------------------
\* The inductive invariant, part by part.
LEMMA IInit == Init => IInv
<1> SUFFICES ASSUME Init PROVE IInv
  OBVIOUS
<1>1. TypeOK
  BY TypeInit
<1>2. WorkdirHolds /\ ScratchOfPhased
  BY DEF Init, WorkdirHolds, ScratchOfPhased
<1>3. HitsKept
  <2> SUFFICES ASSUME NEW s \in Scan, NEW i \in DOMAIN Tools(s), next[s] <= Len(Analyzers)
               PROVE  hits[s] = {} /\ ~ i < tool[s]
    BY DEF Init, HitsKept
  <2>1. i \in Nat \ {0}
    BY <1>1, RunningType
  <2> QED
    BY <2>1 DEF Init
<1>4. ResultKept
  BY AnalyzersSeven DEF Init, ResultKept
<1>5. ResultWritten /\ SummaryMatchesFindings
  BY DEF Init, ResultWritten, SummaryMatchesFindings
<1> QED
  BY <1>1, <1>2, <1>3, <1>4, <1>5 DEF IInv

\* A step is one around the loop, of a tool, to the next analyzer, or the
\* scan is cancelled.
Around(s) ==
  \/ MakeWorkdir(s) \/ CopyDirectory(s) \/ Fetch(s) \/ Unpack(s) \/ PrepareFails(s)
  \/ Extract(s) \/ Analyzed(s) \/ SaveSummary(s) \/ SaveFindings(s) \/ Commit(s)
  \/ CleanUp(s) \/ Raise(s) \/ Kill(s)

OneTool(s) == MakeScratch(s) \/ RunTool(s) \/ ToolFails(s)

OneAnalyzer(s) == AnalyzerDone(s) \/ ToolRaises(s) \/ AnalyzerCrash(s)

LEMMA Steps ==
  ASSUME [Next]_vars
  PROVE  \/ UNCHANGED vars
         \/ \E s \in Scan : Around(s) \/ OneTool(s) \/ OneAnalyzer(s) \/ Cancel(s)
BY DEF Next, Step, AllEnded, Around, OneTool, OneAnalyzer

LEMMA AroundLeaves ==
  ASSUME NEW s \in Scan, Around(s)
  PROVE  UNCHANGED <<packed, onPath, next, tool, hits, scratch, failed, crashed, result>>
BY DEF Around, loop, MakeWorkdir, CopyDirectory, Fetch, Unpack, PrepareFails, Extract, Analyzed,
       SaveSummary, SaveFindings, Commit, CleanUp, Raise, Kill

LEMMA OneToolLeaves ==
  ASSUME NEW s \in Scan, OneTool(s)
  PROVE  /\ pc[s] = "analyze" /\ next[s] <= Len(Analyzers)
         /\ UNCHANGED <<pc, workdir, packed, onPath, next, crashed, result>>
         /\ UNCHANGED <<summary, summaryLock, active, wrote>>
BY DEF OneTool, MakeScratch, RunTool, ToolFails, AtTool, Analyzing, db

LEMMA OneAnalyzerLeaves ==
  ASSUME NEW s \in Scan, OneAnalyzer(s)
  PROVE  /\ pc[s] = "analyze" /\ next[s] <= Len(Analyzers) /\ Proceed(s)
         /\ UNCHANGED <<pc, workdir, packed, onPath, failed, summary, summaryLock, active, wrote>>
BY DEF OneAnalyzer, AnalyzerDone, ToolRaises, AnalyzerCrash, Crash, AtTool, Analyzing, Proceed, db

LEMMA CancelLeaves ==
  ASSUME NEW s \in Scan, Cancel(s)
  PROVE  /\ pc[s] = "analyze" /\ pc' = [pc EXCEPT ![s] = "clean_up_raising"]
         /\ scratch' = [scratch EXCEPT ![s] = FALSE]
         /\ UNCHANGED <<workdir, packed, onPath, next, tool, hits, failed, crashed, result>>
         /\ UNCHANGED <<summary, summaryLock, active, wrote>>
BY DEF Cancel, AtTool, Analyzing, Goto, db

\* The workdir: only the steps around the loop touch it.
LEMMA WorkdirNext ==
  ASSUME IInv, [Next]_vars
  PROVE  WorkdirHolds'
<1>1. CASE UNCHANGED vars
  BY <1>1 DEF IInv, WorkdirHolds, vars
<1>2. ASSUME NEW s \in Scan, OneTool(s) \/ OneAnalyzer(s) PROVE WorkdirHolds'
  BY <1>2, OneToolLeaves, OneAnalyzerLeaves DEF IInv, WorkdirHolds
<1>3. ASSUME NEW s \in Scan, Around(s) PROVE WorkdirHolds'
  <2>1. TypeOK /\ WorkdirHolds /\ UNCHANGED packed
    BY <1>3, AroundLeaves DEF IInv
  <2>2. packed[s] \in {"directory", "archive", "file"}
    BY <2>1 DEF TypeOK
  <2>3. CASE MakeWorkdir(s) \/ CopyDirectory(s) \/ Fetch(s) \/ Unpack(s)
    <3>1. CASE MakeWorkdir(s)
      BY <2>1, <2>2, <3>1 DEF TypeOK, WorkdirHolds, MakeWorkdir, Goto, Leave
    <3>2. CASE CopyDirectory(s)
      BY <2>1, <3>2 DEF TypeOK, WorkdirHolds, CopyDirectory, Goto, Leave
    <3>3. CASE Fetch(s)
      BY <2>1, <3>3 DEF TypeOK, WorkdirHolds, Fetch, Goto, Leave
    <3>4. CASE Unpack(s)
      BY <2>1, <2>2, <3>4 DEF TypeOK, WorkdirHolds, Unpack, Goto, Leave
    <3> QED
      BY <2>3, <3>1, <3>2, <3>3, <3>4
  <2>4. CASE PrepareFails(s) \/ CleanUp(s)
    <3>1. CASE PrepareFails(s)
      BY <2>1, <3>1 DEF TypeOK, WorkdirHolds, PrepareFails, Goto, Leave
    <3>2. CASE CleanUp(s)
      BY <2>1, <3>2 DEF TypeOK, WorkdirHolds, CleanUp, Goto, Leave
    <3> QED
      BY <2>4, <3>1, <3>2
  <2>5. CASE \/ Extract(s) \/ Analyzed(s) \/ SaveSummary(s) \/ SaveFindings(s) \/ Commit(s)
             \/ Raise(s) \/ Kill(s)
    BY <2>1, <2>5 DEF TypeOK, WorkdirHolds, Extract, Analyzed, SaveSummary, SaveFindings, Commit,
                      Raise, Kill, Goto
  <2> QED
    BY <1>3, <2>3, <2>4, <2>5 DEF Around
<1>4. ASSUME NEW s \in Scan, Cancel(s) PROVE WorkdirHolds'
  BY <1>4, CancelLeaves DEF IInv, TypeOK, WorkdirHolds
<1> QED
  BY <1>1, <1>2, <1>3, <1>4, Steps

\* codeql's directory: a step around the loop cannot be taken while there is
\* one, save the death of the process.
LEMMA ScratchNext ==
  ASSUME IInv, [Next]_vars
  PROVE  ScratchOfPhased'
<1>0. TypeOK /\ ScratchOfPhased
  BY DEF IInv
<1>1. CASE UNCHANGED vars
  BY <1>0, <1>1 DEF ScratchOfPhased, Running, vars, loop
<1>2. ASSUME NEW s \in Scan, Around(s) PROVE ScratchOfPhased'
  <2>1. UNCHANGED <<next, tool, scratch>>
    BY <1>2, AroundLeaves
  <2>2. \A r \in Scan \ {s} : pc'[r] = pc[r]
    BY <1>0, <1>2 DEF TypeOK, Around, Goto, MakeWorkdir, CopyDirectory, Fetch, Unpack, PrepareFails,
                      Extract, Analyzed, SaveSummary, SaveFindings, Commit, CleanUp, Raise, Kill
  <2>3. scratch[s] => pc'[s] = "killed"
    <3>1. scratch[s] => pc[s] \in {"analyze", "killed"} /\ next[s] <= Len(Analyzers) /\ next[s] \in 1..8
      BY <1>0, AnalyzersSeven DEF ScratchOfPhased, TypeOK
    <3>2. CASE Kill(s)
      BY <1>0, <3>2 DEF TypeOK, Kill, Goto
    <3>3. CASE Analyzed(s)
      BY <3>1, <3>3, AnalyzersSeven DEF Analyzed
    <3>4. CASE ~Kill(s) /\ ~Analyzed(s)
      BY <1>2, <3>1, <3>4 DEF Around, MakeWorkdir, CopyDirectory, Fetch, Unpack, PrepareFails,
                              Extract, SaveSummary, SaveFindings, Commit, CleanUp, Raise
    <3> QED
      BY <3>2, <3>3, <3>4
  <2> QED
    BY <1>0, <2>1, <2>2, <2>3 DEF ScratchOfPhased, Running
<1>3. ASSUME NEW s \in Scan, OneTool(s) PROVE ScratchOfPhased'
  <2>1. /\ pc[s] = "analyze" /\ next[s] <= Len(Analyzers) /\ UNCHANGED <<pc, next>>
    BY <1>3, OneToolLeaves
  <2>2. \A r \in Scan \ {s} : tool'[r] = tool[r] /\ scratch'[r] = scratch[r]
    BY <1>0, <1>3 DEF TypeOK, OneTool, MakeScratch, RunTool, ToolFails
  <2>3. tool'[s] # 0
    <3>1. CASE MakeScratch(s)
      BY <1>0, <3>1 DEF TypeOK, MakeScratch
    <3>2. CASE RunTool(s) \/ ToolFails(s)
      BY <1>0, <3>2, ToolAdvances DEF TypeOK
    <3> QED
      BY <1>3, <3>1, <3>2 DEF OneTool
  <2>4. scratch'[s] => scratch[s] \/ tool[s] = 0
    BY <1>0, <1>3 DEF TypeOK, OneTool, MakeScratch, RunTool, ToolFails
  <2> QED
    BY <1>0, <2>1, <2>2, <2>3, <2>4 DEF ScratchOfPhased, Running
<1>4. ASSUME NEW s \in Scan, OneAnalyzer(s) PROVE ScratchOfPhased'
  <2>1. UNCHANGED pc /\ Proceed(s)
    BY <1>4, OneAnalyzerLeaves
  <2>2. /\ \A r \in Scan \ {s} : next'[r] = next[r] /\ tool'[r] = tool[r] /\ scratch'[r] = scratch[r]
        /\ next'[s] = next[s] + 1 /\ tool'[s] = FirstTool(next[s] + 1) /\ scratch'[s] = FALSE
    BY <1>0, <2>1 DEF TypeOK, Proceed
  <2>3. tool'[s] = 0 => Phased(Analyzers[next'[s]])
    BY <2>2 DEF FirstTool
  <2> QED
    BY <1>0, <2>1, <2>2, <2>3 DEF ScratchOfPhased, Running
<1>5. ASSUME NEW s \in Scan, Cancel(s) PROVE ScratchOfPhased'
  <2>1. /\ scratch'[s] = FALSE
        /\ \A r \in Scan \ {s} : scratch'[r] = scratch[r] /\ pc'[r] = pc[r]
    BY <1>0, <1>5, CancelLeaves DEF TypeOK
  <2>2. UNCHANGED <<next, tool>> /\ \A r \in Scan : Running(r)' = Running(r)
    BY <1>5, CancelLeaves DEF Running
  <2> QED
    BY <1>0, <2>1, <2>2 DEF ScratchOfPhased
<1> QED
  BY <1>1, <1>2, <1>3, <1>4, <1>5, Steps

\* What the tools of the running analyzer have found: a tool that runs to its
\* end adds all it finds, one that fails is one of `failed`, and with codeql's
\* first phase the second one is not missed.
LEMMA HitsOfTool ==
  ASSUME IInv, NEW s \in Scan, RunTool(s) \/ ToolFails(s), packed[s] # "file",
         NEW i \in DOMAIN Tools(s), i < tool'[s], Unhurt(s, Running(s), Tools(s)[i])',
         NEW h \in HitsOf[Tools(s)[i]]
  PROVE  EvidenceKey(s, Tools(s)[i], h) \in hits'[s]
<1> DEFINE t == Tools(s)[tool[s]]
<1>1. TypeOK /\ WorkdirHolds /\ HitsKept
  BY DEF IInv
<1>2. AtTool(s)
  BY DEF RunTool, ToolFails
<1>3. /\ pc[s] = "analyze" /\ next[s] <= Len(Analyzers) /\ t \in Tool
      /\ tool[s] \in 1..Len(Tools(s)) /\ Len(Tools(s)) \in 0..3 /\ DOMAIN Tools(s) = 1..Len(Tools(s))
      /\ Running(s) \in Analyzer
  BY <1>1, <1>2, AtToolType, RunningType
<1>4. UNCHANGED <<next, onPath>> /\ Running(s)' = Running(s) /\ Tools(s)' = Tools(s)
  BY DEF RunTool, ToolFails, Running, Tools
<1>5. PICK H \in SUBSET HitsOf[t] :
        /\ Collect(s, t, H)
        /\ RunTool(s) => H = Finds(s, t)
  BY DEF RunTool, ToolFails, Finds
<1>6. hits'[s] = hits[s] \cup {EvidenceKey(s, t, g) : g \in H}
  BY <1>1, <1>5 DEF TypeOK, Collect
<1>7. RunTool(s) => H = HitsOf[t]
  <2>1. workdir[s] = "files"
    BY <1>1, <1>3 DEF WorkdirHolds
  <2> QED
    BY <1>5, <2>1 DEF Finds
<1>8. ToolFails(s) => failed'[s] = failed[s] \cup {t}
  BY <1>1 DEF TypeOK, ToolFails
<1>9. RunTool(s) => failed' = failed
  BY DEF RunTool
<1>10. /\ i \in Nat /\ tool[s] \in Nat
       /\ RunTool(s) => tool'[s] = tool[s] + 1
       /\ ToolFails(s) /\ ~Phased(Running(s)) => tool'[s] = tool[s] + 1
  BY <1>1, <1>3 DEF TypeOK, RunTool, ToolFails
<1>11. CASE i < tool[s]
  <2>1. Unhurt(s, Running(s), Tools(s)[i])
    BY <1>4, <1>8, <1>9 DEF Unhurt
  <2>2. EvidenceKey(s, Tools(s)[i], h) \in hits[s]
    BY <1>1, <1>3, <1>11, <2>1 DEF HitsKept
  <2> QED
    BY <1>6, <2>2
<1>12. CASE i = tool[s]
  <2>1. t \notin failed'[s]
    BY <1>4, <1>12 DEF Unhurt
  <2>2. RunTool(s)
    BY <1>8, <2>1
  <2> QED
    BY <1>6, <1>7, <1>12, <2>2
<1>13. CASE i > tool[s]
  <2>1. ToolFails(s) /\ Phased(Running(s))
    BY <1>10, <1>13
  <2>2. Tools(s) \in {<<>>, <<"create", "analyze">>}
    BY <1>3, <2>1, PhasedTools DEF Tools
  <2>3. Tools(s) = <<"create", "analyze">> /\ tool[s] = 1
    BY <1>3, <1>13, <2>2
  <2>4. t = "create"
    BY <2>3
  <2>5. "create" \notin failed'[s]
    BY <1>4, <2>1 DEF Unhurt
  <2> QED
    BY <1>8, <2>1, <2>4, <2>5
<1> QED
  BY <1>10, <1>11, <1>12, <1>13

LEMMA HitsNext ==
  ASSUME IInv, [Next]_vars
  PROVE  HitsKept'
<1>0. TypeOK /\ HitsKept
  BY DEF IInv
<1>1. ASSUME UNCHANGED <<packed, onPath, next, tool, hits, failed>> PROVE HitsKept'
  BY <1>0, <1>1 DEF HitsKept, Running, Tools, Unhurt, EvidenceKey
<1>2. ASSUME NEW s \in Scan, OneTool(s) PROVE HitsKept'
  <2>1. next[s] <= Len(Analyzers) /\ UNCHANGED <<next, onPath, packed>>
    BY <1>2, OneToolLeaves
  <2>2. \A r \in Scan : Running(r)' = Running(r) /\ Tools(r)' = Tools(r)
    BY <2>1 DEF Running, Tools
  <2>3. \A r \in Scan \ {s} : hits'[r] = hits[r] /\ tool'[r] = tool[r] /\ failed'[r] = failed[r]
    BY <1>0, <1>2 DEF TypeOK, OneTool, MakeScratch, RunTool, ToolFails, Collect
  <2>4. \A k \in hits'[s] : \E j \in DOMAIN Tools(s) : k.by = Tools(s)[j]
    <3>1. CASE MakeScratch(s)
      BY <1>0, <2>1, <3>1 DEF HitsKept, MakeScratch
    <3>2. CASE RunTool(s) \/ ToolFails(s)
      <4>1. AtTool(s)
        BY <3>2 DEF RunTool, ToolFails
      <4> DEFINE t == Tools(s)[tool[s]]
      <4>2. tool[s] \in DOMAIN Tools(s) /\ t \in Tool
        BY <1>0, <4>1, AtToolType
      <4>3. PICK H \in SUBSET HitsOf[t] : Collect(s, t, H)
        BY <3>2 DEF RunTool, ToolFails, Finds
      <4>4. hits'[s] = hits[s] \cup {EvidenceKey(s, t, h) : h \in H}
        BY <1>0, <4>3 DEF TypeOK, Collect
      <4>5. \A h \in H : EvidenceKey(s, t, h).by = t
        BY <4>2, EvidenceKeyType
      <4>6. \A k \in hits[s] : \E j \in DOMAIN Tools(s) : k.by = Tools(s)[j]
        BY <1>0, <2>1 DEF HitsKept
      <4> QED
        BY <4>2, <4>4, <4>5, <4>6
    <3> QED
      BY <1>2, <3>1, <3>2 DEF OneTool
  <2>5. ASSUME packed[s] # "file", NEW i \in DOMAIN Tools(s), i < tool'[s],
               Unhurt(s, Running(s), Tools(s)[i])', NEW h \in HitsOf[Tools(s)[i]]
        PROVE  EvidenceKey(s, Tools(s)[i], h) \in hits'[s]
    <3>1. CASE MakeScratch(s)
      <4>1. tool'[s] = 1 /\ i \in 1..Len(Tools(s)) /\ Len(Tools(s)) \in Nat
        BY <1>0, <2>1, <3>1, RunningType DEF TypeOK, MakeScratch
      <4> QED
        BY <2>5, <4>1
    <3>2. CASE RunTool(s) \/ ToolFails(s)
      BY <2>5, <3>2, HitsOfTool
    <3> QED
      BY <1>2, <3>1, <3>2 DEF OneTool
  <2> DEFINE Kept(r) ==
        next[r] <= Len(Analyzers) =>
          /\ \A k \in hits[r] : \E j \in DOMAIN Tools(r) : k.by = Tools(r)[j]
          /\ packed[r] # "file" =>
               \A i \in DOMAIN Tools(r) : i < tool[r] /\ Unhurt(r, Running(r), Tools(r)[i]) =>
                 \A h \in HitsOf[Tools(r)[i]] : EvidenceKey(r, Tools(r)[i], h) \in hits[r]
  <2>6. Kept(s)'
    BY <2>1, <2>2, <2>4, <2>5 DEF EvidenceKey
  <2>7. \A r \in Scan \ {s} : Kept(r)'
    BY <1>0, <2>1, <2>2, <2>3 DEF HitsKept, Unhurt, EvidenceKey
  <2> QED
    BY <2>6, <2>7 DEF HitsKept
<1>3. ASSUME NEW s \in Scan, OneAnalyzer(s) PROVE HitsKept'
  <2>1. Proceed(s) /\ UNCHANGED <<packed, onPath, failed>> /\ next[s] <= Len(Analyzers)
    BY <1>3, OneAnalyzerLeaves
  <2>2. /\ hits'[s] = {} /\ tool'[s] \in {0, 1} /\ next'[s] = next[s] + 1
        /\ \A r \in Scan \ {s} : hits'[r] = hits[r] /\ tool'[r] = tool[r] /\ next'[r] = next[r]
    BY <1>0, <2>1 DEF TypeOK, Proceed, FirstTool
  <2>3. ASSUME next'[s] <= Len(Analyzers), NEW i \in DOMAIN Tools(s)' PROVE ~ i < tool'[s]
    <3>1. next[s] \in 1..7 /\ next'[s] \in 1..7
      BY <1>0, <2>1, <2>2, <2>3, RunningType, AnalyzersSeven
    <3>2. Analyzers[next'[s]] \in Analyzer /\ Tools(s)' = ToolsOf(Analyzers[next'[s]], onPath')
      BY <3>1, AnalyzersSeven DEF Tools, Running
    <3>3. i \in Nat \ {0}
      BY <3>2, <2>3, ToolsBounded
    <3> QED
      BY <2>2, <3>3
  <2>4. \A r \in Scan \ {s} : Running(r)' = Running(r) /\ Tools(r)' = Tools(r)
    BY <2>1, <2>2 DEF Running, Tools
  <2> DEFINE Kept(r) ==
        next[r] <= Len(Analyzers) =>
          /\ \A k \in hits[r] : \E j \in DOMAIN Tools(r) : k.by = Tools(r)[j]
          /\ packed[r] # "file" =>
               \A i \in DOMAIN Tools(r) : i < tool[r] /\ Unhurt(r, Running(r), Tools(r)[i]) =>
                 \A h \in HitsOf[Tools(r)[i]] : EvidenceKey(r, Tools(r)[i], h) \in hits[r]
  <2>5. Kept(s)'
    BY <2>2, <2>3
  <2>6. \A r \in Scan \ {s} : Kept(r)'
    BY <1>0, <2>1, <2>2, <2>4 DEF HitsKept, Unhurt, EvidenceKey
  <2> QED
    BY <2>5, <2>6 DEF HitsKept
<1> QED
  BY <1>1, <1>2, <1>3, Steps, AroundLeaves, CancelLeaves DEF vars, loop

\* What survives the deduplication: a secret that gitleaks finds may go only
\* where trufflehog has found the same.
LEMMA DedupedKeeps ==
  ASSUME IInv, NEW s \in Scan, next[s] <= Len(Analyzers),
         NEW i \in DOMAIN Tools(s), NEW h \in HitsOf[Tools(s)[i]],
         EvidenceKey(s, Tools(s)[i], h) \in hits[s]
  PROVE  \E k \in Deduped(Running(s), hits[s]) :
           k.hit = h /\ \E j \in 1..i : k.by = Tools(s)[j]
<1> DEFINE K == EvidenceKey(s, Tools(s)[i], h)
<1>1. TypeOK /\ HitsKept
  BY DEF IInv
<1>2. Tools(s) \in Seq(Tool) /\ i \in 1..Len(Tools(s)) /\ Len(Tools(s)) \in 0..3 /\ i \in 1..i
  BY <1>1, RunningType
<1>3. K.hit = h /\ K.by = Tools(s)[i]
  BY <1>2, EvidenceKeyType
<1>4. CASE K \in Deduped(Running(s), hits[s])
  BY <1>2, <1>3, <1>4
<1>5. CASE K \notin Deduped(Running(s), hits[s])
  <2>1. PICK k \in hits[s] : k.by = "trufflehog" /\ k.hit = h
    BY <1>3, <1>5 DEF Deduped
  <2>2. Running(s) = "secret" /\ Tools(s)[i] = "gitleaks"
    BY <1>3, <1>5 DEF Deduped
  <2>3. PICK j \in DOMAIN Tools(s) : k.by = Tools(s)[j]
    BY <1>1 DEF HitsKept
  <2>4. j \in 1..i
    BY <2>1, <2>2, <2>3, TrufflehogFirst DEF Tools
  <2>5. k \in Deduped(Running(s), hits[s])
    BY <2>1 DEF Deduped
  <2> QED
    BY <2>1, <2>3, <2>4, <2>5
<1> QED
  BY <1>4, <1>5

LEMMA ResultNext ==
  ASSUME IInv, [Next]_vars
  PROVE  ResultKept'
<1>0. TypeOK /\ HitsKept /\ ResultKept
  BY DEF IInv
<1>1. ASSUME UNCHANGED <<packed, onPath, next, failed, crashed, result>> PROVE ResultKept'
  BY <1>0, <1>1 DEF ResultKept, Unhurt
<1>2. ASSUME NEW s \in Scan, OneTool(s) PROVE ResultKept'
  <2>1. UNCHANGED <<packed, onPath, next, crashed, result>>
    BY <1>2, OneToolLeaves
  <2>2. \A r \in Scan : failed[r] \subseteq failed'[r]
    BY <1>0, <1>2 DEF TypeOK, OneTool, MakeScratch, RunTool, ToolFails
  <2>3. \A r \in Scan : \A a, t : Unhurt(r, a, t)' => Unhurt(r, a, t)
    BY <2>2 DEF Unhurt
  <2> QED
    BY <1>0, <2>1, <2>3 DEF ResultKept
<1>3. ASSUME NEW s \in Scan, OneAnalyzer(s) PROVE ResultKept'
  <2>1. Proceed(s) /\ UNCHANGED <<packed, onPath, failed>> /\ next[s] <= Len(Analyzers)
    BY <1>3, OneAnalyzerLeaves
  <2>2. next'[s] = next[s] + 1 /\ \A r \in Scan \ {s} : next'[r] = next[r]
    BY <1>0, <2>1 DEF TypeOK, Proceed
  <2>3. /\ \A r \in Scan \ {s} : result'[r] = result[r] /\ crashed'[r] = crashed[r]
        /\ result[s] \subseteq result'[s] /\ crashed[s] \subseteq crashed'[s]
    BY <1>0, <1>3 DEF TypeOK, OneAnalyzer, AnalyzerDone, ToolRaises, AnalyzerCrash, Crash
  <2>4. ASSUME NEW i \in DOMAIN Tools(s), packed[s] # "file", Running(s) \notin crashed'[s],
               Unhurt(s, Running(s), Tools(s)[i]), NEW h \in HitsOf[Tools(s)[i]]
        PROVE  \E k \in result'[s] : k.hit = h /\ \E j \in 1..i : k.by = Tools(s)[j]
    <3>1. AnalyzerDone(s)
      BY <1>0, <1>3, <2>4 DEF TypeOK, OneAnalyzer, ToolRaises, AnalyzerCrash, Crash
    <3>2. i < tool[s]
      <4>1. i \in 1..Len(Tools(s)) /\ Len(Tools(s)) \in 0..3 /\ tool[s] \in 0..4
        BY <1>0, <2>1, RunningType DEF TypeOK
      <4>2. Tools(s) # <<>>
        BY <4>1
      <4> QED
        BY <3>1, <4>1, <4>2 DEF AnalyzerDone
    <3>3. EvidenceKey(s, Tools(s)[i], h) \in hits[s]
      BY <1>0, <2>1, <2>4, <3>2 DEF HitsKept
    <3>4. Deduped(Running(s), hits[s]) \subseteq result'[s]
      BY <1>0, <3>1 DEF TypeOK, AnalyzerDone
    <3> QED
      BY <2>1, <3>3, <3>4, DedupedKeeps
  <2>5. next[s] \in 1..7 /\ DOMAIN Analyzers = 1..7
    BY <1>0, <2>1, RunningType, AnalyzersSeven
  <2>6. \A n \in DOMAIN Analyzers : n < next'[s] => n < next[s] \/ n = next[s]
    BY <2>2, <2>5
  <2> DEFINE Kept(r, n) ==
        n < next[r] /\ Analyzers[n] \notin crashed[r] =>
          \A i \in DOMAIN ToolsOf(Analyzers[n], onPath) :
            LET T == ToolsOf(Analyzers[n], onPath) IN
              Unhurt(r, Analyzers[n], T[i]) =>
                \A h \in HitsOf[T[i]] : \E k \in result[r] : k.hit = h /\ \E j \in 1..i : k.by = T[j]
  <2>7. ASSUME NEW n \in DOMAIN Analyzers, packed[s] # "file" PROVE Kept(s, n)'
    <3>1. CASE n = next[s]
      BY <2>1, <2>4, <2>7, <3>1 DEF Tools, Running, Unhurt
    <3>2. CASE n < next[s]
      BY <1>0, <2>1, <2>3, <2>7, <3>2 DEF ResultKept, Unhurt
    <3> QED
      BY <2>6, <3>1, <3>2
  <2>8. ASSUME NEW r \in Scan \ {s}, NEW n \in DOMAIN Analyzers, packed[r] # "file" PROVE Kept(r, n)'
    BY <1>0, <2>1, <2>2, <2>3, <2>8 DEF ResultKept, Unhurt
  <2> QED
    BY <2>1, <2>7, <2>8 DEF ResultKept
<1> QED
  BY <1>1, <1>2, <1>3, Steps, AroundLeaves, CancelLeaves DEF vars, loop

\* From the loop's end to the commit nothing changes what a scan has found,
\* and whoever wrote the summary has left the loop for good.
LEMMA WrittenNext ==
  ASSUME IInv, [Next]_vars
  PROVE  ResultWritten' /\ SummaryMatchesFindings'
<1>0. TypeOK /\ ResultWritten /\ SummaryMatchesFindings
  BY DEF IInv
<1>1. CASE UNCHANGED vars
  BY <1>0, <1>1 DEF ResultWritten, SummaryMatchesFindings, vars, loop, db
<1>2. ASSUME NEW s \in Scan, OneTool(s) \/ OneAnalyzer(s)
      PROVE  ResultWritten' /\ SummaryMatchesFindings'
  <2>1. /\ pc[s] = "analyze" /\ UNCHANGED <<pc, summary, active, wrote>>
        /\ \A r \in Scan \ {s} : next'[r] = next[r] /\ result'[r] = result[r]
    <3>1. CASE OneTool(s)
      BY <3>1, OneToolLeaves
    <3>2. CASE OneAnalyzer(s)
      BY <1>0, <3>2, OneAnalyzerLeaves
         DEF TypeOK, OneAnalyzer, AnalyzerDone, ToolRaises, AnalyzerCrash, Crash, Proceed
    <3> QED
      BY <1>2, <3>1, <3>2
  <2>2. summary # s
    BY <1>0, <2>1 DEF ResultWritten, Ended
  <2> QED
    BY <1>0, <2>1, <2>2 DEF TypeOK, ResultWritten, SummaryMatchesFindings
<1>3. ASSUME NEW s \in Scan, Around(s) PROVE ResultWritten' /\ SummaryMatchesFindings'
  <2>1. UNCHANGED <<next, result>>
    BY <1>3, AroundLeaves
  <2>2. CASE Commit(s)
    <3>1. /\ summary' = s /\ pc'[s] = "clean_up" /\ wrote[s] = result[s]
          /\ \A r \in Scan \ {s} : pc'[r] = pc[r] /\ wrote'[r] = wrote[r]
          /\ \A k \in wrote[s] : active'[k] = s
      BY <1>0, <2>2 DEF TypeOK, ResultWritten, Commit, Goto
    <3>2. ResultWritten'
      BY <1>0, <2>1, <3>1 DEF ResultWritten, Ended
    <3>3. SummaryMatchesFindings'
      BY <2>1, <3>1 DEF SummaryMatchesFindings
    <3> QED
      BY <3>2, <3>3
  <2>3. CASE ~Commit(s)
    <3>1. UNCHANGED <<summary, active>> /\ \A r \in Scan \ {s} : wrote'[r] = wrote[r] /\ pc'[r] = pc[r]
      BY <1>0, <1>3, <2>3 DEF TypeOK, db, Goto, Around, MakeWorkdir, CopyDirectory, Fetch, Unpack,
         PrepareFails, Extract, Analyzed, SaveSummary, SaveFindings, CleanUp, Raise, Kill
    <3>2. pc[s] \in {"clean_up"} \cup Ended => pc'[s] \in {"clean_up"} \cup Ended
      BY <1>0, <1>3, <2>3 DEF TypeOK, Ended, Goto, Around, MakeWorkdir, CopyDirectory, Fetch, Unpack,
         PrepareFails, Extract, Analyzed, SaveSummary, SaveFindings, CleanUp, Raise, Kill
    <3>3. pc'[s] \in {"save_summary", "save_findings", "commit"} =>
            next[s] > Len(Analyzers) \/ pc[s] \in {"save_summary", "save_findings"}
      BY <1>0, <1>3, <2>3 DEF TypeOK, Ended, Goto, Around, MakeWorkdir, CopyDirectory, Fetch, Unpack,
         PrepareFails, Extract, Analyzed, SaveSummary, SaveFindings, CleanUp, Raise, Kill
    <3>4. pc'[s] = "commit" => wrote'[s] = result[s]
      BY <1>0, <1>3, <2>3 DEF TypeOK, Ended, Goto, Around, MakeWorkdir, CopyDirectory, Fetch, Unpack,
         PrepareFails, Extract, Analyzed, SaveSummary, SaveFindings, CleanUp, Raise, Kill
    <3>5. SummaryMatchesFindings'
      BY <1>0, <2>1, <3>1 DEF SummaryMatchesFindings
    <3>6. summary' # NoScan => pc'[summary'] \in {"clean_up"} \cup Ended
      BY <1>0, <3>1, <3>2 DEF TypeOK, ResultWritten
    <3>7. \A r \in Scan :
            /\ pc'[r] \in {"save_summary", "save_findings", "commit"} => next'[r] > Len(Analyzers)
            /\ pc'[r] = "commit" => wrote'[r] = result'[r]
      BY <1>0, <2>1, <3>1, <3>3, <3>4 DEF ResultWritten
    <3> QED
      BY <3>5, <3>6, <3>7 DEF ResultWritten
  <2> QED
    BY <2>2, <2>3
<1>4. ASSUME NEW s \in Scan, Cancel(s) PROVE ResultWritten' /\ SummaryMatchesFindings'
  <2>1. summary # s
    BY <1>0, <1>4, CancelLeaves DEF ResultWritten, Ended
  <2> QED
    BY <1>0, <1>4, <2>1, CancelLeaves DEF TypeOK, ResultWritten, SummaryMatchesFindings
<1> QED
  BY <1>1, <1>2, <1>3, <1>4, Steps

LEMMA INext == IInv /\ [Next]_vars => IInv'
BY TypeNext, WorkdirNext, ScratchNext, HitsNext, ResultNext, WrittenNext DEF IInv

\* The inductive invariant: where a scan's files are, what the running analyzer
\* has found and what those before it gave.
THEOREM ScanInvariant == Spec => []IInv
BY IInit, INext, PTL DEF Spec

\* However scans overlap and whatever fails, a scan that ends has removed its
\* workdir, and one that reads it has it.
THEOREM WorkdirsGone == Spec => []WorkdirsRemoved
<1>1. IInv => WorkdirsRemoved
  BY DEF IInv, WorkdirHolds, ScratchOfPhased, WorkdirsRemoved, NoDir
<1> QED
  BY <1>1, ScanInvariant, PTL

\* What a tool that has not failed finds is persisted, unless its own analyzer
\* raised or another of that analyzer's tools found the same.
THEOREM FailuresContained == Spec => []CrashesContained
<1>1. IInv => CrashesContained
  <2> SUFFICES ASSUME IInv, NEW s \in Scan, pc[s] = "commit", packed[s] # "file",
                      NEW a \in Analyzer, a \notin crashed[s], NEW i \in DOMAIN ToolsOf(a, onPath),
                      Unhurt(s, a, ToolsOf(a, onPath)[i]), NEW h \in HitsOf[ToolsOf(a, onPath)[i]]
               PROVE  \E k \in wrote[s] : k.hit = h /\ \E j \in 1..i : k.by = ToolsOf(a, onPath)[j]
    BY DEF CrashesContained, Unhurt
  <2>1. PICK n \in 1..7 : a = Analyzers[n]
    BY AnalyzersSeven
  <2>2. next[s] > 7 /\ wrote[s] = result[s] /\ next[s] \in Nat
    BY AnalyzersSeven DEF IInv, TypeOK, ResultWritten
  <2>3. n \in DOMAIN Analyzers /\ n < next[s]
    BY <2>2, AnalyzersSeven
  <2> QED
    BY <2>1, <2>2, <2>3 DEF IInv, ResultKept
<1> QED
  BY <1>1, ScanInvariant, PTL

\* The summary in the database and the active findings are of one scan, however
\* many scans of the version commit beside each other.
THEOREM SummaryAgrees == Spec => []SummaryMatchesFindings
<1>1. IInv => SummaryMatchesFindings
  BY DEF IInv
<1> QED
  BY <1>1, ScanInvariant, PTL
=============================================================================

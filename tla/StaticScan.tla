------------------------------ MODULE StaticScan ------------------------------
(***************************************************************************)
(* StaticAnalysisOrchestrator.run: unpack an artifact into a workdir of    *)
(* its own, run the extractors and then every analyzer on it, persist the  *)
(* summary and the findings in one transaction, remove the workdir.        *)
(*                                                                         *)
(* Scans of one version of one server overlap and repeat.  An analyzer     *)
(* runs its tools one after the other; what one of them fails to find is   *)
(* missing, an analyzer that raises is logged and passed over.  What is    *)
(* found is identified by an evidence_key, in which some tools put the     *)
(* path they print, and that lies in the scan's workdir.                   *)
(***************************************************************************)
EXTENDS StaticAnalyzers

CONSTANTS
  Scan,      \* also stands for the scan's workdir: mkdtemp names each anew
  Packed,    \* whether the artifact is a "directory", an "archive" or a "file"
  Installed, \* the sets of binaries that may be on PATH
  NoScan,
  MaxFails   \* bound: of everything that can fail, tools, disk, database, process

ASSUME NamesAssumption == NoScan \notin Scan
ASSUME InstalledAssumption == Installed \subseteq SUBSET Binary
ASSUME PackedAssumption == Packed \subseteq {"directory", "archive", "file"}
ASSUME BoundsAssumption == MaxFails \in Nat

VARIABLES
  pc,
  workdir,     \* what each scan's workdir holds: nothing, the artifact as it was
               \* fetched, its unpacked files; or it does not exist
  packed,      \* of the artifact each scan is given
  onPath,      \* the binaries installed where the scans run
  next,        \* the analyzer that runs
  tool,        \* its next tool; 0 before a phased one has its directory
  hits,        \* the evidence_keys it has found so far
  scratch,     \* whether its directory exists
  failed,      \* the tools that gave less than they find
  crashed,     \* the analyzers that raised
  result,      \* the evidence_keys of the analyzers that are done
  summary,     \* static_summaries: who wrote it
  summaryLock, \* who holds its row
  active,      \* active findings: which scan wrote the one of each key
  wrote,       \* the keys a scan has written, uncommitted
  fails

db == <<summary, summaryLock, active, wrote>>
loop == <<next, tool, hits, scratch, failed, crashed, result>>
vars == <<pc, workdir, packed, onPath, loop, db, fails>>

NoDir == "none"
Ended == {"returned", "raised", "killed"}
Key == {k \in [by : Tool, hit : Hit, path : Scan \cup {NoScan}] : k.hit \in HitsOf[k.by]}

Init ==
  /\ pc = [s \in Scan |-> "begin"]
  /\ workdir = [s \in Scan |-> NoDir]
  /\ packed \in [Scan -> Packed]
  /\ onPath \in Installed
  /\ next = [s \in Scan |-> 1]
  /\ tool = [s \in Scan |-> 1]
  /\ hits = [s \in Scan |-> {}]
  /\ scratch = [s \in Scan |-> FALSE]
  /\ failed = [s \in Scan |-> {}]
  /\ crashed = [s \in Scan |-> {}]
  /\ result = [s \in Scan |-> {}]
  /\ summary = NoScan
  /\ summaryLock = NoScan
  /\ active = [k \in Key |-> NoScan]
  /\ wrote = [s \in Scan |-> {}]
  /\ fails = 0

Goto(s, label) == pc' = [pc EXCEPT ![s] = label]
Leave(s, content) == workdir' = [workdir EXCEPT ![s] = content]
Failure == fails < MaxFails /\ fails' = fails + 1

-----------------------------------------------------------------------------
MakeWorkdir(s) ==
  /\ pc[s] = "begin"
  /\ Leave(s, "empty")
  /\ Goto(s, IF packed[s] = "directory" THEN "copy" ELSE "fetch")
  /\ UNCHANGED <<packed, onPath, loop, db, fails>>

CopyDirectory(s) ==
  /\ pc[s] = "copy"
  /\ Leave(s, "files")
  /\ Goto(s, "extract")
  /\ UNCHANGED <<packed, onPath, loop, db, fails>>

Fetch(s) ==
  /\ pc[s] = "fetch"
  /\ Leave(s, "artifact")
  /\ Goto(s, "unpack")
  /\ UNCHANGED <<packed, onPath, loop, db, fails>>

\* The artifact is removed once it is unpacked, and also when it was a single
\* file and there was nothing to unpack.
Unpack(s) ==
  /\ pc[s] = "unpack"
  /\ Leave(s, IF packed[s] = "archive" THEN "files" ELSE "empty")
  /\ Goto(s, "extract")
  /\ UNCHANGED <<packed, onPath, loop, db, fails>>

\* Faulty: only a scan that got that far cleans up.
RaiseUncleaned(s) ==
  /\ pc[s] \in {"copy", "fetch", "unpack"}
  /\ Failure
  /\ Goto(s, "raised")
  /\ UNCHANGED <<workdir, packed, onPath, loop, db>>

\* ArtifactTooLarge and whatever else prepare raises.
PrepareFails(s) ==
  /\ pc[s] \in {"copy", "fetch", "unpack"}
  /\ Failure
  /\ Leave(s, NoDir)
  /\ Goto(s, "raised")
  /\ UNCHANGED <<packed, onPath, loop, db>>

Extract(s) ==
  /\ pc[s] = "extract"
  /\ Goto(s, "analyze")
  /\ UNCHANGED <<workdir, packed, onPath, loop, db, fails>>

-----------------------------------------------------------------------------
Running(s) == Analyzers[next[s]]
Tools(s) == ToolsOf(Running(s), onPath)
Analyzing(s) == pc[s] = "analyze" /\ next[s] <= Len(Analyzers)
AtTool(s) == Analyzing(s) /\ tool[s] \in 1..Len(Tools(s))

FirstTool(i) == IF i \in DOMAIN Analyzers /\ Phased(Analyzers[i]) THEN 0 ELSE 1

\* Faulty: a scanner that names no file has None put in the key.
EvidenceKeyUnchecked(s, t, h) ==
  [by |-> t, hit |-> h, path |-> IF NamesPath(t) THEN "None" ELSE NoScan]

EvidenceKey(s, t, h) == [by |-> t, hit |-> h, path |-> IF NamesPath(t) THEN s ELSE NoScan]

Finds(s, t) == IF workdir[s] = "files" THEN HitsOf[t] ELSE {}
Collect(s, t, H) == hits' = [hits EXCEPT ![s] = @ \cup {EvidenceKey(s, t, h) : h \in H}]

\* codeql: only if it is there and knows the language is a directory made.
MakeScratch(s) ==
  /\ Analyzing(s) /\ tool[s] = 0 /\ Tools(s) # <<>>
  /\ scratch' = [scratch EXCEPT ![s] = TRUE]
  /\ tool' = [tool EXCEPT ![s] = 1]
  /\ UNCHANGED <<pc, workdir, packed, onPath, next, hits, failed, crashed, result, db, fails>>

RunTool(s) ==
  /\ AtTool(s)
  /\ LET t == Tools(s)[tool[s]] IN
       /\ ~SemgrepRaises(t, onPath) /\ ~OsvRaises(t, Finds(s, t))
       /\ Collect(s, t, Finds(s, t))
  /\ tool' = [tool EXCEPT ![s] = @ + 1]
  /\ UNCHANGED <<pc, workdir, packed, onPath, next, scratch, failed, crashed, result, db, fails>>

\* Faulty: the analyzer returns as soon as one of its tools has failed.
FailedToolReturns(s) ==
  /\ AtTool(s)
  /\ Failure
  /\ LET t == Tools(s)[tool[s]] IN
       /\ \E H \in Salvaged(t) : Collect(s, t, H)
       /\ failed' = [failed EXCEPT ![s] = @ \cup {t}]
  /\ tool' = [tool EXCEPT ![s] = Len(Tools(s)) + 1]
  /\ UNCHANGED <<pc, workdir, packed, onPath, next, scratch, crashed, result, db>>

\* The tool times out, and is killed and waited for, or its output is of no use.
ToolFails(s) ==
  /\ AtTool(s)
  /\ Failure
  /\ LET t == Tools(s)[tool[s]] IN
       /\ t \notin InProcess /\ ~SemgrepRaises(t, onPath)
       /\ \E H \in Salvaged(t) \cap SUBSET Finds(s, t) : Collect(s, t, H)
       /\ failed' = [failed EXCEPT ![s] = @ \cup {t}]
  /\ tool' = [tool EXCEPT ![s] = IF Phased(Running(s)) THEN Len(Tools(s)) + 1 ELSE @ + 1]
  /\ UNCHANGED <<pc, workdir, packed, onPath, next, scratch, crashed, result, db>>

\* On to the next analyzer; the directory goes in a finally clause.
Proceed(s) ==
  /\ next' = [next EXCEPT ![s] = @ + 1]
  /\ tool' = [tool EXCEPT ![s] = FirstTool(next[s] + 1)]
  /\ hits' = [hits EXCEPT ![s] = {}]
  /\ scratch' = [scratch EXCEPT ![s] = FALSE]
  /\ UNCHANGED <<pc, workdir, packed, onPath, failed, db>>

AnalyzerDone(s) ==
  /\ Analyzing(s)
  /\ tool[s] > Len(Tools(s)) \/ Tools(s) = <<>>
  /\ result' = [result EXCEPT ![s] = @ \cup Deduped(Running(s), hits[s])]
  /\ Proceed(s)
  /\ UNCHANGED <<crashed, fails>>

Crash(s) ==
  /\ crashed' = [crashed EXCEPT ![s] = @ \cup {Running(s)}]
  /\ Proceed(s)
  /\ UNCHANGED result

\* Without any failure: what the two named predicates say.
ToolRaises(s) ==
  /\ AtTool(s)
  /\ LET t == Tools(s)[tool[s]] IN SemgrepRaises(t, onPath) \/ OsvRaises(t, Finds(s, t))
  /\ Crash(s)
  /\ UNCHANGED fails

\* Output of an unexpected shape, a file that cannot be read.
AnalyzerCrash(s) ==
  /\ AtTool(s)
  /\ Failure
  /\ Crash(s)

\* The scan is cancelled while it waits for a scanner.  CancelledError is no
\* Exception: _run_analyzers lets it pass, the finally clauses run.
Cancel(s) ==
  /\ AtTool(s)
  /\ LET t == Tools(s)[tool[s]] IN t \notin InProcess /\ ~SemgrepRaises(t, onPath)
  /\ Failure
  /\ scratch' = [scratch EXCEPT ![s] = FALSE]
  /\ Goto(s, "clean_up_raising")
  /\ UNCHANGED <<workdir, packed, onPath, next, tool, hits, failed, crashed, result, db>>

Analyzed(s) ==
  /\ pc[s] = "analyze" /\ next[s] > Len(Analyzers)
  /\ Goto(s, "save_summary")
  /\ UNCHANGED <<workdir, packed, onPath, loop, db, fails>>

-----------------------------------------------------------------------------
\* Faulty: the summary has a session of its own.
SaveSummaryAutocommit(s) ==
  /\ pc[s] = "save_summary"
  /\ summaryLock = NoScan
  /\ summary' = s
  /\ summaryLock' = s
  /\ Goto(s, "save_findings")
  /\ UNCHANGED <<workdir, packed, onPath, loop, active, wrote, fails>>

\* The upsert takes the row of static_summaries until the transaction ends.
SaveSummary(s) ==
  /\ pc[s] = "save_summary"
  /\ summaryLock = NoScan
  /\ summaryLock' = s
  /\ Goto(s, "save_findings")
  /\ UNCHANGED <<workdir, packed, onPath, loop, summary, active, wrote, fails>>

SaveFindings(s) ==
  /\ pc[s] = "save_findings"
  /\ wrote' = [wrote EXCEPT ![s] = result[s]]
  /\ Goto(s, "commit")
  /\ UNCHANGED <<workdir, packed, onPath, loop, summary, summaryLock, active, fails>>

Unlock(s) == summaryLock' = IF summaryLock = s THEN NoScan ELSE summaryLock

\* Each finding takes the place of the active one with its key.
Commit(s) ==
  /\ pc[s] = "commit"
  /\ summary' = s
  /\ active' = [k \in Key |-> IF k \in wrote[s] THEN s ELSE active[k]]
  /\ wrote' = [wrote EXCEPT ![s] = {}]
  /\ Unlock(s)
  /\ Goto(s, "clean_up")
  /\ UNCHANGED <<workdir, packed, onPath, loop, fails>>

CleanUp(s) ==
  /\ pc[s] \in {"clean_up", "clean_up_raising"}
  /\ Leave(s, NoDir)
  /\ Goto(s, IF pc[s] = "clean_up" THEN "returned" ELSE "raised")
  /\ UNCHANGED <<packed, onPath, loop, db, fails>>

\* An extractor raises, a statement of the transaction fails or is cancelled.
Raise(s) ==
  /\ pc[s] \in {"extract", "save_summary", "save_findings", "commit"}
  /\ Failure
  /\ wrote' = [wrote EXCEPT ![s] = {}]
  /\ Unlock(s)
  /\ Goto(s, "clean_up_raising")
  /\ UNCHANGED <<workdir, packed, onPath, loop, summary, active>>

Kill(s) ==
  /\ pc[s] \notin Ended \cup {"begin"}
  /\ Failure
  /\ wrote' = [wrote EXCEPT ![s] = {}]
  /\ Unlock(s)
  /\ Goto(s, "killed")
  /\ UNCHANGED <<workdir, packed, onPath, loop, summary, active>>

-----------------------------------------------------------------------------
Step(s) ==
  \/ MakeWorkdir(s) \/ CopyDirectory(s) \/ Fetch(s) \/ Unpack(s) \/ Extract(s)
  \/ MakeScratch(s) \/ RunTool(s) \/ ToolRaises(s) \/ AnalyzerDone(s) \/ Analyzed(s)
  \/ SaveSummary(s) \/ SaveFindings(s) \/ Commit(s) \/ CleanUp(s)

AllEnded == (\A s \in Scan : pc[s] \in Ended) /\ UNCHANGED vars

Next ==
  \/ \E s \in Scan :
       \/ Step(s)
       \/ PrepareFails(s) \/ ToolFails(s) \/ AnalyzerCrash(s) \/ Cancel(s) \/ Raise(s) \/ Kill(s)
  \/ AllEnded

Spec == Init /\ [][Next]_vars

-----------------------------------------------------------------------------
TypeOK ==
  /\ pc \in [Scan -> {"begin", "copy", "fetch", "unpack", "extract", "analyze", "save_summary",
                      "save_findings", "commit", "clean_up", "clean_up_raising"} \cup Ended]
  /\ workdir \in [Scan -> {NoDir, "empty", "artifact", "files"}]
  /\ packed \in [Scan -> Packed]
  /\ next \in [Scan -> 1..(Len(Analyzers) + 1)]
  /\ onPath \in Installed
  /\ tool \in [Scan -> 0..4]
  /\ hits \in [Scan -> SUBSET Key]
  /\ scratch \in [Scan -> BOOLEAN]
  /\ failed \in [Scan -> SUBSET Tool]
  /\ crashed \in [Scan -> SUBSET Analyzer]
  /\ result \in [Scan -> SUBSET Key]
  /\ summary \in Scan \cup {NoScan}
  /\ summaryLock \in Scan \cup {NoScan}
  /\ active \in [Key -> Scan \cup {NoScan}]
  /\ wrote \in [Scan -> SUBSET Key]
  /\ fails \in 0..MaxFails

\* However a scan ends - unless its process dies - its workdir is gone, and it
\* is there as long as something reads it; codeql's directory goes when it is
\* done, whichever of its phases fails.
WorkdirsRemoved ==
  \A s \in Scan :
    /\ pc[s] \in {"begin", "returned", "raised"} => workdir[s] = NoDir
    /\ pc[s] \in {"extract", "analyze"} => workdir[s] # NoDir
    /\ scratch[s] => pc[s] \in {"analyze", "killed"} /\ Phased(Running(s))

\* A tool that fails costs its own findings only, an analyzer that raises its
\* own tools': the scan persists what all the others find in the artifact.
CrashesContained ==
  \A s \in Scan : pc[s] = "commit" /\ packed[s] # "file" =>
    \A a \in Analyzer \ crashed[s] : \A i \in DOMAIN ToolsOf(a, onPath) :
      LET t == ToolsOf(a, onPath)[i] IN
        t \notin failed[s] /\ (Phased(a) => "create" \notin failed[s]) =>
          \A h \in HitsOf[t] : \E k \in wrote[s] :
            k.hit = h /\ \E j \in 1..i : k.by = ToolsOf(a, onPath)[j]

\* The summary the semantic layer loads and the findings it scores belong
\* together: all that the summary's scan found is active and its own.
SummaryMatchesFindings ==
  summary # NoScan => \A k \in result[summary] : active[k] = summary

\* What makes these inductive: what the workdir holds where it is read, ...
WorkdirHolds ==
  \A s \in Scan :
    /\ pc[s] \in {"begin", "returned", "raised"} => workdir[s] = NoDir
    /\ pc[s] \in {"fetch", "unpack"} => packed[s] # "directory"
    /\ pc[s] = "copy" => packed[s] = "directory"
    /\ pc[s] \in {"extract", "analyze"} =>
         workdir[s] = IF packed[s] = "file" THEN "empty" ELSE "files"

\* ... that codeql alone has a directory, while it runs or was killed, ...
ScratchOfPhased ==
  \A s \in Scan :
    /\ next[s] <= Len(Analyzers) /\ tool[s] = 0 => Phased(Running(s))
    /\ scratch[s] => pc[s] \in {"analyze", "killed"} /\ next[s] <= Len(Analyzers) /\ Phased(Running(s))

\* ... that the running analyzer holds what its tools have found, ...
Unhurt(s, a, t) == t \notin failed[s] /\ (Phased(a) => "create" \notin failed[s])

HitsKept ==
  \A s \in Scan : next[s] <= Len(Analyzers) =>
    /\ \A k \in hits[s] : \E j \in DOMAIN Tools(s) : k.by = Tools(s)[j]
    /\ packed[s] # "file" =>
         \A i \in DOMAIN Tools(s) : i < tool[s] /\ Unhurt(s, Running(s), Tools(s)[i]) =>
           \A h \in HitsOf[Tools(s)[i]] : EvidenceKey(s, Tools(s)[i], h) \in hits[s]

\* ... the result what those before it did, ...
ResultKept ==
  \A s \in Scan : packed[s] # "file" =>
    \A n \in DOMAIN Analyzers : n < next[s] /\ Analyzers[n] \notin crashed[s] =>
      \A i \in DOMAIN ToolsOf(Analyzers[n], onPath) :
        LET T == ToolsOf(Analyzers[n], onPath) IN
          Unhurt(s, Analyzers[n], T[i]) =>
            \A h \in HitsOf[T[i]] : \E k \in result[s] : k.hit = h /\ \E j \in 1..i : k.by = T[j]

\* ... and that it is complete and written whole before it is committed.
ResultWritten ==
  /\ \A s \in Scan :
       /\ pc[s] \in {"save_summary", "save_findings", "commit"} => next[s] > Len(Analyzers)
       /\ pc[s] = "commit" => wrote[s] = result[s]
  /\ summary # NoScan => pc[summary] \in {"clean_up"} \cup Ended

IInv ==
  /\ TypeOK
  /\ WorkdirHolds /\ ScratchOfPhased
  /\ HitsKept /\ ResultKept /\ ResultWritten
  /\ SummaryMatchesFindings

\* docs: a piece of evidence is active once; a repeated scan supersedes it.
EvidenceActiveOnce ==
  \A j, k \in Key :
    j.by = k.by /\ j.hit = k.hit /\ active[j] # NoScan /\ active[k] # NoScan => j = k

\* docs: known vulnerabilities of the dependencies are reported.
VulnerabilitiesReported ==
  \A s \in Scan : pc[s] = "commit" /\ packed[s] # "file" =>
    \A t \in {"osv", "npm", "pip"} \ failed[s] : \A h \in HitsOf[t] :
      t \in onPath => \E k \in wrote[s] : k.by = t /\ k.hit = h
=============================================================================

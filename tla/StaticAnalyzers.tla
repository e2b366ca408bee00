--------------------------- MODULE StaticAnalyzers ---------------------------
(***************************************************************************)
(* What the analyzers of a static scan (static_analysis/analyzers/) start, *)
(* and what they make of the output.                                       *)
(*                                                                         *)
(* A tool is an external scanner, a phase of one, or an analyzer that      *)
(* works in the process.  What a tool finds in the artifact is given; a    *)
(* hit is what tells findings apart, their ratings and texts are left out. *)
(***************************************************************************)
EXTENDS Naturals, Sequences, FiniteSets

CONSTANTS
  HitsOf,    \* what each tool finds in the artifact
  Manifests, \* of package.json and requirements.txt, those in its root
  Language   \* its primary_lang

Analyzers == <<"manifest", "obfuscation", "semgrep", "secret", "sca", "codeql", "reputation">>
Analyzer == {Analyzers[i] : i \in DOMAIN Analyzers}
Tool == {"manifest", "obfuscation", "semgrep", "trufflehog", "gitleaks", "osv", "npm", "pip",
         "create", "analyze"}
InProcess == {"manifest", "obfuscation"}
Binary == {"semgrep", "trufflehog", "gitleaks", "osv", "npm", "pip", "codeql"}

ASSUME ArtifactAssumption ==
  /\ HitsOf = [t \in Tool |-> HitsOf[t]] /\ HitsOf["create"] = {}
  /\ Manifests \subseteq {"package.json", "requirements.txt"}
Hit == UNION {HitsOf[t] : t \in Tool}

-----------------------------------------------------------------------------
\* The tools an analyzer starts, given the binaries that are on PATH.
Where(condition, t) == IF condition THEN <<t>> ELSE <<>>

SecretTools(binaries) ==
  Where("trufflehog" \in binaries, "trufflehog") \o Where("gitleaks" \in binaries, "gitleaks")

ScaTools(binaries) ==
  Where("osv" \in binaries, "osv")
    \o Where("package.json" \in Manifests /\ "npm" \in binaries, "npm")
    \o Where("requirements.txt" \in Manifests /\ "pip" \in binaries, "pip")

CodeqlTools(binaries) ==
  IF "codeql" \in binaries /\ Language \in {"python", "javascript", "typescript", "java", "go"}
  THEN <<"create", "analyze">> ELSE <<>>

\* sca_deps has no entries: the one line that would add some raises.
ReputationTools == <<>>

ToolsOf(a, binaries) ==
  CASE a = "secret" -> SecretTools(binaries)
    [] a = "sca" -> ScaTools(binaries)
    [] a = "codeql" -> CodeqlTools(binaries)
    [] a = "reputation" -> ReputationTools
    [] OTHER -> <<a>>

\* The database goes into a directory of its own, and nothing is analyzed
\* unless it could be created.
Phased(a) == a = "codeql"

-----------------------------------------------------------------------------
\* The rule scanner is started without a look at PATH.
SemgrepRaises(t, binaries) == t = "semgrep" /\ t \notin binaries

\* `context` is not defined in _osv.
OsvRaises(t, H) == t = "osv" /\ H # {}

\* A timeout, a bad return code or output that cannot be parsed gives no hits;
\* trufflehog's output is read line by line, and good lines count.
TrufflehogSalvages(H) == SUBSET H
Salvaged(t) == IF t = "trufflehog" THEN TrufflehogSalvages(HitsOf[t]) ELSE {{}}

\* Those whose evidence_key holds the path the tool prints.
NamesPath(t) == t \in {"semgrep", "trufflehog", "gitleaks"}

\* _dedupe: both secret scanners may find the same secret, the first one's
\* finding stays; the keys of sca's tools never coincide.
Deduped(a, found) ==
  {k \in found : ~ (/\ a = "secret" /\ k.by = "gitleaks"
                    /\ \E j \in found : j.by = "trufflehog" /\ j.hit = k.hit)}
=============================================================================

------------------------------ MODULE Weights ------------------------------
(***************************************************************************)
(* The default weight tables (risk_scoring/weights.py) in tenths, the      *)
(* class of a detector, what a YAML file does to the tables, and the       *)
(* default rules of cross_validator.py.                                    *)
(***************************************************************************)
EXTENDS Naturals, TLC

DefaultSeverityWeights ==
  [critical |-> 100, high |-> 50, medium |-> 20, low |-> 5, info |-> 1]

DefaultClassWeights ==
     "static:semgrep" :> 10 @@ "static:codeql" :> 12 @@ "static:secret" :> 15
  @@ "static:sca" :> 8 @@ "static:manifest" :> 10 @@ "static:reputation" :> 6
  @@ "static:obfuscation" :> 12
  @@ "semantic:char" :> 15 @@ "semantic:tpa-rule" :> 12 @@ "semantic:tpa-llm" :> 15
  @@ "semantic:shadowing" :> 10 @@ "semantic:schema-code" :> 20
  @@ "semantic:toxic-flow" :> 15 @@ "semantic:untrusted" :> 8
  @@ "runtime:version-diff" :> 20 @@ "runtime:remote-targeted" :> 30
  @@ "runtime:namespace" :> 20 @@ "runtime:commit-anomaly" :> 15
  @@ "network:dynamic-egress" :> 25 @@ "network:dynamic-fs" :> 20
  @@ "network:protocol-anomaly" :> 15

\* The class of each head, the part of a detector's name before the first ":".
DetectorClass ==
     "semgrep" :> "static:semgrep" @@ "codeql" :> "static:codeql"
  @@ "secret" :> "static:secret" @@ "sca" :> "static:sca"
  @@ "manifest" :> "static:manifest" @@ "obfuscation" :> "static:obfuscation"
  @@ "reputation" :> "static:reputation"
  @@ "char" :> "semantic:char" @@ "tpa-rule" :> "semantic:tpa-rule"
  @@ "tpa-llm" :> "semantic:tpa-llm" @@ "shadow" :> "semantic:shadowing"
  @@ "llm" :> "semantic:schema-code" @@ "toxic-flow" :> "semantic:toxic-flow"
  @@ "untrusted-content" :> "semantic:untrusted"
  @@ "version-diff" :> "runtime:version-diff" @@ "remote" :> "runtime:remote-targeted"
  @@ "ns" :> "runtime:namespace" @@ "git" :> "runtime:commit-anomaly"
  @@ "dynamic-egress" :> "network:dynamic-egress" @@ "dynamic-fs" :> "network:dynamic-fs"
  @@ "protocol" :> "network:protocol-anomaly"

ClassOf(head) == IF head \in DOMAIN DetectorClass THEN DetectorClass[head] ELSE "unknown"

\* A file overrides the entries it has and leaves the others alone.
Loaded(override, default) == override @@ default

Lookup(table, key, missing) == IF key \in DOMAIN table THEN table[key] ELSE missing

\* Each predicate of a rule as the detectors that satisfy it, its boost in tenths;
\* a rest that a regular expression matches is cut to what the expression fixes.
DefaultRules ==
  {[require |-> {{<<"llm", "schema-code-inconsistency">>},
                 {<<"dynamic-egress", "undeclared-domain">>}}, boost |-> 3],
   [require |-> {{<<"version-diff", "bcc">>},
                 {<<"dynamic-egress", "undeclared-domain">>}}, boost |-> 5],
   [require |-> {{<<"tpa-rule", "tool-poisoning">>}, {<<"tpa-llm", "">>}}, boost |-> 2]}
=============================================================================

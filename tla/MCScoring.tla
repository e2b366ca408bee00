----------------------------- MODULE MCScoring -----------------------------
EXTENDS Scoring, TLC

CONSTANTS e1, e2, e3, e4, e5, bcc, tls, tpa, rule, schema

W == INSTANCE Weights

Finding(head, rest, sev, conf) ==
  [detector |-> <<head, rest>>, severity |-> sev, confidence |-> conf]

\* Findings the detectors of the repository report: terminal escapes in up to
\* five tools, a doubtful code pattern, a self-signed certificate, and what a
\* model and a text rule make of a description.
Kinds == [r \in {e1, e2, e3, e4, e5, bcc, tls, tpa, rule, schema} |->
  CASE r = bcc    -> Finding("semgrep", "bcc-silent-exfil", "high", 50)
    [] r = tls    -> Finding("remote", "tls-self-signed", "high", 95)
    [] r = tpa    -> Finding("tpa-llm", "", "critical", 80)
    [] r = rule   -> Finding("tpa-rule", "tool-poisoning", "medium", 65)
    [] r = schema -> Finding("llm", "schema-code-inconsistency", "critical", 90)
    [] OTHER      -> Finding("char", "ansi-escape", "medium", 90)]

DefaultRules == W!DefaultRules
DefaultSeverity == W!DefaultSeverityWeights
DefaultWeightOf(head) == W!Lookup(W!DefaultClassWeights, W!ClassOf(head), 10)

\* The tables of the code are of the kind the theorems are about.
ASSUME DefaultsNonNegative == NonNegative

Tools == {e1, e2, e3, e4, e5}
Symmetric == Permutations(Tools)
=============================================================================

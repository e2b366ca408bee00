--------------------------- MODULE MCRiskPipeline ---------------------------
EXTENDS RiskPipeline

CONSTANTS s1, s2, f1, f2, f3, i1, i2, c, w

\* Two findings of s1, one of s2; in the small instances one of each.
Owner == [f \in Row |-> IF f \in {f1, f2} THEN s1 ELSE s2]
=============================================================================

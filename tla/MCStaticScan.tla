----------------------------- MODULE MCStaticScan -----------------------------
(* Two scans of a python package with a package.json, which holds something
   for a tool of each kind to find; both secret scanners find one secret. *)
EXTENDS StaticScan, TLC

CONSTANTS s1, s2

MCHitsOf == [t \in Tool |->
  CASE t = "manifest" -> {"npm-hook"}
    [] t = "semgrep" -> {"exec"}
    [] t = "trufflehog" -> {"aws"}
    [] t = "gitleaks" -> {"aws", "jwt"}
    [] t = "osv" -> {"CVE"}
    [] t = "npm" -> {"lodash"}
    [] t = "analyze" -> {"CWE-78"}
    [] OTHER -> {}]

ScanSymmetry == Permutations(Scan)

AllInstalled == {Binary}
Installations == {Binary, Binary \ {"osv"}, {"npm", "trufflehog"}}
=============================================================================

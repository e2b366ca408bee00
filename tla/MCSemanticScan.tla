--------------------------- MODULE MCSemanticScan ---------------------------
(* Runs on a server of two tools: one reads what should stay inside and says
   so to the model only, the other sends to the outside.  A third tool, of a
   server scanned before, has the name and the words of the first.  One run
   is for a version whose code has been analyzed. *)
EXTENDS SemanticScan

CONSTANTS s1, s2, here, there, reader, sender, twin

MCServerOf == [x \in Tool \cup Scan |-> IF x = twin THEN there ELSE here]
MCNameOf == [t \in Tool |-> IF t = sender THEN "send" ELSE "read"]
MCAlike == {{reader, twin}}
MCCapsOf == [t \in Tool |-> IF t = sender THEN {"http_post"} ELSE {"read_file"}]
MCVerdictOf == [t \in {reader} |-> "malicious"]
MCScoreOf == [t \in {reader, sender} |-> IF t = reader THEN 100 ELSE 39]
MCHandled == [s \in Scan |-> IF s = s1 THEN Name ELSE {}]

\* A server whose two rows are an older and a newer observation of one tool.
OneName == [t \in Tool |-> "read"]

\* Two servers scanned at the same time, with the same tool.
EachItsOwn == [x \in Tool \cup Scan |-> IF x \in {twin, s2} THEN there ELSE here]
=============================================================================

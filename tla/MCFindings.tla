----------------------------- MODULE MCFindings -----------------------------
EXTENDS Findings

CONSTANTS t1, t2, t3, a, b, summary

\* Two scans of one server on the same two evidence points, in either order,
\* with one point found twice, or with nothing found; none takes a guard.
UnguardedOf == [t \in Txn |-> NoLock]
AnyBatch == [t \in Txn |-> {<<>>, <<a>>, <<a, a>>, <<a, b>>, <<b, a>>}]

\* t1 and t2 upsert the same static_summaries row, t3 is a semantic scan with
\* findings of its own or, in the opposite order, of theirs as well.
MixedOf == [t \in Txn |-> IF t = t3 THEN NoLock ELSE summary]
MixedBatches == [t \in Txn |-> IF t = t3 THEN {<<b>>, <<b, a>>} ELSE {<<a, b>>, <<a>>}]
=============================================================================

---------------------------- MODULE FindingStore ----------------------------
(***************************************************************************)
(* What the findings table promises its readers (the aggregator, the API): *)
(* a scan publishes all of its findings in one step or none, a published   *)
(* finding replaces the active one of its key, and analysts change one row *)
(* at a time.                                                              *)
(***************************************************************************)
CONSTANTS Row, Key

VARIABLES
  keys,    \* keys[r]: the key of row r, as a set of at most one
  status   \* committed status of each row

Verdict == {"suppressed", "confirmed", "false_positive"}

Init == status = [r \in Row |-> "none"]

\* The new rows W become visible together; the newest of each key is active and
\* every earlier active row of these keys is superseded.
Publish(W, newest) ==
  /\ newest \subseteq W
  /\ \A r \in W : status[r] = "none" /\ \E n \in newest : keys[n] = keys[r]
  /\ \A m, n \in newest : keys[m] = keys[n] => m = n
  /\ status' = [r \in Row |->
       IF r \in newest THEN "active"
       ELSE IF r \in W \/ (status[r] = "active" /\ \E n \in newest : keys[n] = keys[r])
       THEN "superseded"
       ELSE status[r]]
  /\ UNCHANGED keys

Judge(r, s) ==
  /\ status[r] # "none"
  /\ s = "active" => \A q \in Row \ {r} : keys[q] = keys[r] => status[q] # "active"
  /\ status' = [status EXCEPT ![r] = s]
  /\ UNCHANGED keys

Next ==
  \/ \E W \in SUBSET Row : \E newest \in SUBSET W : Publish(W, newest)
  \/ \E r \in Row, s \in Verdict \cup {"active"} : Judge(r, s)

Spec == Init /\ [][Next]_<<keys, status>>
=============================================================================

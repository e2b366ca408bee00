----------------------------- MODULE MCRemoteScan -----------------------------
(* Two scans of a server that starts out well kept and then changes its
   certificate, its protocol version and the description of its only tool with
   a name; it then lists another one without. *)
EXTENDS RemoteScan

CONSTANTS s1, s2, mild, rewritten, nameless

MCNameOf == [t \in Tool |-> IF t = nameless THEN NoName ELSE "search"]

MCSite ==
  {[cert |-> "renewed", ver |-> "2025-03-26", tools |-> {mild}],
   [cert |-> "homemade", ver |-> "2030-01-01", tools |-> {rewritten, nameless}]}
=============================================================================

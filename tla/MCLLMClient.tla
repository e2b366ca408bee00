----------------------------- MODULE MCLLMClient -----------------------------
(* Calls of one detector with a limit of one: two about the same key and, for
   the spending, a third about another. *)
EXTENDS LLMClient, TLC

CONSTANTS c1, c2, c3, k, l, tpa, v

MCKeyOf == [c \in Call |-> IF c = c3 THEN l ELSE k]
OneDetector == [x \in Key |-> tpa]
LimitOne == [d \in Detector |-> 1]
=============================================================================

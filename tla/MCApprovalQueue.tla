-------------------------- MODULE MCApprovalQueue --------------------------
(* Calls of push 1, 2, 3, ..., the last two of which carry the same id.      *)
EXTENDS ApprovalQueue

MCIds == [p \in Push |-> IF p + 1 \in Push THEN p ELSE p - 1]
=============================================================================

--------------------------- MODULE MCAgentTaskQueue ---------------------------
EXTENDS AgentTaskQueue, TLC

(* Workers and request slots are compared for equality only. *)
Symm == Permutations(Workers) \cup Permutations(Cancellers) \cup Permutations(Retriers)
=============================================================================

---------------------------- MODULE MCAgentTasks ----------------------------
EXTENDS AgentTasks, TLC

(* Requests and worker threads are interchangeable.                         *)
Symmetry == Permutations(Client) \cup Permutations(Worker)
=============================================================================

------------------------------ MODULE MCTwins ------------------------------
(* An instance of TwinMessaging for TLC: who owns a KPI and to whom a role    *)
(* escalates.                                                               *)
EXTENDS TwinMessaging, TLC

CONSTANTS group_manager, cfo, margin_q2

(* Two twins; the second one escalates to a person.                         *)
TwoOwners == (margin_q2 :> cfo)
TwoPaths  == (group_manager :> cfo) @@ (cfo :> Human)

Symmetry == Permutations(Job)
=============================================================================

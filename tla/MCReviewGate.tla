---------------------------- MODULE MCReviewGate ----------------------------
(* Instances of ReviewGate for TLC. *)
EXTENDS ReviewGate, TLC

Symmetry == Permutations(Operator)

(* The checkpoint a reviewer saw is written into the approval row and read  *)
(* by no guard and no property of this run, and of the early flags the      *)
(* properties ask only whether one is set: states that differ in these      *)
(* alone are one.                                                           *)
Decided == [i \in 1..Len(approvals) |-> <<approvals[i].by, approvals[i].decision>>]

View == <<runRow, checkpoints, Decided, NoEarlyDecision, summary, receipts, wpc, dpc,
          ddecision, operator, fault>>
=============================================================================

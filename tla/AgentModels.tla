---------------------------- MODULE AgentModels ----------------------------
(***************************************************************************)
(* The status vocabularies of the specialist runtime and the transition    *)
(* tables agent_runtime/models.py declares for them.  No variables: the    *)
(* components that keep tasks, handoffs and approvals extend this module.  *)
(***************************************************************************)

TaskStatus ==
  {"proposed", "waiting_for_approval", "queued", "running",
   "waiting_for_input", "succeeded", "failed", "cancelled", "timed_out"}

TASK_STATUS_TRANSITIONS ==
  [s \in TaskStatus |->
     CASE s = "proposed"             -> {"queued", "waiting_for_approval"}
       [] s = "waiting_for_approval" -> {"queued", "cancelled"}
       [] s = "queued"               -> {"running", "cancelled", "timed_out"}
       [] s = "running"              -> {"waiting_for_input", "waiting_for_approval",
                                         "succeeded", "failed", "cancelled", "timed_out"}
       [] s = "waiting_for_input"    -> {"queued"}
       [] s = "failed"               -> {"queued"}
       [] OTHER                      -> {}]

(* The table as a careless edit would leave it: every terminal status can   *)
(* be retried, and a running task can be claimed again.                     *)
is_task_transition_allowed_LOOSE(current, target) ==
  \/ current \in TaskStatus /\ target \in TASK_STATUS_TRANSITIONS[current]
  \/ current = "running" /\ target = "running"

is_task_transition_allowed(current, target) ==
  current \in TaskStatus /\ target \in TASK_STATUS_TRANSITIONS[current]

HandoffStatus ==
  {"proposed", "accepted", "in_progress", "completed",
   "rejected", "escalated", "expired"}

HANDOFF_STATUS_TRANSITIONS ==
  [s \in HandoffStatus |->
     CASE s = "proposed"    -> {"accepted", "rejected", "expired", "escalated"}
       [] s = "accepted"    -> {"in_progress", "expired", "escalated"}
       [] s = "in_progress" -> {"completed", "escalated"}
       [] OTHER             -> {}]

is_handoff_transition_allowed(current, target) ==
  current \in HandoffStatus /\ target \in HANDOFF_STATUS_TRANSITIONS[current]

ApprovalStatus == {"pending", "approved", "rejected", "expired", "cancelled"}

APPROVAL_STATUS_TRANSITIONS ==
  [s \in ApprovalStatus |->
     IF s = "pending" THEN ApprovalStatus \ {"pending"} ELSE {}]

is_approval_transition_allowed(current, target) ==
  current \in ApprovalStatus /\ target \in APPROVAL_STATUS_TRANSITIONS[current]
=============================================================================

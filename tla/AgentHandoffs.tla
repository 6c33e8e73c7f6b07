---------------------------- MODULE AgentHandoffs ----------------------------
(***************************************************************************)
(* A specialist hands work on (workflows.py, repository.py, policy.py):    *)
(* the worker that records a task's success turns the one action it may    *)
(* propose, resolve_evidence_gap, into a child task and a handoff row, in  *)
(* five transactions, while other workers run the child and the reconciler *)
(* times tasks out.  How a queued task is claimed and run is AgentTasks;   *)
(* here a run of a task is one claim and one outcome.                      *)
(***************************************************************************)
EXTENDS Naturals

CONSTANTS
  Source,           \* tasks whose handler may propose a handoff: roots
  MaxHandoffDepth,  \* MAX_HANDOFF_DEPTH
  MaxChildTasks     \* MAX_CHILD_TASKS_PER_ROOT

ASSUME HandoffAssumption ==
  MaxHandoffDepth \in Nat /\ MaxChildTasks \in Nat

TaskState == {"proposed", "queued", "running", "succeeded", "failed", "timed_out"}

VARIABLES
  gap,       \* sources whose findings lack citations
  source,    \* per source: its status
  child,     \* per source: the child's status, or "none"
  handoff,   \* per source: the handoff row's status, or "none"
  proposer,  \* per source: where the worker that ran it is
  unrecorded \* history: sources whose success found no connection

handoffRows == <<source, child, handoff>>
handoffVars == <<gap, source, child, handoff, proposer, unrecorded>>

HandoffTypeOK ==
  /\ gap \subseteq Source
  /\ source \in [Source -> TaskState]
  /\ child \in [Source -> TaskState \cup {"none"}]
  /\ handoff \in [Source -> {"none", "proposed", "accepted"}]
  /\ proposer \in [Source -> {"none", "working", "recorded", "budgeted", "created",
                              "queued", "linked", "done", "crashed"}]
  /\ unrecorded \subseteq Source

HandoffInit ==
  /\ gap \in SUBSET Source
  /\ source = [s \in Source |-> "queued"]
  /\ child = [s \in Source |-> "none"]
  /\ handoff = [s \in Source |-> "none"]
  /\ proposer = [s \in Source |-> "none"]
  /\ unrecorded = {}

HandoffAt(s, from, to) ==
  /\ proposer[s] = from
  /\ proposer' = [proposer EXCEPT ![s] = to]

----------------------------------------------------------------------------
(* The source's run.                                                        *)

ClaimSource(s) ==
  /\ source[s] = "queued"
  /\ source' = [source EXCEPT ![s] = "running"]
  /\ HandoffAt(s, "none", "working")
  /\ UNCHANGED <<gap, child, handoff, unrecorded>>

FailSource(s) ==
  /\ source[s] = "running"
  /\ source' = [source EXCEPT ![s] = "failed"]
  /\ HandoffAt(s, "working", "done")
  /\ UNCHANGED <<gap, child, handoff, unrecorded>>

(* Mutant: the handoffs are created before the success is recorded.         *)
RecordSuccess_AFTER(s) ==
  /\ HandoffAt(s, "working", "recorded")
  /\ UNCHANGED <<gap, handoffRows, unrecorded>>

(* transition_task(SUCCEEDED): refused, with everything after it, when the  *)
(* reconciler was first.                                                    *)
RecordSuccess(s) ==
  /\ source[s] = "running"
  /\ source' = [source EXCEPT ![s] = "succeeded"]
  /\ HandoffAt(s, "working", IF s \in gap THEN "recorded" ELSE "done")
  /\ UNCHANGED <<gap, child, handoff, unrecorded>>

(* transition_task finds no connection and returns {"status": "failed"}; the *)
(* worker does not look and goes on, the row stays as it was.                *)
RecordSuccessUnrecorded(s) ==
  /\ HandoffAt(s, "working", IF s \in gap THEN "recorded" ELSE "done")
  /\ unrecorded' = unrecorded \cup {s}
  /\ UNCHANGED <<gap, handoffRows>>

RefusedSuccess(s) ==
  /\ source[s] # "running"
  /\ HandoffAt(s, "working", "done")
  /\ UNCHANGED <<gap, handoffRows, unrecorded>>

----------------------------------------------------------------------------
(* _create_proposed_handoffs.                                               *)

(* check_handoff_budget over what find_root_task_id, handoff_depth_for_task, *)
(* count_tasks_under_root and prior_handoff_signatures_for_root read: the    *)
(* source is its own root, cash recovery hands to evidence closure, and the  *)
(* scope is always the same.  A read that finds no connection says 0, or no  *)
(* signature.                                                                *)
WithinBudget(tasks, signed) ==
  1 < MaxHandoffDepth /\ tasks < MaxChildTasks /\ ~signed

CheckBudget(s) ==
  /\ \E tasks \in {0, IF child[s] = "none" THEN 1 ELSE 2},
        signed \in {FALSE, handoff[s] # "none"} :
       HandoffAt(s, "recorded", IF WithinBudget(tasks, signed) THEN "budgeted" ELSE "done")
  /\ UNCHANGED <<gap, handoffRows, unrecorded>>

(* create_task under the source's own key returns a child that is there.    *)
CreateChild(s) ==
  /\ HandoffAt(s, "budgeted", "created")
  /\ child' = [child EXCEPT ![s] = IF @ = "none" THEN "proposed" ELSE @]
  /\ UNCHANGED <<gap, source, handoff, unrecorded>>

(* The capability is read-only: no approval.                                *)
QueueChild(s) ==
  /\ HandoffAt(s, "created", "queued")
  /\ child' = [child EXCEPT ![s] = IF @ = "proposed" THEN "queued" ELSE @]
  /\ UNCHANGED <<gap, source, handoff, unrecorded>>

create_handoff(s) ==
  /\ HandoffAt(s, "queued", "linked")
  /\ handoff' = [handoff EXCEPT ![s] = "proposed"]
  /\ UNCHANGED <<gap, source, child, unrecorded>>

AcceptHandoff(s) ==
  /\ HandoffAt(s, "linked", "done")
  /\ handoff' = [handoff EXCEPT ![s] = "accepted"]
  /\ UNCHANGED <<gap, source, child, unrecorded>>

(* transition_handoff finds no connection, and nobody looks.                *)
AcceptSkipped(s) ==
  /\ HandoffAt(s, "linked", "done")
  /\ UNCHANGED <<gap, handoffRows, unrecorded>>

(* The worker dies, or create_task, the child's transition_task or          *)
(* create_handoff finds no connection and the next line raises a KeyError   *)
(* over the answer; a redelivered job returns at once, because the task is  *)
(* no longer queued.                                                        *)
WorkerDies(s) ==
  /\ proposer[s] \notin {"none", "done", "crashed"}
  /\ proposer' = [proposer EXCEPT ![s] = "crashed"]
  /\ UNCHANGED <<gap, handoffRows, unrecorded>>

----------------------------------------------------------------------------
(* The child's run, and reconcile_stuck_tasks.                              *)

ClaimChild(s) ==
  /\ child[s] = "queued"
  /\ child' = [child EXCEPT ![s] = "running"]
  /\ UNCHANGED <<gap, source, handoff, proposer, unrecorded>>

SettleChild(s) ==
  /\ child[s] = "running"
  /\ \E outcome \in {"succeeded", "failed", "timed_out"} :
       child' = [child EXCEPT ![s] = outcome]
  /\ UNCHANGED <<gap, source, handoff, proposer, unrecorded>>

TimeOutSource(s) ==
  /\ source[s] = "running"
  /\ source' = [source EXCEPT ![s] = "timed_out"]
  /\ UNCHANGED <<gap, child, handoff, proposer, unrecorded>>

HandoffProgress(s) ==
  \/ ClaimSource(s) \/ FailSource(s) \/ RecordSuccess(s) \/ RefusedSuccess(s)
  \/ RecordSuccessUnrecorded(s) \/ AcceptSkipped(s)
  \/ CheckBudget(s) \/ CreateChild(s) \/ QueueChild(s)
  \/ create_handoff(s) \/ AcceptHandoff(s)
  \/ ClaimChild(s) \/ SettleChild(s) \/ TimeOutSource(s)

HandoffNext == \E s \in Source : HandoffProgress(s) \/ WorkerDies(s)

HandoffSpec == HandoffInit /\ [][HandoffNext]_handoffVars

(* A worker that lives goes on, and queued tasks are dispatched.            *)
HandoffFairSpec ==
  HandoffSpec /\ \A s \in Source : WF_handoffVars(HandoffProgress(s))

----------------------------------------------------------------------------
(* Work is handed on only by a task whose success stands, or whose success   *)
(* found no connection: never by one whose success was refused because the   *)
(* reconciler had timed it out.                                              *)
StartsAfterSource ==
  \A s \in Source : child[s] # "none" => source[s] = "succeeded" \/ s \in unrecorded

(* _create_proposed_handoffs speaks of "the parent task that already         *)
(* succeeded" (workflows.py:226).  Violated: see RecordSuccessUnrecorded.    *)
ParentHasSucceeded == \A s \in Source : child[s] # "none" => source[s] = "succeeded"

(* A handoff row never names a child that nobody will run: wherever the     *)
(* worker dies, a child still "proposed" has no row.                        *)
HandoffNamesRunnableChild ==
  \A s \in Source : handoff[s] # "none" => child[s] \notin {"none", "proposed"}

(* A success with an evidence gap is handed on in the end.  Violated: the   *)
(* worker dies after RecordSuccess.  The tests speak of "a retry after a    *)
(* crash between transition_task(succeeded) and handoff creation"           *)
(* (test_agent_runtime_handoffs_postgres_e2e.py:170); none comes.           *)
GapIsHandedOn ==
  \A s \in Source :
    (source[s] = "succeeded" /\ s \in gap) ~> handoff[s] = "accepted"

=============================================================================

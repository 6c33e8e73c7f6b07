----------------------------- MODULE ReviewGate -----------------------------
(***************************************************************************)
(* The human-review gate of one governed run: the worker that stops at the *)
(* gate and then stores its summary (runtime_governance.py, run_poc.py),   *)
(* reviewers that claim and decide, operators that resume the writer       *)
(* (api.py, reviewer_runtime.py), and the run, checkpoint and approval     *)
(* rows of state_store.py they share.  Each transaction is one step, and   *)
(* so is each write of run_summary.json.  A store call that can get no     *)
(* connection writes nothing and returns a status, and its callers go on.  *)
(***************************************************************************)
EXTENDS Naturals, Sequences

CONSTANTS
  Reviewer,      \* principals that may call approve and reject
  Unclaimed,     \* those of another role (auditor, tenant_admin, system):
                 \*   record_approval asks no claim of them
  Operator,      \* request threads of resume_run
  None,          \* null
  MaxDecisions,  \* bound: approval rows
  MaxReleases,   \* bound: executions of the writer
  MaxFaults      \* bound: crashes and calls without a connection, over all processes

ASSUME RolesAssumption == Unclaimed \subseteq Reviewer /\ None \notin Reviewer
ASSUME BoundsAssumption ==
  MaxDecisions \in Nat /\ MaxReleases \in Nat /\ MaxFaults \in Nat

VARIABLES
  status, stage, claimed, approved_by, \* the strategyos_runs row
  checkpoints,   \* stages of strategyos_run_checkpoints, oldest first
  approvals,     \* strategyos_approvals, oldest first
  summary,       \* run_summary.json: its status and approval_status
  receipts,      \* checkpoints named by release receipts, in writing order
  wpc,           \* worker
  dpc, dseen, ddecision,  \* per reviewer: control, checkpoint read, decision
  opc, oseen, oby,        \* per operator: control, checkpoint read, approver read
  unread,        \* history: operators whose read of the approver had no connection
  crashes, lost  \* faults so far: crashes, store calls without a connection

runRow   == <<status, stage, claimed, approved_by>>
reviewer == <<dpc, dseen, ddecision>>
operator == <<opc, oseen, oby, unread>>
fault    == <<crashes, lost>>
vars == <<runRow, checkpoints, approvals, summary, receipts, wpc, reviewer, operator, fault>>

Decision == {"approved", "rejected"}
Stage    == {"knowledge_graph", "awaiting_review", "writer"}
Approval == [by : Reviewer, decision : Decision, checkpoint : Nat, early : BOOLEAN]

TypeOK ==
  /\ status \in Decision \cup {"running", "awaiting_review", "completed"}
  /\ stage \in Stage
  /\ claimed \in Reviewer \cup {None}
  /\ approved_by \in Reviewer \cup {None}
  /\ checkpoints \in Seq(Stage)
  /\ approvals \in Seq(Approval)
  /\ summary \in [status : {"absent", "awaiting_review", "completed"},
                  approval : Decision \cup {"pending"}]
  /\ receipts \in Seq(Nat)
  /\ wpc \in {"pipeline", "gate", "store", "search", "search_failed", "final", "done"}
  /\ dpc \in [Reviewer -> {"idle", "record", "sync", "touch"}]
  /\ dseen \in [Reviewer -> Nat]
  /\ ddecision \in [Reviewer -> Decision]
  /\ opc \in [Operator -> {"idle", "checkpoint", "deliver", "approver",
                           "persist", "update", "publish"}]
  /\ oseen \in [Operator -> Nat]
  /\ oby \in [Operator -> Reviewer \cup {None}]
  /\ unread \subseteq Operator
  /\ crashes \in Nat /\ lost \in Nat /\ crashes + lost <= MaxFaults

(* The stages before the gate are behind the run.                           *)
Init ==
  /\ status = "running"
  /\ stage = "knowledge_graph"
  /\ claimed = None
  /\ approved_by = None
  /\ checkpoints = <<"knowledge_graph">>
  /\ approvals = <<>>
  /\ summary = [status |-> "absent", approval |-> "pending"]
  /\ receipts = <<>>
  /\ wpc = "pipeline"
  /\ dpc = [r \in Reviewer |-> "idle"]
  /\ dseen = [r \in Reviewer |-> 0]
  /\ ddecision = [r \in Reviewer |-> "approved"]
  /\ opc = [o \in Operator |-> "idle"]
  /\ oseen = [o \in Operator |-> 0]
  /\ oby = [o \in Operator |-> None]
  /\ unread = {}
  /\ crashes = 0
  /\ lost = 0

persist_checkpoint(new_stage, new_status) ==
  /\ checkpoints' = Append(checkpoints, new_stage)
  /\ status' = new_status
  /\ stage' = new_stage

Crash == crashes + lost < MaxFaults /\ crashes' = crashes + 1 /\ UNCHANGED lost

(* database_connection has none to give to this call.                       *)
NoConnection == crashes + lost < MaxFaults /\ lost' = lost + 1 /\ UNCHANGED crashes

(* upsert_run_summary and update_run_summary overwrite the row with what    *)
(* the caller's summary says, absent keys as null; the claim is not theirs. *)
update_run_summary(new_status, new_stage, approver) ==
  /\ status' = new_status
  /\ stage' = new_stage
  /\ approved_by' = approver

----------------------------------------------------------------------------
(* The worker: run_poc.                                                     *)

WorkerStep(from, to) == wpc = from /\ wpc' = to

ReachGate ==
  /\ WorkerStep("pipeline", "gate")
  /\ \/ persist_checkpoint("awaiting_review", "awaiting_review") /\ UNCHANGED fault
     \/ NoConnection /\ UNCHANGED <<status, stage, checkpoints>>
  /\ UNCHANGED <<claimed, approved_by, approvals, summary, receipts, reviewer, operator>>

PendingSummary == summary' = [status |-> "awaiting_review", approval |-> "pending"]

WriteSummary ==
  /\ WorkerStep("gate", "store")
  /\ PendingSummary
  /\ UNCHANGED <<runRow, checkpoints, approvals, receipts, reviewer, operator, fault>>

(* Best effort: an exception is recorded in the summary and swallowed, as   *)
(* is the want of a connection.                                             *)
PersistSummary ==
  /\ WorkerStep("store", "search")
  /\ \/ update_run_summary("awaiting_review", "awaiting_review", None)
     \/ UNCHANGED <<status, stage, approved_by>>
  /\ UNCHANGED <<claimed, checkpoints, approvals, summary, receipts, reviewer, operator, fault>>

(* sync_sources: "ready" stores the summary again, "skipped" does not.      *)
SyncSources ==
  /\ WorkerStep("search", "final")
  /\ \/ update_run_summary("awaiting_review", "awaiting_review", None)
     \/ UNCHANGED <<status, stage, approved_by>>
  /\ UNCHANGED <<claimed, checkpoints, approvals, summary, receipts, reviewer, operator, fault>>

SyncSourcesRaises ==
  /\ WorkerStep("search", "search_failed")
  /\ PendingSummary
  /\ UNCHANGED <<runRow, checkpoints, approvals, receipts, reviewer, operator, fault>>

RecordSyncFailure ==
  /\ WorkerStep("search_failed", "done")
  /\ \/ update_run_summary("awaiting_review", "awaiting_review", None) /\ UNCHANGED fault
     \/ NoConnection /\ UNCHANGED <<status, stage, approved_by>>
  /\ UNCHANGED <<claimed, checkpoints, approvals, summary, receipts, reviewer, operator>>

FinalWrite ==
  /\ WorkerStep("final", "done")
  /\ PendingSummary
  /\ UNCHANGED <<runRow, checkpoints, approvals, receipts, reviewer, operator, fault>>

WorkerCrash ==
  /\ wpc # "done"
  /\ Crash
  /\ wpc' = "done"
  /\ UNCHANGED <<runRow, checkpoints, approvals, summary, receipts, reviewer, operator>>

----------------------------------------------------------------------------
(* Reviewers.                                                               *)

(* The claim taken over from whoever holds it.                              *)
claim_pending_review_STEALS(r) ==
  /\ status = "awaiting_review"
  /\ claimed # r
  /\ claimed' = r
  /\ UNCHANGED <<status, stage, approved_by, checkpoints, approvals, summary, receipts,
                 wpc, reviewer, operator, fault>>

claim_pending_review(r) ==
  /\ status = "awaiting_review"
  /\ claimed = None
  /\ claimed' = r
  /\ UNCHANGED <<status, stage, approved_by, checkpoints, approvals, summary, receipts,
                 wpc, reviewer, operator, fault>>

unclaim_pending_review(r) ==
  /\ status = "awaiting_review"
  /\ claimed = r
  /\ claimed' = None
  /\ UNCHANGED <<status, stage, approved_by, checkpoints, approvals, summary, receipts,
                 wpc, reviewer, operator, fault>>

(* _record_reviewer_decision first fetches the latest checkpoint, of        *)
(* whatever stage.                                                          *)
OpenDecision(r, d) ==
  /\ dpc[r] = "idle"
  /\ dpc' = [dpc EXCEPT ![r] = "record"]
  /\ dseen' = [dseen EXCEPT ![r] = Len(checkpoints)]
  /\ ddecision' = [ddecision EXCEPT ![r] = d]
  /\ UNCHANGED <<runRow, checkpoints, approvals, summary, receipts, wpc, operator, fault>>

MayDecide(r) ==
  /\ status = "awaiting_review"
  /\ r \in Unclaimed \/ claimed = r

DecisionDone(r) ==
  /\ dpc' = [dpc EXCEPT ![r] = "idle"]
  /\ dseen' = [dseen EXCEPT ![r] = 0]
  /\ ddecision' = [ddecision EXCEPT ![r] = "approved"]

(* Under the run's row lock.  "early" is history: the worker of the run had *)
(* writes of its own still to come.                                         *)
record_approval(r) ==
  /\ dpc[r] = "record"
  /\ MayDecide(r)
  /\ Len(approvals) < MaxDecisions
  /\ approvals' = Append(approvals, [by |-> r, decision |-> ddecision[r],
                                     checkpoint |-> dseen[r], early |-> wpc # "done"])
  /\ status' = ddecision[r]
  /\ claimed' = None
  /\ approved_by' = IF ddecision[r] = "approved" THEN r ELSE approved_by
  /\ dpc' = [dpc EXCEPT ![r] = "sync"]
  /\ dseen' = [dseen EXCEPT ![r] = 0]
  /\ UNCHANGED <<stage, checkpoints, summary, receipts, wpc, ddecision, operator, fault>>

(* HTTP 409.                                                                *)
RefuseDecision(r) ==
  /\ dpc[r] = "record"
  /\ ~MayDecide(r)
  /\ DecisionDone(r)
  /\ UNCHANGED <<runRow, checkpoints, approvals, summary, receipts, wpc, operator, fault>>

(* _sync_run_summary_review_state: nothing to do while the file is missing. *)
SyncReviewState(r) ==
  /\ dpc[r] = "sync"
  /\ DecisionDone(r)
  /\ summary' = IF summary.status = "absent" THEN summary
                ELSE [status |-> "awaiting_review", approval |-> ddecision[r]]
  /\ UNCHANGED <<runRow, checkpoints, approvals, receipts, wpc, operator, fault>>

(* record_approval had no connection: its status "failed" is neither of     *)
(* those that the endpoint refuses, and the summary is written all the same.*)
DecisionUnrecorded(r) ==
  /\ dpc[r] = "record"
  /\ NoConnection
  /\ dpc' = [dpc EXCEPT ![r] = "touch"]
  /\ UNCHANGED <<runRow, checkpoints, approvals, summary, receipts, wpc, dseen, ddecision,
                 operator>>

TouchReviewState(r) ==
  /\ dpc[r] = "touch"
  /\ DecisionDone(r)
  /\ summary' = IF summary.status = "absent" THEN summary
                ELSE [summary EXCEPT !.status = "awaiting_review"]
  /\ UNCHANGED <<runRow, checkpoints, approvals, receipts, wpc, operator, fault>>

ReviewerCrash(r) ==
  /\ dpc[r] # "idle"
  /\ Crash
  /\ DecisionDone(r)
  /\ UNCHANGED <<runRow, checkpoints, approvals, summary, receipts, wpc, operator>>

----------------------------------------------------------------------------
(* Operators: resume_run and resume_reviewed_run.                           *)

OperatorStep(o, from, to) ==
  /\ opc[o] = from
  /\ opc' = [opc EXCEPT ![o] = to]

ResumeDone(o) ==
  /\ opc' = [opc EXCEPT ![o] = "idle"]
  /\ oseen' = [oseen EXCEPT ![o] = 0]
  /\ oby' = [oby EXCEPT ![o] = None]

LatestDecision == IF approvals = <<>> THEN "pending" ELSE approvals[Len(approvals)].decision

(* Any recorded decision taken for an approval.                             *)
CheckApproval_ANY_DECISION(o) ==
  /\ OperatorStep(o, "idle", "checkpoint")
  /\ LatestDecision # "pending"
  /\ status # "completed"
  /\ stage = "awaiting_review"
  /\ UNCHANGED <<runRow, checkpoints, approvals, summary, receipts, wpc, reviewer, oseen, oby, unread, fault>>

CheckApproval(o) ==
  /\ OperatorStep(o, "idle", "checkpoint")
  /\ LatestDecision = "approved"
  /\ status # "completed"
  /\ stage = "awaiting_review"
  /\ UNCHANGED <<runRow, checkpoints, approvals, summary, receipts, wpc, reviewer, oseen, oby, unread, fault>>

(* The latest checkpoint taken without a look at its stage.                 *)
ReadCheckpoint_ANY_STAGE(o) ==
  /\ OperatorStep(o, "checkpoint", "deliver")
  /\ oseen' = [oseen EXCEPT ![o] = Len(checkpoints)]
  /\ UNCHANGED <<runRow, checkpoints, approvals, summary, receipts, wpc, reviewer, oby, unread, fault>>

ReadCheckpoint(o) ==
  /\ OperatorStep(o, "checkpoint", "deliver")
  /\ checkpoints[Len(checkpoints)] = "awaiting_review"
  /\ oseen' = [oseen EXCEPT ![o] = Len(checkpoints)]
  /\ UNCHANGED <<runRow, checkpoints, approvals, summary, receipts, wpc, reviewer, oby, unread, fault>>

(* HTTP 409: the latest checkpoint is not the gate's, or is not to be had   *)
(* for want of a connection, or its evidence files no longer match their    *)
(* recorded hashes.                                                         *)
RefuseResume(o) ==
  /\ opc[o] \in {"checkpoint", "deliver"}
  /\ ResumeDone(o)
  /\ UNCHANGED <<runRow, checkpoints, approvals, summary, receipts, wpc, reviewer, unread, fault>>

(* The writer's artifacts and the release receipt.                          *)
WriteDeliverables(o) ==
  /\ OperatorStep(o, "deliver", "approver")
  /\ Len(receipts) < MaxReleases
  /\ receipts' = Append(receipts, oseen[o])
  /\ oseen' = [oseen EXCEPT ![o] = 0]
  /\ UNCHANGED <<runRow, checkpoints, approvals, summary, wpc, reviewer, oby, unread, fault>>

ReadApprover(o) ==
  /\ OperatorStep(o, "approver", "persist")
  /\ oby' = [oby EXCEPT ![o] = approved_by]
  /\ UNCHANGED <<runRow, checkpoints, approvals, summary, receipts, wpc, reviewer, oseen, unread,
                 fault>>

(* Without a connection the approval is a dict that names no approver, and  *)
(* is used like any other.                                                  *)
ApproverUnread(o) ==
  /\ OperatorStep(o, "approver", "persist")
  /\ oby' = [oby EXCEPT ![o] = None]
  /\ unread' = unread \cup {o}
  /\ NoConnection
  /\ UNCHANGED <<runRow, checkpoints, approvals, summary, receipts, wpc, reviewer, oseen>>

PersistWriter(o) ==
  /\ OperatorStep(o, "persist", "update")
  /\ \/ persist_checkpoint("writer", "completed") /\ UNCHANGED fault
     \/ NoConnection /\ UNCHANGED <<status, stage, checkpoints>>
  /\ UNCHANGED <<claimed, approved_by, approvals, summary, receipts, wpc, reviewer, oseen, oby, unread>>

UpdateSummary(o) ==
  /\ OperatorStep(o, "update", "publish")
  /\ \/ update_run_summary("completed", "writer", oby[o]) /\ UNCHANGED fault
     \/ NoConnection /\ UNCHANGED <<status, stage, approved_by>>
  /\ UNCHANGED <<claimed, checkpoints, approvals, summary, receipts, wpc, reviewer, oseen, oby, unread>>

(* The final summary written with the approval state it had at the gate.    *)
PublishSummary_PENDING(o) ==
  /\ opc[o] = "publish"
  /\ ResumeDone(o)
  /\ summary' = [status |-> "completed", approval |-> "pending"]
  /\ UNCHANGED <<runRow, checkpoints, approvals, receipts, wpc, reviewer, unread, fault>>

PublishSummary(o) ==
  /\ opc[o] = "publish"
  /\ ResumeDone(o)
  /\ summary' = [status |-> "completed", approval |-> "approved"]
  /\ UNCHANGED <<runRow, checkpoints, approvals, receipts, wpc, reviewer, unread, fault>>

OperatorCrash(o) ==
  /\ opc[o] # "idle"
  /\ Crash
  /\ ResumeDone(o)
  /\ UNCHANGED <<runRow, checkpoints, approvals, summary, receipts, wpc, reviewer, unread>>

----------------------------------------------------------------------------
WorkerNext ==
  \/ ReachGate \/ WriteSummary \/ PersistSummary \/ SyncSources
  \/ SyncSourcesRaises \/ RecordSyncFailure \/ FinalWrite \/ WorkerCrash

ReviewerNext(r) ==
  \/ claim_pending_review(r)
  \/ unclaim_pending_review(r)
  \/ \E d \in Decision : OpenDecision(r, d)
  \/ record_approval(r)
  \/ RefuseDecision(r)
  \/ DecisionUnrecorded(r)
  \/ TouchReviewState(r)
  \/ SyncReviewState(r)
  \/ ReviewerCrash(r)

OperatorNext(o) ==
  \/ CheckApproval(o)
  \/ ReadCheckpoint(o)
  \/ RefuseResume(o)
  \/ WriteDeliverables(o)
  \/ ReadApprover(o)
  \/ ApproverUnread(o)
  \/ PersistWriter(o)
  \/ UpdateSummary(o)
  \/ PublishSummary(o)
  \/ OperatorCrash(o)

Next ==
  \/ WorkerNext
  \/ \E r \in Reviewer : ReviewerNext(r)
  \/ \E o \in Operator : OperatorNext(o)

Spec == Init /\ [][Next]_vars

----------------------------------------------------------------------------
(* Properties.                                                              *)

(* No decision was recorded while the run's worker had writes to come.      *)
NoEarlyDecision == \A i \in 1..Len(approvals) : ~approvals[i].early

(* Apart from the window between the gate checkpoint and the end of the     *)
(* worker, the gate works whatever reviewers and operators interleave and   *)
(* whichever store calls find no connection: one decision, standing in the  *)
(* row; a rejected run releases nothing; an approved one keeps its approver *)
(* through any number of resumes, unless one of them could not read the     *)
(* approver and wrote null over it; a run is completed by nothing else; a   *)
(* decided run is nobody's assignment.                                      *)
GateHonoured ==
  NoEarlyDecision =>
    /\ Len(approvals) <= 1
    /\ approvals = <<>> => receipts = <<>> /\ status \in {"running", "awaiting_review"}
    /\ approvals # <<>> =>
         /\ claimed = None
         /\ approvals[1].decision = "rejected" => status = "rejected" /\ receipts = <<>>
         /\ approvals[1].decision = "approved" =>
              /\ status \in {"approved", "completed"}
              /\ approved_by = approvals[1].by \/ (unread # {} /\ approved_by = None)

(* Whatever the worker overwrites: deliverables are released only after     *)
(* somebody approved, and every release receipt names the checkpoint of the *)
(* gate as the approved one, never the writer's own (resume_run re-reads    *)
(* the row and the latest checkpoint in separate transactions).             *)
ReleasesAreReviewed ==
  \A i \in 1..Len(receipts) :
     /\ receipts[i] \in 1..Len(checkpoints)
     /\ checkpoints[receipts[i]] = "awaiting_review"
     /\ \E j \in 1..Len(approvals) : approvals[j].decision = "approved"

(* A claim is only taken free, and a plain reviewer's decision is always    *)
(* that of the holder of the claim: another reviewer can neither take the   *)
(* run over nor decide it, and the run stays decided by its claimant even   *)
(* while the worker rewrites the row.                                       *)
ClaimsExclude ==
  [][/\ claimed # None => claimed' \in {claimed, None}
     /\ \A i \in 1..Len(approvals') :
          i > Len(approvals) /\ approvals'[i].by \notin Unclaimed
            => claimed = approvals'[i].by]_vars

(* When nobody is in the middle of anything and nothing crashed, the        *)
(* summary file that the executive pages read carries the decision.         *)
SummaryCarriesDecision ==
  /\ NoEarlyDecision /\ approvals # <<>> /\ crashes = 0
  /\ \A r \in Reviewer : dpc[r] = "idle"
  /\ \A o \in Operator : opc[o] = "idle"
  => summary.approval = LatestDecision

(* test_postgres_backed_governed_source_pack_flow: after claim, approve and *)
(* resume the completed run's approved_by is the reviewer.                  *)
CompletedRunNamesApprover ==
  status = "completed" /\ (\A o \in Operator : opc[o] = "idle") /\ crashes = 0
    => approved_by # None

(* The same test: the approval is recorded for the checkpoint that          *)
(* pending-reviews showed, the gate's.                                      *)
ApprovalNamesReviewedCheckpoint ==
  \A i \in 1..Len(approvals) : checkpoints[approvals[i].checkpoint] = "awaiting_review"

(* test_governed_review_flow_approve_then_resume_runs_writer: the writer    *)
(* runs once for an approved run.                                           *)
WriterRunsOnce == Len(receipts) <= 1
=============================================================================

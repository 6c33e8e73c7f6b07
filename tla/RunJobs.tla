------------------------------ MODULE RunJobs ------------------------------
(***************************************************************************)
(* Submission of strategy runs in Hatchet mode: run_executor.              *)
(* submit_hatchet_run on the API side, hatchet_runtime.                    *)
(* execute_strategyos_run_job on the worker side, and the run-job rows of  *)
(* state_store.py they both write.  update_run_job writes the status it is *)
(* given, whatever the row holds; when no connection can be had it writes  *)
(* nothing and returns a status that its callers do not look at.           *)
(***************************************************************************)
EXTENDS Naturals

CONSTANTS
  Request,         \* governed input contracts: one request hash each
  MaxSubmissions,  \* bound: submissions of one request
  MaxCrashes       \* bound: process crashes, lost Hatchet runs, calls without a connection

ASSUME SubmissionsAssumption == MaxSubmissions \in Nat \ {0}
ASSUME CrashesAssumption == MaxCrashes \in Nat

Job == Request \X (1..MaxSubmissions)
RequestOf(j) == j[1]

VARIABLES
  status,    \* strategyos_run_jobs.status, "absent" before the insert
  finished,  \* jobs whose finished_at is set
  spc,       \* per job: control of the request thread that submits it
  sent,      \* per job: the Hatchet run published for it
  wpc,       \* per job: control of the worker that executes it
  crashes

vars == <<status, finished, spc, sent, wpc, crashes>>

Active == {"queued", "running"}
Sent   == {"no", "pending", "delivered", "expired"}

TypeOK ==
  /\ status \in [Job -> Active \cup {"absent", "succeeded", "failed"}]
  /\ finished \subseteq Job
  /\ spc \in [Job -> {"new", "enqueue", "confirm", "failing", "accepted",
                      "conflict", "unavailable", "crashed"}]
  /\ sent \in [Job -> Sent]
  /\ wpc \in [Job -> {"idle", "working", "done", "unrecorded", "crashed"}]
  /\ crashes \in 0..MaxCrashes

Init ==
  /\ status = [j \in Job |-> "absent"]
  /\ finished = {}
  /\ spc = [j \in Job |-> "new"]
  /\ sent = [j \in Job |-> "no"]
  /\ wpc = [j \in Job |-> "idle"]
  /\ crashes = 0

Siblings(j) == {k \in Job : RequestOf(k) = RequestOf(j) /\ k # j}

update_run_job(j, s) ==
  /\ status' = [status EXCEPT ![j] = s]
  /\ finished' = IF s \in {"succeeded", "failed"} THEN finished \cup {j} ELSE finished

(* database_connection has none to give: the rows stay as they are.         *)
NoConnection ==
  /\ crashes < MaxCrashes
  /\ crashes' = crashes + 1
  /\ UNCHANGED <<status, finished>>

----------------------------------------------------------------------------
(* The API side.                                                            *)

Submitter(j, from, to) ==
  /\ spc[j] = from
  /\ spc' = [spc EXCEPT ![j] = to]

(* The look for an active job left out of the locked transaction.           *)
create_run_job_UNCHECKED(j) ==
  /\ Submitter(j, "new", "enqueue")
  /\ status' = [status EXCEPT ![j] = "queued"]
  /\ UNCHANGED <<finished, sent, wpc, crashes>>

(* Select and insert under the advisory lock of the request hash.           *)
create_run_job(j) ==
  /\ Submitter(j, "new", "enqueue")
  /\ \A k \in Siblings(j) : status[k] \notin Active
  /\ status' = [status EXCEPT ![j] = "queued"]
  /\ UNCHANGED <<finished, sent, wpc, crashes>>

(* "Analysis is already queued or running for this dataset": HTTP 409.      *)
RejectDuplicate(j) ==
  /\ Submitter(j, "new", "conflict")
  /\ \E k \in Siblings(j) : status[k] \in Active
  /\ UNCHANGED <<status, finished, sent, wpc, crashes>>

(* create_run_job returns a dict without a job_id: RunExecutionUnavailable. *)
CreateUnavailable(j) ==
  /\ Submitter(j, "new", "unavailable")
  /\ NoConnection
  /\ UNCHANGED <<sent, wpc>>

EnqueueReturns(j) ==
  /\ Submitter(j, "enqueue", "confirm")
  /\ sent' = [sent EXCEPT ![j] = "pending"]
  /\ UNCHANGED <<status, finished, wpc, crashes>>

(* The call to Hatchet raises: before the run was published, or after it    *)
(* was, with the answer lost.                                               *)
EnqueueRaises(j) ==
  /\ Submitter(j, "enqueue", "failing")
  /\ \E published \in BOOLEAN :
       sent' = [sent EXCEPT ![j] = IF published THEN "pending" ELSE "no"]
  /\ UNCHANGED <<status, finished, wpc, crashes>>

ConfirmQueued(j) ==
  /\ Submitter(j, "confirm", "accepted")
  /\ update_run_job(j, "queued")
  /\ UNCHANGED <<sent, wpc, crashes>>

RecordEnqueueFailure(j) ==
  /\ Submitter(j, "failing", "unavailable")
  /\ update_run_job(j, "failed")
  /\ UNCHANGED <<sent, wpc, crashes>>

(* The caller is answered as if the row had been written: "queued" with the *)
(* ids it has, or RunExecutionUnavailable over a row that is still queued.  *)
ConfirmUnrecorded(j) ==
  /\ Submitter(j, "confirm", "accepted")
  /\ NoConnection
  /\ UNCHANGED <<sent, wpc>>

EnqueueFailureUnrecorded(j) ==
  /\ Submitter(j, "failing", "unavailable")
  /\ NoConnection
  /\ UNCHANGED <<sent, wpc>>

SubmitterCrash(j) ==
  /\ spc[j] \in {"enqueue", "confirm", "failing"}
  /\ crashes < MaxCrashes
  /\ crashes' = crashes + 1
  /\ spc' = [spc EXCEPT ![j] = "crashed"]
  /\ UNCHANGED <<status, finished, sent, wpc>>

----------------------------------------------------------------------------
(* The worker side.  HATCHET_RETRIES is 0: a run is delivered once.         *)

Deliver(j) ==
  /\ sent[j] = "pending"
  /\ sent' = [sent EXCEPT ![j] = "delivered"]
  /\ wpc' = [wpc EXCEPT ![j] = "working"]
  /\ UNCHANGED spc

Start(j) ==
  /\ Deliver(j)
  /\ update_run_job(j, "running")
  /\ UNCHANGED crashes

(* The workflow runs although "running" was not recorded.                   *)
StartUnrecorded(j) == Deliver(j) /\ NoConnection

(* The end of a run recorded without a final status.                        *)
Finish_NO_STATUS(j, outcome) ==
  /\ wpc[j] = "working"
  /\ wpc' = [wpc EXCEPT ![j] = "done"]
  /\ update_run_job(j, status[j])
  /\ UNCHANGED <<spc, sent, crashes>>

(* run_strategyos_workflow returns or raises.                               *)
Finish(j, outcome) ==
  /\ wpc[j] = "working"
  /\ wpc' = [wpc EXCEPT ![j] = "done"]
  /\ update_run_job(j, outcome)
  /\ UNCHANGED <<spc, sent, crashes>>

(* The task returns, or raises the workflow's error, and the row keeps the  *)
(* status it had: nothing looks at it again.                                *)
FinishUnrecorded(j) ==
  /\ wpc[j] = "working"
  /\ wpc' = [wpc EXCEPT ![j] = "unrecorded"]
  /\ NoConnection
  /\ UNCHANGED <<spc, sent>>

WorkerCrash(j) ==
  /\ wpc[j] = "working"
  /\ crashes < MaxCrashes
  /\ crashes' = crashes + 1
  /\ wpc' = [wpc EXCEPT ![j] = "crashed"]
  /\ UNCHANGED <<status, finished, spc, sent>>

(* No worker within schedule_timeout: Hatchet drops the run.                *)
ScheduleTimeout(j) ==
  /\ sent[j] = "pending"
  /\ crashes < MaxCrashes
  /\ crashes' = crashes + 1
  /\ sent' = [sent EXCEPT ![j] = "expired"]
  /\ UNCHANGED <<status, finished, spc, wpc>>

Submit(j) ==
  \/ create_run_job(j)
  \/ RejectDuplicate(j)
  \/ CreateUnavailable(j)
  \/ EnqueueReturns(j)
  \/ EnqueueRaises(j)
  \/ ConfirmQueued(j)
  \/ RecordEnqueueFailure(j)
  \/ ConfirmUnrecorded(j)
  \/ EnqueueFailureUnrecorded(j)
  \/ SubmitterCrash(j)

Work(j) ==
  \/ Start(j)
  \/ StartUnrecorded(j)
  \/ \E outcome \in {"succeeded", "failed"} : Finish(j, outcome)
  \/ FinishUnrecorded(j)
  \/ WorkerCrash(j)
  \/ ScheduleTimeout(j)

Next == \E j \in Job : Submit(j) \/ Work(j)

Spec == Init /\ [][Next]_vars

(* Submissions come as callers please; the threads that handle them run on. *)
FairSpec ==
  /\ Spec
  /\ \A j \in Job :
       /\ WF_vars(EnqueueReturns(j) \/ EnqueueRaises(j))
       /\ WF_vars(ConfirmQueued(j) \/ RecordEnqueueFailure(j))
       /\ WF_vars(Start(j))
       /\ WF_vars(\E outcome \in {"succeeded", "failed"} : Finish(j, outcome))

----------------------------------------------------------------------------
(* Properties.                                                              *)

(* The enqueue call of j raised although the run had been published.        *)
LostAnswer(j) == spc[j] \in {"failing", "unavailable"} /\ sent[j] # "no"

(* The admission lock does its work except in one case: two workers process *)
(* the same governed input only if the submission of one of them lost       *)
(* Hatchet's answer, and was recorded as failed while its run lived on.     *)
DuplicateOnlyAfterLostAnswer ==
  \A j \in Job : \A k \in Siblings(j) :
     wpc[j] = "working" /\ wpc[k] = "working" => LostAnswer(j) \/ LostAnswer(k)

(* A job whose run was published, not dropped, and whose worker lived,      *)
(* reaches the end of its execution; its row then says so unless the        *)
(* worker's last update found no connection, or the submitter's late        *)
(* confirm is what was written last.                                        *)
PublishedJobsFinish ==
  \A j \in Job :
     sent[j] = "pending" ~>
        \/ sent[j] = "expired" \/ wpc[j] \in {"crashed", "unrecorded"}
        \/ /\ wpc[j] = "done" /\ j \in finished
           /\ \/ status[j] \in {"succeeded", "failed"}
              \/ spc[j] = "accepted" /\ status[j] = "queued"

(* create_run_job: the lock "prevents duplicate reprocessing".              *)
NoDuplicateProcessing ==
  \A j \in Job : \A k \in Siblings(j) : ~(wpc[j] = "working" /\ wpc[k] = "working")

(* test_hatchet_worker_task_updates_job_lifecycle: the last update of a job *)
(* whose worker returned is "succeeded".                                    *)
FinishedJobsStayFinished ==
  \A j \in Job : wpc[j] \in {"done", "unrecorded"} => status[j] \in {"succeeded", "failed"}
=============================================================================

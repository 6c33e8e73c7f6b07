----------------------------- MODULE AgentTasks -----------------------------
(***************************************************************************)
(* The task lifecycle of the specialist runtime: agent_runtime/            *)
(* repository.py (the task, event and attempt rows), the creation half of  *)
(* coordinator.py, and workflows.py (dispatcher, Hatchet job, reconciler). *)
(*                                                                         *)
(* A database transaction is one step.  Everything a process learned in an *)
(* earlier transaction is kept in its own variables (cpc, selected,        *)
(* overdue, wtask ...) and may be stale by the time it is used.            *)
(***************************************************************************)
EXTENDS AgentModels, Integers, Sequences, FiniteSets

CONSTANTS
  Task,           \* idempotency keys: one task row each
  Client,         \* request threads that run process_conversation_message
  Worker,         \* Hatchet worker threads
  NoTask,         \* "no task in hand"
  Retries,        \* HATCHET_RETRIES
  MaxPending,     \* bound: undelivered Hatchet runs of one task (dispatcher's)
  MaxCrashes      \* bound: crashes, escaped errors and calls the database
                  \*   pool had no connection for, over all processes

ASSUME NoTaskAssumption == NoTask \notin Task
ASSUME BoundsAssumption ==
  Retries \in Nat /\ MaxPending \in Nat \ {0} /\ MaxCrashes \in Nat

VARIABLES
  status,     \* strategyos_agent_tasks.status, "absent" before the insert
  version,    \* strategyos_agent_tasks.aggregate_version
  events,     \* strategyos_agent_events rows of the tasks
  failure_code, \* tasks whose failure_code column is not null
  lapsed,     \* tasks whose started_at is older than the lease
  attempts,   \* strategyos_agent_task_attempts, in attempt_no order
  cpc, ctask,                 \* per client: control and task
  cneeds,     \* per client: resolve_risk_class says requires_approval
  asked,      \* history: what it said of each request that named the task
  selected,                   \* dispatcher: rows fetched, not yet enqueued
  overdue,                    \* reconciler: rows fetched, not yet timed out
  queue,                      \* Hatchet: undelivered runs, by retries left
  wpc, wtask, wleft, watt,    \* per worker: control, task, retries, attempt_no
  crashes

rows       == <<status, version, events, failure_code, lapsed, attempts>>
clientVars == <<cpc, ctask, cneeds, asked>>
workerVars == <<wpc, wtask, wleft, watt>>
vars == <<rows, clientVars, selected, overdue, queue, workerVars, crashes>>

RowStatus     == TaskStatus \cup {"absent"}
AttemptStatus == {"running", "succeeded", "failed"}
ClientPC      == {"idle", "insert", "route", "create_raised", "route_raised"}
WorkerPC      == {"idle", "claim", "resolve", "attempt", "handle",
                  "complete", "fail", "handoffs"}

Event == [task : Task, version : Nat, to : TaskStatus]

TypeOK ==
  /\ status \in [Task -> RowStatus]
  /\ version \in [Task -> Nat]
  /\ events \subseteq Event
  /\ failure_code \subseteq Task
  /\ lapsed \subseteq Task
  /\ attempts \in [Task -> Seq(AttemptStatus)]
  /\ cpc \in [Client -> ClientPC]
  /\ ctask \in [Client -> Task \cup {NoTask}]
  /\ cneeds \in [Client -> BOOLEAN]
  /\ asked \in [Task -> SUBSET BOOLEAN]
  /\ selected \subseteq Task
  /\ overdue \subseteq Task
  /\ queue \in [Task \X (0..Retries) -> Nat]
  /\ wpc \in [Worker -> WorkerPC]
  /\ wtask \in [Worker -> Task \cup {NoTask}]
  /\ wleft \in [Worker -> 0..Retries]
  /\ watt \in [Worker -> Nat]
  /\ crashes \in 0..MaxCrashes

Init ==
  /\ status = [t \in Task |-> "absent"]
  /\ version = [t \in Task |-> 0]
  /\ events = {}
  /\ failure_code = {}
  /\ lapsed = {}
  /\ attempts = [t \in Task |-> <<>>]
  /\ cpc = [c \in Client |-> "idle"]
  /\ ctask = [c \in Client |-> NoTask]
  /\ cneeds = [c \in Client |-> FALSE]
  /\ asked = [t \in Task |-> {}]
  /\ selected = {}
  /\ overdue = {}
  /\ queue = [d \in Task \X (0..Retries) |-> 0]
  /\ wpc = [w \in Worker |-> "idle"]
  /\ wtask = [w \in Worker |-> NoTask]
  /\ wleft = [w \in Worker |-> 0]
  /\ watt = [w \in Worker |-> 0]
  /\ crashes = 0

----------------------------------------------------------------------------
(* Writes to a task row.  Each is one transaction that also appends the     *)
(* aggregate's next event; a disallowed transition rolls back and raises.   *)

append_event(t, v, to) ==
  events' = events \cup {[task |-> t, version |-> v, to |-> to]}

Allowed(t, target) == is_task_transition_allowed(status[t], target)

(* The compare of the compare-and-set forgotten: the row lock alone.        *)
transition_task_UNCHECKED(t, target) ==
  /\ status' = [status EXCEPT ![t] = target]
  /\ version' = [version EXCEPT ![t] = @ + 1]
  /\ append_event(t, version[t] + 1, target)

(* The event written with the version that was read, not the next one.      *)
transition_task_STALE_VERSION(t, target) ==
  /\ Allowed(t, target)
  /\ status' = [status EXCEPT ![t] = target]
  /\ version' = [version EXCEPT ![t] = @ + 1]
  /\ append_event(t, version[t], target)

transition_task(t, target) ==
  /\ Allowed(t, target)
  /\ status' = [status EXCEPT ![t] = target]
  /\ version' = [version EXCEPT ![t] = @ + 1]
  /\ append_event(t, version[t] + 1, target)

insert_task(t) ==
  /\ status[t] = "absent"
  /\ status' = [status EXCEPT ![t] = "proposed"]
  /\ version' = [version EXCEPT ![t] = 1]
  /\ append_event(t, 1, "proposed")

----------------------------------------------------------------------------
(* Clients: create_task is a select and then an insert, and the coordinator *)
(* routes the task from the status create_task returned.  The row is found  *)
(* by the idempotency key alone; whether it needs approval is decided from  *)
(* the body of the request in hand, so two requests of one key may differ.  *)

(* The request ends, normally or with an error; its locals go with it.      *)
Leave(c, pc) ==
  /\ cpc' = [cpc EXCEPT ![c] = pc]
  /\ ctask' = [ctask EXCEPT ![c] = NoTask]
  /\ cneeds' = [cneeds EXCEPT ![c] = FALSE]
  /\ UNCHANGED asked

(* A request resolves its own risk class and looks its key up.              *)
Asks(t, needs) == asked' = [asked EXCEPT ![t] = @ \cup {needs}]

LookUp(c, t, needs, next) ==
  /\ cpc[c] = "idle"
  /\ cpc' = [cpc EXCEPT ![c] = next]
  /\ ctask' = [ctask EXCEPT ![c] = t]
  /\ cneeds' = [cneeds EXCEPT ![c] = needs]
  /\ Asks(t, needs)
  /\ UNCHANGED <<rows, selected, overdue, queue, workerVars, crashes>>

FindExisting(c, t, needs) == status[t] = "proposed" /\ LookUp(c, t, needs, "route")

MissExisting(c, t, needs) == status[t] = "absent" /\ LookUp(c, t, needs, "insert")

(* The row it finds has been routed: the rest of the request writes nothing *)
(* to the task.                                                             *)
FindRouted(c, t, needs) ==
  /\ cpc[c] = "idle"
  /\ status[t] \notin {"absent", "proposed"}
  /\ Asks(t, needs)
  /\ UNCHANGED <<rows, cpc, ctask, cneeds, selected, overdue, queue, workerVars, crashes>>

Insert(c) ==
  /\ cpc[c] = "insert"
  /\ insert_task(ctask[c])
  /\ cpc' = [cpc EXCEPT ![c] = "route"]
  /\ UNCHANGED <<failure_code, lapsed, attempts, ctask, cneeds, asked, selected,
                 overdue, queue, workerVars, crashes>>

(* The select missed the row and unique(tenant_id, idempotency_key) refuses *)
(* the insert: nothing catches the database error.                          *)
InsertConflict(c) ==
  /\ cpc[c] = "insert"
  /\ status[ctask[c]] # "absent"
  /\ Leave(c, "create_raised")
  /\ UNCHANGED <<rows, selected, overdue, queue, workerVars, crashes>>

(* The policy branch dropped: everything is queued.                         *)
RouteTarget_NO_POLICY(c) == "queued"

RouteTarget(c) == IF cneeds[c] THEN "waiting_for_approval" ELSE "queued"

Route(c) ==
  /\ cpc[c] = "route"
  /\ transition_task(ctask[c], RouteTarget(c))
  /\ Leave(c, "idle")
  /\ UNCHANGED <<failure_code, lapsed, attempts, selected, overdue, queue,
                 workerVars, crashes>>

(* Another request with the same key routed the task first, and the table   *)
(* has no way from there to the target of this one.                         *)
RouteRaises(c) ==
  /\ cpc[c] = "route"
  /\ ~Allowed(ctask[c], RouteTarget(c))
  /\ Leave(c, "route_raised")
  /\ UNCHANGED <<rows, selected, overdue, queue, workerVars, crashes>>

(* The caller got an error response and may submit the same key again.      *)
ClientRetry(c) ==
  /\ cpc[c] \in {"create_raised", "route_raised"}
  /\ Leave(c, "idle")
  /\ UNCHANGED <<rows, selected, overdue, queue, workerVars, crashes>>

ClientCrash(c) ==
  /\ cpc[c] \in {"insert", "route"}
  /\ crashes < MaxCrashes
  /\ crashes' = crashes + 1
  /\ Leave(c, "idle")
  /\ UNCHANGED <<rows, selected, overdue, queue, workerVars>>

----------------------------------------------------------------------------
(* dispatch_ready_tasks: one select, then one Hatchet run per fetched row.  *)

SelectQueued ==
  /\ selected = {}
  /\ selected' = {t \in Task : status[t] = "queued"}
  /\ selected' # {}
  /\ UNCHANGED <<rows, clientVars, overdue, queue, workerVars, crashes>>

Publish(t, k) == queue' = [queue EXCEPT ![<<t, k>>] = @ + 1]

Enqueue(t) ==
  /\ t \in selected
  /\ queue[<<t, Retries>>] < MaxPending
  /\ Publish(t, Retries)
  /\ selected' = selected \ {t}
  /\ UNCHANGED <<rows, clientVars, overdue, workerVars, crashes>>

DispatcherCrash ==
  /\ selected # {}
  /\ crashes < MaxCrashes
  /\ crashes' = crashes + 1
  /\ selected' = {}
  /\ UNCHANGED <<rows, clientVars, overdue, queue, workerVars>>

----------------------------------------------------------------------------
(* Hatchet: at-least-once delivery.  A run whose step raises, whose worker  *)
(* dies or whose execution_timeout passes is delivered again while it has   *)
(* retries left; the timed-out thread itself is not stopped.                *)

(* The job ends and its locals go with it.                                  *)
Finish(w) ==
  /\ wpc' = [wpc EXCEPT ![w] = "idle"]
  /\ wtask' = [wtask EXCEPT ![w] = NoTask]
  /\ wleft' = [wleft EXCEPT ![w] = 0]
  /\ watt' = [watt EXCEPT ![w] = 0]

Redeliver(w) ==
  IF wleft[w] > 0 THEN Publish(wtask[w], wleft[w] - 1) ELSE UNCHANGED queue

Consume(t, k) ==
  /\ queue[<<t, k>>] > 0
  /\ queue' = [queue EXCEPT ![<<t, k>>] = @ - 1]

Crash(w) ==
  /\ wpc[w] # "idle"
  /\ crashes < MaxCrashes
  /\ crashes' = crashes + 1
  /\ Redeliver(w)
  /\ Finish(w)
  /\ UNCHANGED <<rows, clientVars, selected, overdue>>

ExecutionTimeout(w) ==
  /\ wpc[w] # "idle"
  /\ wleft[w] > 0
  /\ Redeliver(w)
  /\ wleft' = [wleft EXCEPT ![w] = 0]
  /\ UNCHANGED <<rows, clientVars, selected, overdue, wpc, wtask, watt, crashes>>

----------------------------------------------------------------------------
(* execute_agent_task_job, one step per transaction.                        *)

Step(w, from, to) ==
  /\ wpc[w] = from
  /\ wpc' = [wpc EXCEPT ![w] = to]

(* get_task finds the task claimed, settled or not yet released.            *)
Ignore(w, t, k) ==
  /\ wpc[w] = "idle"
  /\ Consume(t, k)
  /\ status[t] # "queued"
  /\ UNCHANGED <<rows, clientVars, selected, overdue, workerVars, crashes>>

(* get_task finds no connection and returns {"status": "failed"}.           *)
IgnoreUnread(w, t, k) ==
  /\ wpc[w] = "idle"
  /\ Consume(t, k)
  /\ crashes < MaxCrashes
  /\ crashes' = crashes + 1
  /\ UNCHANGED <<rows, clientVars, selected, overdue, workerVars>>

Take(w, t, k) ==
  /\ Step(w, "idle", "claim")
  /\ Consume(t, k)
  /\ status[t] = "queued"
  /\ wtask' = [wtask EXCEPT ![w] = t]
  /\ wleft' = [wleft EXCEPT ![w] = k]
  /\ UNCHANGED <<rows, clientVars, selected, overdue, watt, crashes>>

Claim(w) ==
  /\ Step(w, "claim", "resolve")
  /\ transition_task(wtask[w], "running")
  /\ lapsed' = lapsed \ {wtask[w]}
  /\ UNCHANGED <<failure_code, attempts, clientVars, selected, overdue, queue,
                 wtask, wleft, watt, crashes>>

LoseClaim(w) ==
  /\ wpc[w] = "claim"
  /\ Finish(w)
  /\ ~Allowed(wtask[w], "running")
  /\ UNCHANGED <<rows, clientVars, selected, overdue, queue, crashes>>

(* A missing agent taken for a task with nothing to do.                     *)
ResolveMissing_COMPLETES(w) ==
  /\ Step(w, "resolve", "complete")
  /\ UNCHANGED <<rows, clientVars, selected, overdue, queue,
                 wtask, wleft, watt, crashes>>

(* The installation is gone, or its agent_key is no longer registered.      *)
ResolveMissing(w) ==
  /\ Step(w, "resolve", "fail")
  /\ UNCHANGED <<rows, clientVars, selected, overdue, queue,
                 wtask, wleft, watt, crashes>>

ResolveFound(w) ==
  /\ Step(w, "resolve", "attempt")
  /\ UNCHANGED <<rows, clientVars, selected, overdue, queue,
                 wtask, wleft, watt, crashes>>

(* The attempt row opened with the task's own status.                       *)
create_task_attempt_QUEUED(w) ==
  /\ Step(w, "attempt", "handle")
  /\ attempts' = [attempts EXCEPT ![wtask[w]] = Append(@, "queued")]
  /\ watt' = [watt EXCEPT ![w] = Len(attempts[wtask[w]]) + 1]
  /\ UNCHANGED <<status, version, events, failure_code, lapsed, clientVars,
                 selected, overdue, queue, wtask, wleft, crashes>>

(* create_task_attempt numbers the attempt under the task's row lock and    *)
(* does not look at the task's status.                                      *)
create_task_attempt(w) ==
  /\ Step(w, "attempt", "handle")
  /\ attempts' = [attempts EXCEPT ![wtask[w]] = Append(@, "running")]
  /\ watt' = [watt EXCEPT ![w] = Len(attempts[wtask[w]]) + 1]
  /\ UNCHANGED <<status, version, events, failure_code, lapsed, clientVars,
                 selected, overdue, queue, wtask, wleft, crashes>>

(* run_handler returns or raises; finish_task_attempt records which.        *)
finish_task_attempt(w, outcome) ==
  /\ Step(w, "handle", IF outcome = "succeeded" THEN "complete" ELSE "fail")
  /\ attempts' = [attempts EXCEPT ![wtask[w]] = [@ EXCEPT ![watt[w]] = outcome]]
  /\ UNCHANGED <<status, version, events, failure_code, lapsed, clientVars,
                 selected, overdue, queue, wtask, wleft, watt, crashes>>

(* The failure reported on the attempt only, and the task completed.        *)
Complete_ANYWAY(w) ==
  /\ wpc[w] \in {"complete", "fail"}
  /\ wpc' = [wpc EXCEPT ![w] = "handoffs"]
  /\ transition_task(wtask[w], "succeeded")
  /\ UNCHANGED <<failure_code, lapsed, attempts, clientVars, selected, overdue, queue,
                 wtask, wleft, watt, crashes>>

Complete(w) ==
  /\ Step(w, "complete", "handoffs")
  /\ transition_task(wtask[w], "succeeded")
  /\ UNCHANGED <<failure_code, lapsed, attempts, clientVars, selected, overdue, queue,
                 wtask, wleft, watt, crashes>>

Fail(w) ==
  /\ wpc[w] = "fail"
  /\ Finish(w)
  /\ transition_task(wtask[w], "failed")
  /\ failure_code' = failure_code \cup {wtask[w]}
  /\ UNCHANGED <<lapsed, attempts, clientVars, selected, overdue, queue, crashes>>

(* The reconciler timed the task out first: the last transition raises out  *)
(* of the job and Hatchet retries the run.                                  *)
SettleRaises(w) ==
  /\ \/ wpc[w] = "complete" /\ ~Allowed(wtask[w], "succeeded")
     \/ wpc[w] = "fail" /\ ~Allowed(wtask[w], "failed")
  /\ Redeliver(w)
  /\ Finish(w)
  /\ UNCHANGED <<rows, clientVars, selected, overdue, crashes>>

(* No connection from the pool: finish_task_attempt and transition_task then *)
(* return {"status": "failed"} instead of raising, and the job, which does   *)
(* not look, goes on as if the row had been written.                         *)
Unrecorded ==
  /\ crashes < MaxCrashes
  /\ crashes' = crashes + 1
  /\ UNCHANGED <<rows, clientVars, selected, queue>>

FinishUnrecorded(w, outcome) ==
  /\ Step(w, "handle", IF outcome = "succeeded" THEN "complete" ELSE "fail")
  /\ Unrecorded
  /\ UNCHANGED <<overdue, wtask, wleft, watt>>

CompleteUnrecorded(w) ==
  /\ Step(w, "complete", "handoffs")
  /\ Unrecorded
  /\ UNCHANGED <<overdue, wtask, wleft, watt>>

FailUnrecorded(w) ==
  /\ wpc[w] = "fail"
  /\ Finish(w)
  /\ Unrecorded
  /\ UNCHANGED overdue

(* agent_handoffs_enabled is off: the job returns.                          *)
Return(w) ==
  /\ wpc[w] = "handoffs"
  /\ Finish(w)
  /\ UNCHANGED <<rows, clientVars, selected, overdue, queue, crashes>>

----------------------------------------------------------------------------
(* reconcile_stuck_tasks: one select, then one transition per fetched row.  *)

(* Time passes: started_at falls behind the lease.                          *)
Lapse(t) ==
  /\ status[t] = "running"
  /\ t \notin lapsed
  /\ lapsed' = lapsed \cup {t}
  /\ UNCHANGED <<status, version, events, failure_code, attempts, clientVars,
                 selected, overdue, queue, workerVars, crashes>>

(* The lease applied to the wrong status. *)
SelectOverdue_QUEUED ==
  /\ overdue = {}
  /\ overdue' = {t \in lapsed : status[t] = "queued"}
  /\ overdue' # {}
  /\ UNCHANGED <<rows, clientVars, selected, queue, workerVars, crashes>>

SelectOverdue ==
  /\ overdue = {}
  /\ overdue' = {t \in lapsed : status[t] = "running"}
  /\ overdue' # {}
  /\ UNCHANGED <<rows, clientVars, selected, queue, workerVars, crashes>>

TimeOut(t) ==
  /\ t \in overdue
  /\ transition_task(t, "timed_out")
  /\ failure_code' = failure_code \cup {t}
  /\ overdue' = overdue \ {t}
  /\ UNCHANGED <<lapsed, attempts, clientVars, selected, queue, workerVars, crashes>>

SkipSettled(t) ==
  /\ t \in overdue
  /\ ~Allowed(t, "timed_out")
  /\ overdue' = overdue \ {t}
  /\ UNCHANGED <<rows, clientVars, selected, queue, workerVars, crashes>>

TimeOutUnrecorded(t) ==
  /\ t \in overdue
  /\ overdue' = overdue \ {t}
  /\ Unrecorded
  /\ UNCHANGED workerVars

ReconcilerCrash ==
  /\ overdue # {}
  /\ overdue' = {}
  /\ Unrecorded
  /\ UNCHANGED workerVars

----------------------------------------------------------------------------
ClientStep(c) ==
  \/ \E t \in Task, needs \in BOOLEAN :
       FindExisting(c, t, needs) \/ MissExisting(c, t, needs) \/ FindRouted(c, t, needs)
  \/ Insert(c)
  \/ InsertConflict(c)
  \/ Route(c)
  \/ RouteRaises(c)
  \/ ClientRetry(c)
  \/ ClientCrash(c)

DispatcherStep == SelectQueued \/ \E t \in Task : Enqueue(t)

Deliver(w) ==
  \E t \in Task, k \in 0..Retries : Ignore(w, t, k) \/ Take(w, t, k)

(* The worker's own code, once a run is delivered.                          *)
Work(w) ==
  \/ Claim(w)
  \/ LoseClaim(w)
  \/ ResolveMissing(w)
  \/ ResolveFound(w)
  \/ create_task_attempt(w)
  \/ \E outcome \in {"succeeded", "failed"} : finish_task_attempt(w, outcome)
  \/ Complete(w)
  \/ Fail(w)
  \/ SettleRaises(w)
  \/ Return(w)

Outage(w) ==
  \/ \E outcome \in {"succeeded", "failed"} : FinishUnrecorded(w, outcome)
  \/ CompleteUnrecorded(w)
  \/ FailUnrecorded(w)
  \/ \E t \in Task, k \in 0..Retries : IgnoreUnread(w, t, k)

ReconcilerStep ==
  \/ SelectOverdue
  \/ \E t \in Task : TimeOut(t) \/ SkipSettled(t)

Next ==
  \/ \E c \in Client : ClientStep(c)
  \/ DispatcherStep
  \/ DispatcherCrash
  \/ \E w \in Worker :
       Deliver(w) \/ Work(w) \/ Outage(w) \/ Crash(w) \/ ExecutionTimeout(w)
  \/ ReconcilerStep
  \/ ReconcilerCrash
  \/ \E t \in Task : TimeOutUnrecorded(t) \/ Lapse(t)

Spec == Init /\ [][Next]_vars

(* The dispatcher and the reconciler are called on a schedule, a running    *)
(* worker thread makes progress, and wall-clock time passes.  Nothing makes *)
(* a caller submit or resubmit.                                             *)
Fairness ==
  /\ WF_vars(DispatcherStep)
  /\ \A w \in Worker : WF_vars(Deliver(w)) /\ WF_vars(Work(w))
  /\ \A t \in Task : WF_vars(Lapse(t))
  /\ WF_vars(ReconcilerStep)

FairSpec == Spec /\ Fairness

----------------------------------------------------------------------------
(* Properties.                                                              *)

Settled == {"succeeded", "failed", "timed_out"}

(* Requests with one idempotency key disagreed about the approval.  The     *)
(* table lets the later of two routings move the task from waiting to       *)
(* queued, or from running back to waiting, so what the runtime keeps of a  *)
(* task's execution it keeps of the tasks whose requests agree.             *)
Contested(t) == asked[t] = BOOLEAN

(* Workers between a successful claim and the end of their job.             *)
Holding(w) == wpc[w] \notin {"idle", "claim"}

(* The event log is a faithful history of the row: contiguous versions      *)
(* from 1 to aggregate_version with one event each, starting at proposed,   *)
(* every consecutive pair a step of TASK_STATUS_TRANSITIONS, and the last   *)
(* event naming the row's status.  This is what an event-stream reader and  *)
(* an auditor rely on (repository.transition_task, events.append_event).    *)
EventLogMirrorsTask ==
  \A t \in Task :
     /\ \A n \in 1..version[t] : \E e \in events : e.task = t /\ e.version = n
     /\ \A e \in events : e.task = t =>
          /\ e.version \in 1..version[t]
          /\ e.version = 1 => e.to = "proposed"
          /\ e.version = version[t] => e.to = status[t]
          /\ \A f \in events : f.task = t =>
               /\ f.version = e.version => f = e
               /\ f.version = e.version + 1 => is_task_transition_allowed(e.to, f.to)

(* However many Hatchet runs a task gets (dispatched twice, redelivered     *)
(* after a crash, raced by a timed-out thread that is still alive), one     *)
(* worker at a time is between its claim and its end, unless requests of    *)
(* the task's key disagreed about its approval.                             *)
OneHolder ==
  \A v, w \in Worker :
     Holding(v) /\ Holding(w) /\ wtask[v] = wtask[w] => v = w \/ Contested(wtask[v])

NoSuccess(t, n) == \A i \in 1..n : attempts[t][i] # "succeeded"

(* The status of a task agrees with its attempt rows: a task that is not in *)
(* the middle or at the end of a run has no successful attempt behind it,   *)
(* and one that succeeded has no successful attempt but its last, which is  *)
(* not a failed one (it stays "running" when its outcome went unrecorded).  *)
(* The reconciler may time the row out at any point in between.  Claimed of *)
(* the tasks whose requests agree about the approval: another's routing     *)
(* takes the row of a running task back to waiting_for_approval.            *)
Backed(t) ==
  LET n == Len(attempts[t]) IN
  /\ status[t] \notin {"running", "timed_out", "succeeded"} => NoSuccess(t, n)
  /\ status[t] = "succeeded"
       => n > 0 /\ NoSuccess(t, n - 1) /\ attempts[t][n] # "failed"

StatusIsBacked == \A t \in Task : Contested(t) \/ Backed(t)

(* The strengthenings the proofs rest on.  What each worker between claim   *)
(* and end may assume about the rows it works on:                           *)
HolderSound(w) ==
  LET t == wtask[w]
      n == Len(attempts[t])
  IN  /\ wpc[w] \in {"resolve", "attempt", "handle", "complete", "fail"}
           => status[t] \in {"running", "timed_out"}
      /\ wpc[w] = "handoffs" => status[t] \in {"running", "timed_out", "succeeded"}
      /\ wpc[w] \in {"resolve", "attempt", "fail"} => NoSuccess(t, n)
      /\ wpc[w] = "handle"
           => n > 0 /\ watt[w] = n /\ attempts[t][n] = "running" /\ NoSuccess(t, n - 1)
      /\ wpc[w] = "complete"
           => n > 0 /\ attempts[t][n] # "failed" /\ NoSuccess(t, n - 1)

HolderInv ==
  \A w \in Worker : Holding(w) => Contested(wtask[w]) \/ HolderSound(w)

ExecutionInv == HolderInv /\ OneHolder /\ StatusIsBacked

(* A row exists exactly when it has a version. *)
RowInv == \A t \in Task : status[t] = "absent" <=> version[t] = 0

(* Control points at which a process has a task in hand, a request with     *)
(* what its policy said on record.                                          *)
InHand ==
  /\ \A c \in Client :
       cpc[c] \in {"insert", "route"} => ctask[c] \in Task /\ cneeds[c] \in asked[ctask[c]]
  /\ \A w \in Worker : wpc[w] # "idle" => wtask[w] \in Task

(* A task that no request could name without needing an approval, in        *)
(* flight or past, is never released, published or run by the paths of      *)
(* this module, whichever of its requests routed it, in whatever order, and *)
(* whatever the worker saw before.                                          *)
Unwaived == {t \in Task : FALSE \notin asked[t]}

ApprovalBeforeExecution ==
  \A t \in Unwaived :
     /\ status[t] \in {"absent", "proposed", "waiting_for_approval"}
     /\ attempts[t] = <<>>
     /\ \A k \in 0..Retries : queue[<<t, k>>] = 0

(* ... nor fetched by the dispatcher or in a worker's hands. *)
ApprovalInv ==
  /\ ApprovalBeforeExecution
  /\ selected \cap Unwaived = {}
  /\ \A w \in Worker : wpc[w] # "idle" => wtask[w] \notin Unwaived

(* No write of any process moves a task out of a terminal status, a failed  *)
(* task can only be queued again, and no process rewrites or removes an     *)
(* event: late threads, stale reconcilers and retried requests cannot       *)
(* change a verdict that was already published.                             *)
VerdictsAreFinal ==
  [][/\ \A t \in Task :
          /\ status[t] \in {"succeeded", "timed_out"} => status'[t] = status[t]
          /\ status[t] = "failed" => status'[t] \in {"failed", "queued"}
     /\ events \subseteq events']_vars

StageOf(s) ==
  CASE s = "absent"               -> "none"
    [] s = "proposed"             -> "accepted"
    [] s = "waiting_for_approval" -> "held"
    [] s = "queued"               -> "ready"
    [] s = "running"              -> "started"
    [] OTHER                      -> s

Contract == INSTANCE TaskContract
  WITH stage  <- [t \in Task |-> StageOf(status[t])],
       starts <- [t \in Task |->
                    Cardinality({e \in events : e.task = t /\ e.to = "running"})],
       runs   <- [t \in Task |-> Len(attempts[t])],
       waived <- {t \in Task : FALSE \in asked[t]},
       torn   <- {t \in Task : Contested(t)}

(* The runtime implements the task contract.                                *)
ImplementsContract == Contract!Spec

(* ... and keeps its promise that a released task is started and settled,   *)
(* through crashes, lost runs and hung threads.                             *)
ReleasedTasksSettle == Contract!FairSpec

(* create_task's docstring: "Re-submitting the same (tenant_id,             *)
(* idempotency_key) returns the existing task unchanged instead of raising".*)
ResubmissionNeverRaises == \A c \in Client : cpc[c] # "create_raised"

(* policy.py: "higher-risk work creates an approval request".  No task is   *)
(* queued that a request of its key has named whose risk class requires     *)
(* approval.                                                                *)
RiskyWorkWaits ==
  [][\A t \in Task :
       status[t] \in {"proposed", "waiting_for_approval"} /\ status'[t] = "queued"
         => TRUE \notin asked[t]]_vars

(* ... and a task that runs is not taken back to wait for an approval: no   *)
(* handler asks for one, so its run settles it.                             *)
RunningIsNotRecalled ==
  [][\A t \in Task : status[t] = "running" => status'[t] # "waiting_for_approval"]_vars

(* models.py: "the lifecycle diagram ... allows failed -> queued under retry *)
(* policy".  No retry policy exists, so a failed task stays failed.         *)
FailedWaitsForRetryPolicy ==
  [][\A t \in Task : status[t] = "failed" => status'[t] = "failed"]_vars

(* models.py: "a later retry's transition to QUEUED is expected to clear    *)
(* them" (failure_code and failure_detail_public).                          *)
SuccessCarriesNoFailureCode ==
  \A t \in Task : status[t] = "succeeded" => t \notin failure_code

(* workflows.py, "4. A retry creates a new attempt row": a run delivered    *)
(* again for a task whose worker died, inside the task's lease, is executed *)
(* and not dropped.                                                         *)
Orphaned(t) ==
  /\ status[t] = "running"
  /\ t \notin lapsed
  /\ \A w \in Worker : Holding(w) => wtask[w] # t
RetryIsExecuted ==
  [][\A t \in Task, k \in 0..(Retries - 1) :
       Orphaned(t) /\ queue'[<<t, k>>] < queue[<<t, k>>]
         => \E w \in Worker : wpc[w] = "idle" /\ wtask'[w] = t]_vars

(* dispatch_ready_tasks: "Publish every `queued` task that has no Hatchet   *)
(* run yet": a task never has two undelivered runs of its own dispatching.  *)
PublishedOnce ==
  [][\A t \in Task :
       queue'[<<t, Retries>>] > queue[<<t, Retries>>]
         => /\ \A k \in 0..Retries : queue[<<t, k>>] = 0
            /\ \A w \in Worker : wpc[w] # "idle" => wtask[w] # t]_vars
=============================================================================

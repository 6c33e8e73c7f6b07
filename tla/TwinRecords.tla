----------------------------- MODULE TwinRecords -----------------------------
(***************************************************************************)
(* What the twins write down beside their messages (twins/execution.py,    *)
(* tools.py, api.py, store.py): executions of a scheduled cycle under one  *)
(* Idempotency-Key, the escalation of one reasoning trace whose approval   *)
(* deadline passed, and the governance event of each message delivered.    *)
(* Each file is mutated under its lock; a step here is one such mutation   *)
(* or one read.                                                            *)
(***************************************************************************)
EXTENDS Integers, FiniteSets

CONSTANTS
  Cycle,        \* submissions of the cycle with the one key
  EventJob,     \* event executions
  Dispatch,     \* messages, each sent once
  MaxRestarts   \* bound: crashes of the server

ASSUME RecordsAssumption == MaxRestarts \in Nat

VARIABLES
  hatchet,      \* STRATEGYOS_RUN_EXECUTION_MODE is "hatchet"
  executions,   \* execution log: [by, keyed, status]
  cycleStep,    \* per submission: where it is
  ran,          \* submissions whose cycle ran
  ranBefore,    \* per submission: the cycles that ran when it looked
  trace,        \* approval_disposition of the trace
  itemApproved,     \* a human recorded an approval of it
  jobStep,      \* per event execution: where it is
  escalated,    \* routing log: event executions that escalated the trace
  escBefore,    \* per event execution: escalations when it looked
  delivered,    \* messages in the recipients' inboxes
  dispatchStep, \* per message: where its sender is
  routed,       \* per message: message_dispatched events in the log
  restarts      \* crashes so far

cycleVars == <<hatchet, executions, cycleStep, ran, ranBefore>>
traceVars == <<trace, itemApproved, jobStep, escalated, escBefore>>
dispatchVars == <<delivered, dispatchStep, routed>>
recordVars == <<cycleVars, traceVars, dispatchVars, restarts>>

RecordsTypeOK ==
  /\ hatchet \in BOOLEAN
  /\ executions \subseteq [by : Cycle, keyed : BOOLEAN,
                           status : {"queued", "running", "completed", "failed"}]
  /\ cycleStep \in [Cycle -> {"idle", "looked", "saved", "ran", "queued",
                              "answered", "replayed", "crashed"}]
  /\ ran \subseteq Cycle
  /\ ranBefore \in [Cycle -> SUBSET Cycle]
  /\ trace \in {"pending", "deadline_escalated"}
  /\ itemApproved \in BOOLEAN
  /\ jobStep \in [EventJob -> {"idle", "collected", "marked", "over"}]
  /\ escalated \subseteq EventJob
  /\ escBefore \in [EventJob -> SUBSET EventJob]
  /\ delivered \subseteq Dispatch
  /\ dispatchStep \in [Dispatch -> {"idle", "appended", "over"}]
  /\ routed \in [Dispatch -> Nat]
  /\ restarts \in 0..MaxRestarts

RecordsInit ==
  /\ hatchet \in BOOLEAN
  /\ executions = {}
  /\ cycleStep = [c \in Cycle |-> "idle"]
  /\ ran = {} /\ ranBefore = [c \in Cycle |-> {}]
  /\ trace = "pending" /\ itemApproved = FALSE
  /\ jobStep = [j \in EventJob |-> "idle"]
  /\ escalated = {} /\ escBefore = [j \in EventJob |-> {}]
  /\ delivered = {} /\ dispatchStep = [m \in Dispatch |-> "idle"]
  /\ routed = [m \in Dispatch |-> 0]
  /\ restarts = 0

Saved(c, keyed, status) == [by |-> c, keyed |-> keyed, status |-> status]

----------------------------------------------------------------------------
(* Scheduled cycles: submit_scheduled_cycle.                                *)

CycleGoes(c, from, to) ==
  /\ cycleStep[c] = from
  /\ cycleStep' = [cycleStep EXCEPT ![c] = to]
  /\ UNCHANGED <<hatchet, traceVars, dispatchVars, restarts>>

(* execute_scheduled_cycle_job: find_by_idempotency_key; an execution in    *)
(* any status is replayed.                                                  *)
LookUpKey(c) ==
  /\ ~hatchet
  /\ CycleGoes(c, "idle", IF \E e \in executions : e.keyed THEN "replayed" ELSE "looked")
  /\ ranBefore' = [ranBefore EXCEPT ![c] = ran]
  /\ UNCHANGED <<executions, ran>>

SaveRunning(c) ==
  /\ CycleGoes(c, "looked", "saved")
  /\ executions' = executions \cup {Saved(c, TRUE, "running")}
  /\ UNCHANGED <<ran, ranBefore>>

(* Mutant: the cycle runs before its record is saved.                       *)
RunCycle_UNSAVED(c) ==
  /\ CycleGoes(c, "looked", "ran")
  /\ ran' = ran \cup {c}
  /\ executions' = executions \cup {Saved(c, FALSE, "running")}
  /\ UNCHANGED ranBefore

RunCycle(c) ==
  /\ CycleGoes(c, "saved", "ran")
  /\ ran' = ran \cup {c}
  /\ UNCHANGED <<executions, ranBefore>>

FinishCycle(c, outcome) ==
  /\ CycleGoes(c, "ran", "answered")
  /\ executions' = (executions \ {e \in executions : e.by = c})
                     \cup {Saved(c, TRUE, outcome)}
  /\ UNCHANGED <<ran, ranBefore>>

(* In hatchet mode the key is stored and not looked up,                     *)
SubmitQueued(c) ==
  /\ hatchet
  /\ CycleGoes(c, "idle", "queued")
  /\ ranBefore' = [ranBefore EXCEPT ![c] = ran]
  /\ executions' = executions \cup {Saved(c, TRUE, "queued")}
  /\ UNCHANGED ran

(* and the worker runs the cycle under a record of its own, without a key.  *)
RunQueued(c) ==
  /\ CycleGoes(c, "queued", "answered")
  /\ ran' = ran \cup {c}
  /\ executions' = executions \cup {Saved(c, FALSE, "completed")}
  /\ UNCHANGED ranBefore

----------------------------------------------------------------------------
(* Deadlines: execute_event_execution_job.                                  *)

(* approve_twin_item appends a decision; the trace does not change.         *)
ApproveItem ==
  /\ ~itemApproved
  /\ itemApproved' = TRUE
  /\ UNCHANGED <<cycleVars, trace, jobStep, escalated, escBefore, dispatchVars,
                 restarts>>

(* _collect_approval_deadline_events.                                       *)
CollectDeadlines(j) ==
  /\ jobStep[j] = "idle"
  /\ jobStep' = [jobStep EXCEPT ![j] =
                   IF trace = "pending" THEN "collected" ELSE "over"]
  /\ escBefore' = [escBefore EXCEPT ![j] = escalated]
  /\ UNCHANGED <<cycleVars, trace, itemApproved, escalated, dispatchVars, restarts>>

MarkEscalated(j) ==
  /\ jobStep[j] = "collected"
  /\ trace' = "deadline_escalated"
  /\ jobStep' = [jobStep EXCEPT ![j] = "marked"]
  /\ UNCHANGED <<cycleVars, itemApproved, escalated, escBefore, dispatchVars, restarts>>

SaveEscalation(j) ==
  /\ jobStep[j] = "marked"
  /\ escalated' = escalated \cup {j}
  /\ jobStep' = [jobStep EXCEPT ![j] = "over"]
  /\ UNCHANGED <<cycleVars, trace, itemApproved, escBefore, dispatchVars, restarts>>

----------------------------------------------------------------------------
(* Messages: send_message, the recipient's next cycle, the next start.      *)

AppendToInbox(m) ==
  /\ dispatchStep[m] = "idle"
  /\ delivered' = delivered \cup {m}
  /\ dispatchStep' = [dispatchStep EXCEPT ![m] = "appended"]
  /\ UNCHANGED <<cycleVars, traceVars, routed, restarts>>

(* ensure_routing_event: looks and appends under the log's lock.            *)
Ensured(m) == IF routed[m] = 0 THEN 1 ELSE routed[m]

EnsureRouting(m) ==
  /\ dispatchStep[m] = "appended"
  /\ routed' = [routed EXCEPT ![m] = Ensured(m)]
  /\ dispatchStep' = [dispatchStep EXCEPT ![m] = "over"]
  /\ UNCHANGED <<cycleVars, traceVars, delivered, restarts>>

ConsumeInbox ==
  /\ delivered # {}
  /\ delivered' = {}
  /\ UNCHANGED <<cycleVars, traceVars, dispatchStep, routed, restarts>>

(* The server dies and starts again (the worker that runs hatchet's cycles  *)
(* and another replica's senders live on).  reconcile_message_routing_audit *)
(* at the start restores the events of what the inboxes still hold.         *)
Restart(dying) ==
  /\ restarts < MaxRestarts
  /\ restarts' = restarts + 1
  /\ cycleStep' = [c \in Cycle |-> IF cycleStep[c] \in {"looked", "saved", "ran"}
                                   THEN "crashed" ELSE cycleStep[c]]
  /\ jobStep' = [j \in EventJob |-> IF jobStep[j] # "idle" THEN "over"
                                                           ELSE "idle"]
  /\ dispatchStep' = [m \in Dispatch |-> IF m \in dying /\ dispatchStep[m] # "idle"
                                         THEN "over" ELSE dispatchStep[m]]
  /\ routed' = [m \in Dispatch |-> IF m \in delivered THEN Ensured(m) ELSE routed[m]]
  /\ UNCHANGED <<hatchet, executions, ran, ranBefore, trace, itemApproved, escalated,
                 escBefore, delivered>>

RecordsNext ==
  \/ \E c \in Cycle :
       \/ LookUpKey(c) \/ SaveRunning(c) \/ RunCycle(c)
       \/ \E outcome \in {"completed", "failed"} : FinishCycle(c, outcome)
       \/ SubmitQueued(c) \/ RunQueued(c)
  \/ ApproveItem
  \/ \E j \in EventJob :
       CollectDeadlines(j) \/ MarkEscalated(j) \/ SaveEscalation(j)
  \/ \E m \in Dispatch : AppendToInbox(m) \/ EnsureRouting(m)
  \/ ConsumeInbox
  \/ \E dying \in SUBSET Dispatch : Restart(dying)

RecordsSpec == RecordsInit /\ [][RecordsNext]_recordVars

----------------------------------------------------------------------------
(* In the in-process mode a key runs its cycle again only for a submission  *)
(* that looked before the first run, and a deadline is escalated again only *)
(* by a job that looked before the first escalation: also a crash between   *)
(* any two steps repeats neither, because both are written down first.  A   *)
(* message has one message_dispatched event at most, however its sender, a  *)
(* second replica and the reconciliation of a restart interleave.           *)
OnlyRacesRepeat ==
  /\ ~hatchet => \A c \in ran : ranBefore[c] = {}
  /\ \A j \in escalated : escBefore[j] = {}
  /\ \A m \in Dispatch : routed[m] <= 1

(* twins/api.py: "a repeated key returns the original execution record      *)
(* rather than re-running the cycle".  Violated in hatchet mode, and by two *)
(* submissions that look at once.                                           *)
OncePerKey == Cardinality(ran) <= 1

(* Approving an item ends its wait.  Violated: the deadline is read from    *)
(* the trace, which no decision changes.                                    *)
ApprovedIsNotEscalated ==
  [][itemApproved => \A j \in EventJob : jobStep[j] = "idle" => jobStep'[j] # "collected"
    ]_recordVars

(* A message whose sender is done has its "governance event paired with an  *)
(* inbox message" (tools.py).  Violated: the sender dies and the recipient  *)
(* consumes the message before the next start.                              *)
DispatchAudited == \A m \in Dispatch : dispatchStep[m] = "over" => routed[m] = 1

=============================================================================

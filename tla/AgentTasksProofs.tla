-------------------------- MODULE AgentTasksProofs --------------------------
(***************************************************************************)
(* Proofs about AgentTasks, for every set of tasks, clients and workers    *)
(* and every value of the bounds.                                          *)
(***************************************************************************)
EXTENDS AgentTasks, TLAPS, SequenceTheorems

(* What transition_task accepts is a status of the table, and a row that    *)
(* is absent has no transition.                                             *)
LEMMA AllowedIsTyped ==
  ASSUME NEW current, NEW target, is_task_transition_allowed(current, target)
  PROVE  target \in TaskStatus /\ current \in TaskStatus /\ current # "absent"
BY DEF is_task_transition_allowed, TASK_STATUS_TRANSITIONS, TaskStatus

(* The two writers of a row keep status, version and events in their types. *)
LEMMA TransitionTyped ==
  ASSUME TypeOK, NEW t \in Task, NEW target, transition_task(t, target)
  PROVE  /\ status' \in [Task -> RowStatus]
         /\ version' \in [Task -> Nat]
         /\ events' \subseteq Event
         /\ status[t] # "absent"
<1>1. target \in TaskStatus /\ status[t] # "absent"
  BY AllowedIsTyped DEF transition_task, Allowed
<1>2. version[t] + 1 \in Nat
  BY DEF TypeOK
<1> QED
  BY <1>1, <1>2 DEF TypeOK, transition_task, append_event, Event, RowStatus

LEMMA InsertTyped ==
  ASSUME TypeOK, NEW t \in Task, insert_task(t)
  PROVE  /\ status' \in [Task -> RowStatus]
         /\ version' \in [Task -> Nat]
         /\ events' \subseteq Event
<1>1. "proposed" \in TaskStatus
  BY DEF TaskStatus
<1> QED
  BY <1>1 DEF TypeOK, insert_task, append_event, Event, RowStatus

(* Writing an attempt keeps the attempts a sequence of attempt statuses, as *)
(* long as it was.                                                          *)
LEMMA AttemptTyped ==
  ASSUME NEW s \in Seq(AttemptStatus), NEW i \in Nat, NEW a \in AttemptStatus
  PROVE  [s EXCEPT ![i] = a] \in Seq(AttemptStatus) /\ Len([s EXCEPT ![i] = a]) = Len(s)
<1>1. CASE i \in 1..Len(s)
  BY <1>1, ExceptSeq
<1>2. CASE i \notin 1..Len(s)
  <2>1. DOMAIN s = 1..Len(s) /\ s \in [1..Len(s) -> AttemptStatus]
    BY LenProperties
  <2>2. [s EXCEPT ![i] = a] = s
    BY <1>2, <2>1
  <2> QED
    BY <2>2
<1> QED
  BY <1>1, <1>2

(* What the policy said of a request stays on record.                       *)
AskedGrows == \A t \in Task : asked[t] \subseteq asked'[t]

LEMMA AsksTyped ==
  ASSUME TypeOK, NEW t \in Task, NEW needs \in BOOLEAN, Asks(t, needs)
  PROVE  asked' \in [Task -> SUBSET BOOLEAN] /\ AskedGrows /\ needs \in asked'[t]
BY DEF TypeOK, Asks, AskedGrows

LEMMA ClientAskedGrows ==
  ASSUME TypeOK, NEW c \in Client, ClientStep(c)
  PROVE  AskedGrows
<1>1. ASSUME NEW t \in Task, NEW needs \in BOOLEAN, Asks(t, needs) PROVE AskedGrows
  BY <1>1, AsksTyped
<1>2. CASE UNCHANGED asked
  BY <1>2 DEF AskedGrows
<1> QED
  BY <1>1, <1>2
     DEF ClientStep, FindExisting, MissExisting, FindRouted, LookUp, Insert,
         InsertConflict, Route, RouteRaises, ClientRetry, ClientCrash, Leave

(* Only a request adds to it. *)
LEMMA OnlyClientsAsk ==
  ASSUME \/ DispatcherStep \/ DispatcherCrash \/ ReconcilerStep \/ ReconcilerCrash
         \/ \E t \in Task : TimeOutUnrecorded(t) \/ Lapse(t)
         \/ \E w \in Worker :
              Deliver(w) \/ Work(w) \/ Outage(w) \/ Crash(w) \/ ExecutionTimeout(w)
  PROVE  UNCHANGED asked
<1>1. CASE \/ DispatcherStep \/ DispatcherCrash \/ ReconcilerStep \/ ReconcilerCrash
           \/ \E t \in Task : TimeOutUnrecorded(t) \/ Lapse(t)
  BY <1>1 DEF DispatcherStep, SelectQueued, Enqueue, DispatcherCrash, ReconcilerStep,
              SelectOverdue, TimeOut, SkipSettled, ReconcilerCrash, TimeOutUnrecorded,
              Unrecorded, Lapse, clientVars
<1>2. ASSUME NEW w \in Worker, Deliver(w) \/ Outage(w) \/ Crash(w) \/ ExecutionTimeout(w)
      PROVE  UNCHANGED asked
  BY <1>2 DEF Deliver, Ignore, Take, Outage, FinishUnrecorded, CompleteUnrecorded,
              FailUnrecorded, IgnoreUnread, Unrecorded, Crash, ExecutionTimeout, clientVars
<1>3. ASSUME NEW w \in Worker, Work(w) PROVE UNCHANGED asked
  BY <1>3 DEF Work, Claim, LoseClaim, ResolveMissing, ResolveFound, create_task_attempt,
              finish_task_attempt, Complete, Fail, SettleRaises, Return, clientVars
<1> QED
  BY <1>1, <1>2, <1>3

(* Hatchet's queue counts stay naturals.                                    *)
LEMMA CountUp ==
  ASSUME NEW S, NEW f \in [S -> Nat], NEW d
  PROVE  [f EXCEPT ![d] = @ + 1] \in [S -> Nat]
<1>1. CASE d \in S
  BY <1>1
<1>2. CASE d \notin S
  BY <1>2
<1> QED
  BY <1>1, <1>2

LEMMA PublishTyped ==
  ASSUME TypeOK, NEW t, NEW k, Publish(t, k)
  PROVE  queue' \in [Task \X (0..Retries) -> Nat]
BY CountUp DEF TypeOK, Publish

LEMMA RedeliverTyped ==
  ASSUME TypeOK, NEW w \in Worker, Redeliver(w)
  PROVE  queue' \in [Task \X (0..Retries) -> Nat]
BY PublishTyped DEF Redeliver, TypeOK

LEMMA ConsumeTyped ==
  ASSUME TypeOK, NEW t \in Task, NEW k \in 0..Retries, Consume(t, k)
  PROVE  queue' \in [Task \X (0..Retries) -> Nat]
<1> DEFINE S == Task \X (0..Retries)
           d == <<t, k>>
<1>1. d \in S /\ queue \in [S -> Nat] /\ queue[d] > 0
  BY DEF TypeOK, Consume
<1>2. queue' = [queue EXCEPT ![d] = @ - 1]
  BY DEF Consume
<1> HIDE DEF S, d
<1>3. queue' \in [S -> Nat]
  BY <1>1, <1>2
<1> QED
  BY <1>3 DEF S

TypeInv == TypeOK /\ InHand

LEMMA TypeInvInit == Init => TypeInv
<1> SUFFICES ASSUME Init PROVE TypeInv
  OBVIOUS
<1>1. 0 \in 0..Retries /\ 0 \in 0..MaxCrashes
  BY BoundsAssumption
<1>2. <<>> \in Seq(AttemptStatus)
  BY EmptySeq
<1> QED
  BY <1>1, <1>2 DEF Init, TypeInv, TypeOK, InHand, RowStatus, ClientPC, WorkerPC

LEMMA TypeInvClient ==
  ASSUME TypeInv, NEW c \in Client, ClientStep(c)
  PROVE  TypeInv'
<1> USE DEF TypeInv
<1>1. ASSUME NEW t \in Task, NEW needs \in BOOLEAN, NEW next \in {"route", "insert"},
             LookUp(c, t, needs, next)
      PROVE  TypeInv'
  <2>1. Asks(t, needs) /\ next \in ClientPC
    BY <1>1 DEF LookUp, ClientPC
  <2>2. TypeOK'
    BY <1>1, <2>1, AsksTyped DEF LookUp, TypeOK, rows, workerVars
  <2>3. ASSUME NEW d \in Client, cpc'[d] \in {"insert", "route"}
        PROVE  ctask'[d] \in Task /\ cneeds'[d] \in asked'[ctask'[d]]
    BY <1>1, <2>1, <2>3, AsksTyped DEF LookUp, TypeOK, InHand, AskedGrows
  <2>4. \A w \in Worker : wpc'[w] # "idle" => wtask'[w] \in Task
    BY <1>1 DEF LookUp, InHand, workerVars
  <2> QED
    BY <2>2, <2>3, <2>4 DEF InHand
<1>2. ASSUME NEW t \in Task, NEW needs \in BOOLEAN, FindRouted(c, t, needs) PROVE TypeInv'
  <2>1. Asks(t, needs)
    BY <1>2 DEF FindRouted
  <2>2. TypeOK'
    BY <1>2, <2>1, AsksTyped DEF FindRouted, TypeOK, rows, workerVars
  <2> QED
    BY <1>2, <2>1, <2>2, AsksTyped DEF FindRouted, TypeOK, InHand, AskedGrows, workerVars
<1>3. CASE Insert(c)
  <2>1. ctask[c] \in Task
    BY <1>3 DEF Insert, InHand
  <2>2. /\ status' \in [Task -> RowStatus]
        /\ version' \in [Task -> Nat]
        /\ events' \subseteq Event
    BY <1>3, <2>1, InsertTyped DEF Insert
  <2> QED
    BY <1>3, <2>1, <2>2 DEF Insert, TypeOK, InHand, ClientPC, RowStatus, TaskStatus, workerVars
<1>4. ASSUME NEW pc \in ClientPC \ {"insert", "route"}, Leave(c, pc)
      PROVE  /\ cpc' \in [Client -> ClientPC]
             /\ ctask' \in [Client -> Task \cup {NoTask}]
             /\ cneeds' \in [Client -> BOOLEAN]
             /\ asked' = asked
             /\ \A d \in Client : cpc'[d] \in {"insert", "route"} =>
                  ctask'[d] \in Task /\ cneeds'[d] \in asked'[ctask'[d]]
  BY <1>4 DEF Leave, TypeOK, InHand
<1>5. CASE Route(c)
  <2>1. ctask[c] \in Task
    BY <1>5 DEF Route, InHand
  <2>2. /\ status' \in [Task -> RowStatus]
        /\ version' \in [Task -> Nat]
        /\ events' \subseteq Event
    BY <1>5, <2>1, TransitionTyped DEF Route
  <2>3. Leave(c, "idle") /\ "idle" \in ClientPC \ {"insert", "route"}
    BY <1>5 DEF Route, ClientPC
  <2> HIDE DEF TypeInv
  <2>4. TypeOK' /\ InHand'
    BY <1>4, <1>5, <2>2, <2>3 DEF Route, TypeInv, TypeOK, InHand, workerVars
  <2> QED
    BY <2>4 DEF TypeInv
<1>6. CASE InsertConflict(c) \/ RouteRaises(c) \/ ClientRetry(c)
  <2>1. PICK pc \in ClientPC \ {"insert", "route"} : Leave(c, pc)
    BY <1>6 DEF InsertConflict, RouteRaises, ClientRetry, ClientPC
  <2>2. UNCHANGED <<rows, selected, overdue, queue, workerVars, crashes>>
    BY <1>6 DEF InsertConflict, RouteRaises, ClientRetry
  <2> QED
    BY <1>4, <2>1, <2>2 DEF TypeOK, InHand, rows, workerVars
<1>7. CASE ClientCrash(c)
  <2>1. crashes' \in 0..MaxCrashes
    BY <1>7, BoundsAssumption DEF ClientCrash, TypeOK
  <2>2. Leave(c, "idle") /\ "idle" \in ClientPC \ {"insert", "route"}
    BY <1>7 DEF ClientCrash, ClientPC
  <2> QED
    BY <1>4, <1>7, <2>1, <2>2 DEF ClientCrash, TypeOK, InHand, rows, workerVars
<1> QED
  BY <1>1, <1>2, <1>3, <1>5, <1>6, <1>7 DEF ClientStep, FindExisting, MissExisting

LEMMA TypeInvDispatcher ==
  ASSUME TypeInv, DispatcherStep \/ DispatcherCrash
  PROVE  TypeInv'
<1> USE DEF TypeInv
<1>1. CASE SelectQueued
  BY <1>1 DEF SelectQueued, TypeOK, InHand, rows, clientVars, workerVars
<1>2. ASSUME NEW t \in Task, Enqueue(t) PROVE TypeInv'
  BY <1>2, PublishTyped DEF Enqueue, TypeOK, InHand, rows, clientVars, workerVars
<1>3. CASE DispatcherCrash
  <2>1. crashes' \in 0..MaxCrashes
    BY <1>3, BoundsAssumption DEF DispatcherCrash, TypeOK
  <2> QED
    BY <1>3, <2>1 DEF DispatcherCrash, TypeOK, InHand, rows, clientVars, workerVars
<1> QED
  BY <1>1, <1>2, <1>3 DEF DispatcherStep

LEMMA FaultCounted ==
  ASSUME TypeOK, Unrecorded
  PROVE  crashes' \in 0..MaxCrashes
BY BoundsAssumption DEF TypeOK, Unrecorded

LEMMA TypeInvReconciler ==
  ASSUME TypeInv,
         ReconcilerStep \/ ReconcilerCrash \/ \E t \in Task : TimeOutUnrecorded(t) \/ Lapse(t)
  PROVE  TypeInv'
<1> USE DEF TypeInv
<1>1. CASE SelectOverdue
  BY <1>1 DEF SelectOverdue, TypeOK, InHand, rows, clientVars, workerVars
<1>2. ASSUME NEW t \in Task, TimeOut(t) PROVE TypeInv'
  <2>1. /\ status' \in [Task -> RowStatus]
        /\ version' \in [Task -> Nat]
        /\ events' \subseteq Event
    BY <1>2, TransitionTyped DEF TimeOut
  <2> QED
    BY <1>2, <2>1 DEF TimeOut, TypeOK, InHand, clientVars, workerVars
<1>3. ASSUME NEW t \in Task, SkipSettled(t) PROVE TypeInv'
  BY <1>3 DEF SkipSettled, TypeOK, InHand, rows, clientVars, workerVars
<1>4. ASSUME NEW t \in Task, Lapse(t) PROVE TypeInv'
  BY <1>4 DEF Lapse, TypeOK, InHand, clientVars, workerVars
<1>5. ASSUME ReconcilerCrash \/ \E t \in Task : TimeOutUnrecorded(t) PROVE TypeInv'
  <2>1. crashes' \in 0..MaxCrashes
    BY <1>5, FaultCounted DEF ReconcilerCrash, TimeOutUnrecorded
  <2> QED
    BY <1>5, <2>1 DEF ReconcilerCrash, TimeOutUnrecorded, Unrecorded, TypeOK, InHand,
                      rows, clientVars, workerVars
<1> QED
  BY <1>1, <1>2, <1>3, <1>4, <1>5 DEF ReconcilerStep

(* Hatchet's own steps: a delivery, a crash, an execution timeout.          *)
LEMMA TypeInvHatchet ==
  ASSUME TypeInv, NEW w \in Worker, Deliver(w) \/ Crash(w) \/ ExecutionTimeout(w)
  PROVE  TypeInv'
<1> USE DEF TypeInv
<1>1. ASSUME NEW t \in Task, NEW k \in 0..Retries, Ignore(w, t, k) PROVE TypeInv'
  BY <1>1, ConsumeTyped DEF Ignore, TypeOK, InHand, rows, clientVars, workerVars
<1>2. ASSUME NEW t \in Task, NEW k \in 0..Retries, Take(w, t, k) PROVE TypeInv'
  BY <1>2, ConsumeTyped DEF Take, Step, TypeOK, InHand, WorkerPC, rows, clientVars
<1>3. CASE Crash(w)
  <2>1. crashes' \in 0..MaxCrashes /\ 0 \in 0..Retries
    BY <1>3, BoundsAssumption DEF Crash, TypeOK
  <2> QED
    BY <1>3, <2>1, RedeliverTyped
       DEF Crash, Finish, TypeOK, InHand, WorkerPC, rows, clientVars
<1>4. CASE ExecutionTimeout(w)
  <2>1. 0 \in 0..Retries
    BY BoundsAssumption
  <2> QED
    BY <1>4, <2>1, RedeliverTyped
       DEF ExecutionTimeout, TypeOK, InHand, WorkerPC, rows, clientVars
<1> QED
  BY <1>1, <1>2, <1>3, <1>4 DEF Deliver

LEMMA TypeInvWork ==
  ASSUME TypeInv, NEW w \in Worker, Work(w)
  PROVE  TypeInv'
<1> USE DEF TypeInv
<1>1. 0 \in 0..Retries
  BY BoundsAssumption
<1>2. wpc[w] # "idle" => wtask[w] \in Task
  BY DEF InHand
<1>3. ASSUME NEW target, transition_task(wtask[w], target), wpc[w] # "idle"
      PROVE  /\ status' \in [Task -> RowStatus]
             /\ version' \in [Task -> Nat]
             /\ events' \subseteq Event
  BY <1>2, <1>3, TransitionTyped
<1>4. CASE Claim(w)
  BY <1>2, <1>3, <1>4 DEF Claim, Step, TypeOK, InHand, WorkerPC, clientVars
<1>5. CASE LoseClaim(w)
  BY <1>1, <1>5 DEF LoseClaim, Finish, TypeOK, InHand, WorkerPC, rows, clientVars
<1>6. CASE ResolveMissing(w)
  BY <1>6 DEF ResolveMissing, Step, TypeOK, InHand, WorkerPC, rows, clientVars
<1>7. CASE ResolveFound(w)
  BY <1>7 DEF ResolveFound, Step, TypeOK, InHand, WorkerPC, rows, clientVars
<1>8. CASE create_task_attempt(w)
  <2>1. wtask[w] \in Task /\ attempts[wtask[w]] \in Seq(AttemptStatus)
    BY <1>2, <1>8 DEF create_task_attempt, Step, TypeOK
  <2>2. /\ Append(attempts[wtask[w]], "running") \in Seq(AttemptStatus)
        /\ Len(attempts[wtask[w]]) + 1 \in Nat
    BY <2>1, AppendProperties, LenProperties DEF AttemptStatus
  <2> QED
    BY <1>8, <2>1, <2>2 DEF create_task_attempt, Step, TypeOK, InHand, WorkerPC, clientVars
<1>9. ASSUME NEW outcome \in {"succeeded", "failed"}, finish_task_attempt(w, outcome)
      PROVE  TypeInv'
  <2>1. wtask[w] \in Task /\ attempts[wtask[w]] \in Seq(AttemptStatus) /\ watt[w] \in Nat
    BY <1>2, <1>9 DEF finish_task_attempt, Step, TypeOK
  <2>2. [attempts[wtask[w]] EXCEPT ![watt[w]] = outcome] \in Seq(AttemptStatus)
    BY <2>1, AttemptTyped DEF AttemptStatus
  <2> QED
    BY <1>9, <2>1, <2>2 DEF finish_task_attempt, Step, TypeOK, InHand, WorkerPC, clientVars
<1>10. CASE Complete(w)
  BY <1>2, <1>3, <1>10 DEF Complete, Step, TypeOK, InHand, WorkerPC, clientVars
<1>11. CASE Fail(w)
  BY <1>1, <1>2, <1>3, <1>11 DEF Fail, Finish, TypeOK, InHand, WorkerPC, clientVars
<1>12. CASE SettleRaises(w)
  BY <1>1, <1>12, RedeliverTyped
     DEF SettleRaises, Finish, TypeOK, InHand, WorkerPC, rows, clientVars
<1>13. CASE Return(w)
  BY <1>1, <1>13 DEF Return, Finish, TypeOK, InHand, WorkerPC, rows, clientVars
<1> QED
  BY <1>4, <1>5, <1>6, <1>7, <1>8, <1>9, <1>10, <1>11, <1>12, <1>13 DEF Work

LEMMA TypeInvOutage ==
  ASSUME TypeInv, NEW w \in Worker, Outage(w)
  PROVE  TypeInv'
<1> USE DEF TypeInv
<1>1. crashes' \in 0..MaxCrashes /\ 0 \in 0..Retries
  BY FaultCounted, BoundsAssumption
     DEF Outage, FinishUnrecorded, CompleteUnrecorded, FailUnrecorded, IgnoreUnread, TypeOK
<1>2. ASSUME NEW outcome \in {"succeeded", "failed"}, FinishUnrecorded(w, outcome)
      PROVE  TypeInv'
  BY <1>1, <1>2 DEF FinishUnrecorded, Unrecorded, Step, TypeOK, InHand, WorkerPC,
                    rows, clientVars
<1>3. CASE CompleteUnrecorded(w)
  BY <1>1, <1>3 DEF CompleteUnrecorded, Unrecorded, Step, TypeOK, InHand, WorkerPC,
                    rows, clientVars
<1>4. CASE FailUnrecorded(w)
  BY <1>1, <1>4 DEF FailUnrecorded, Unrecorded, Finish, TypeOK, InHand, WorkerPC,
                    rows, clientVars
<1>5. ASSUME NEW t \in Task, NEW k \in 0..Retries, IgnoreUnread(w, t, k) PROVE TypeInv'
  <2>1. queue' \in [Task \X (0..Retries) -> Nat]
    BY <1>5, ConsumeTyped DEF IgnoreUnread
  <2> QED
    BY <1>1, <1>5, <2>1 DEF IgnoreUnread, TypeOK, InHand, rows, clientVars, workerVars
<1> QED
  BY <1>2, <1>3, <1>4, <1>5 DEF Outage

LEMMA TypeInvNext == TypeInv /\ [Next]_vars => TypeInv'
<1> SUFFICES ASSUME TypeInv, [Next]_vars PROVE TypeInv'
  OBVIOUS
<1>1. CASE UNCHANGED vars
  BY <1>1 DEF vars, rows, clientVars, workerVars, TypeInv, TypeOK, InHand
<1>2. CASE Next
  BY <1>2, TypeInvClient, TypeInvDispatcher, TypeInvReconciler, TypeInvHatchet,
     TypeInvWork, TypeInvOutage DEF Next
<1> QED
  BY <1>1, <1>2

(* Type correctness, and every process that writes a row holds a real task. *)
THEOREM TypeCorrectness == Spec => [](TypeOK /\ InHand)
<1>1. Init => TypeInv
  BY TypeInvInit
<1>2. TypeInv /\ [Next]_vars => TypeInv'
  BY TypeInvNext
<1> QED
  BY <1>1, <1>2, PTL DEF Spec, TypeInv

----------------------------------------------------------------------------
(* Every step leaves the rows alone or is one of the two row writers.       *)
RowWrite ==
  \/ UNCHANGED <<status, version, events>>
  \/ \E t \in Task : insert_task(t)
  \/ \E t \in Task : \E target \in TaskStatus : transition_task(t, target)

LEMMA TransitionIsRowWrite ==
  ASSUME NEW t \in Task, NEW target, transition_task(t, target)
  PROVE  RowWrite
BY AllowedIsTyped DEF RowWrite, transition_task, Allowed

LEMMA StepIsRowWrite ==
  ASSUME TypeInv, [Next]_vars
  PROVE  RowWrite
<1>1. CASE UNCHANGED vars
  BY <1>1 DEF vars, rows, RowWrite
<1>2. ASSUME NEW c \in Client, ClientStep(c) PROVE RowWrite
  <2>1. CASE Insert(c)
    BY <2>1 DEF Insert, TypeInv, InHand, RowWrite
  <2>2. CASE Route(c)
    BY <2>2, TransitionIsRowWrite DEF Route, TypeInv, InHand
  <2> QED
    BY <1>2, <2>1, <2>2
       DEF ClientStep, FindExisting, MissExisting, FindRouted, LookUp, InsertConflict,
           RouteRaises, ClientRetry, ClientCrash, rows, RowWrite
<1>3. CASE DispatcherStep \/ DispatcherCrash
  BY <1>3 DEF DispatcherStep, SelectQueued, Enqueue, DispatcherCrash, rows, RowWrite
<1>4. ASSUME NEW w \in Worker, Work(w) PROVE RowWrite
  <2>1. CASE Claim(w)
    BY <2>1, TransitionIsRowWrite DEF Claim, Step, TypeInv, InHand
  <2>2. CASE Complete(w)
    BY <2>2, TransitionIsRowWrite DEF Complete, Step, TypeInv, InHand
  <2>3. CASE Fail(w)
    BY <2>3, TransitionIsRowWrite DEF Fail, TypeInv, InHand
  <2> QED
    BY <1>4, <2>1, <2>2, <2>3
       DEF Work, LoseClaim, ResolveMissing, ResolveFound, create_task_attempt,
           finish_task_attempt, SettleRaises, Return, rows, RowWrite
<1>5. ASSUME NEW w \in Worker,
             Deliver(w) \/ Outage(w) \/ Crash(w) \/ ExecutionTimeout(w)
      PROVE  RowWrite
  BY <1>5 DEF Deliver, Ignore, Take, Outage, FinishUnrecorded, CompleteUnrecorded,
              FailUnrecorded, IgnoreUnread, Unrecorded, Crash, ExecutionTimeout, rows, RowWrite
<1>6. CASE ReconcilerStep
  BY <1>6, TransitionIsRowWrite
     DEF ReconcilerStep, SelectOverdue, TimeOut, SkipSettled, rows, RowWrite
<1>7. CASE ReconcilerCrash \/ \E t \in Task : TimeOutUnrecorded(t) \/ Lapse(t)
  BY <1>7 DEF ReconcilerCrash, TimeOutUnrecorded, Unrecorded, Lapse, rows, RowWrite
<1> QED
  BY <1>1, <1>2, <1>3, <1>4, <1>5, <1>6, <1>7 DEF Next

LogInv == TypeInv /\ RowInv /\ EventLogMirrorsTask

(* Appending the next version to a log that mirrors its row.                *)
LEMMA AppendKeepsLog ==
  ASSUME LogInv, TypeInv', NEW t \in Task, NEW to \in TaskStatus,
         status' = [status EXCEPT ![t] = to],
         version' = [version EXCEPT ![t] = version[t] + 1],
         append_event(t, version[t] + 1, to),
         version[t] = 0 => to = "proposed",
         version[t] > 0 => is_task_transition_allowed(status[t], to)
  PROVE  RowInv' /\ EventLogMirrorsTask'
<1> DEFINE n == version[t]
           new == [task |-> t, version |-> n + 1, to |-> to]
<1>1. /\ n \in Nat /\ version \in [Task -> Nat] /\ status \in [Task -> RowStatus]
      /\ \A e \in events : e.version \in Nat /\ e.task \in Task
      /\ to # "absent"
  BY DEF LogInv, TypeInv, TypeOK, Event, TaskStatus
<1>2. events' = events \cup {new} /\ new.task = t /\ new.version = n + 1 /\ new.to = to
  BY DEF append_event
<1>3. version'[t] = n + 1 /\ status'[t] = to
  BY <1>1
<1>4. \A u \in Task : u # t => version'[u] = version[u] /\ status'[u] = status[u]
  BY <1>1
<1>5. RowInv'
  BY <1>1, <1>3, <1>4 DEF RowInv, LogInv
<1>6. ASSUME NEW u \in Task
      PROVE  /\ \A m \in 1..version'[u] : \E e \in events' : e.task = u /\ e.version = m
             /\ \A e \in events' : e.task = u =>
                  /\ e.version \in 1..version'[u]
                  /\ e.version = 1 => e.to = "proposed"
                  /\ e.version = version'[u] => e.to = status'[u]
                  /\ \A f \in events' : f.task = u =>
                       /\ f.version = e.version => f = e
                       /\ f.version = e.version + 1
                            => is_task_transition_allowed(e.to, f.to)
  <2> DEFINE Old(x) == x \in events /\ x.task = u
  <2>1. /\ \A m \in 1..version[u] : \E e \in events : e.task = u /\ e.version = m
        /\ \A e \in events : e.task = u =>
             /\ e.version \in 1..version[u]
             /\ e.version = 1 => e.to = "proposed"
             /\ e.version = version[u] => e.to = status[u]
             /\ \A f \in events : f.task = u =>
                  /\ f.version = e.version => f = e
                  /\ f.version = e.version + 1
                       => is_task_transition_allowed(e.to, f.to)
    BY DEF LogInv, EventLogMirrorsTask
  <2>2. CASE u # t
    BY <1>1, <1>2, <1>4, <2>1, <2>2
  <2>3. CASE u = t
    <3> HIDE DEF n, new
    <3>1. n = version[u] /\ version'[u] = n + 1 /\ status'[u] = to
      BY <1>3, <2>3 DEF n
    <3>2. ASSUME NEW m \in 1..version'[u]
          PROVE  \E e \in events' : e.task = u /\ e.version = m
      BY <1>1, <1>2, <2>1, <2>3, <3>1
    <3>3. ASSUME NEW e \in events', e.task = u
          PROVE  /\ e.version \in 1..version'[u]
                 /\ e.version = 1 => e.to = "proposed"
                 /\ e.version = version'[u] => e.to = status'[u]
      BY <1>1, <1>2, <2>1, <3>1, <3>3 DEF n
    <3>4. ASSUME NEW e \in events', NEW f \in events', e.task = u, f.task = u
          PROVE  /\ f.version = e.version => f = e
                 /\ f.version = e.version + 1 => is_task_transition_allowed(e.to, f.to)
      <4>1. e \in events => e.version \in 1..n
        BY <2>1, <3>1, <3>4
      <4>2. f \in events => f.version \in 1..n
        BY <2>1, <3>1, <3>4
      <4>3. CASE e \in events /\ f \in events
        BY <2>1, <3>4, <4>3
      <4>4. CASE e \in events /\ f = new
        <5>1. e.version # f.version
          BY <1>1, <1>2, <4>1, <4>4
        <5>2. f.version = e.version + 1 => e.version = n /\ n > 0
          BY <1>1, <1>2, <4>1, <4>4
        <5>3. e.version = n => e.to = status[t]
          BY <2>1, <2>3, <3>1, <3>4, <4>4
        <5> QED
          BY <1>2, <4>4, <5>1, <5>2, <5>3 DEF n
      <4>5. CASE e = new /\ f \in events
        BY <1>1, <1>2, <4>2, <4>5
      <4>6. CASE e = new /\ f = new
        BY <1>1, <1>2, <4>6
      <4> QED
        BY <1>2, <4>3, <4>4, <4>5, <4>6
    <3> QED
      BY <3>2, <3>3, <3>4
  <2> QED
    BY <2>2, <2>3
<1> QED
  BY <1>5, <1>6 DEF EventLogMirrorsTask

LEMMA LogInvNext == LogInv /\ [Next]_vars => LogInv'
<1> SUFFICES ASSUME LogInv, [Next]_vars PROVE LogInv'
  OBVIOUS
<1>1. TypeInv'
  BY TypeInvNext DEF LogInv
<1>2. CASE UNCHANGED <<status, version, events>>
  BY <1>1, <1>2 DEF LogInv, RowInv, EventLogMirrorsTask
<1>3. ASSUME NEW t \in Task, insert_task(t) PROVE LogInv'
  <2>1. version[t] = 0
    BY <1>3 DEF LogInv, RowInv, insert_task
  <2>2. version[t] + 1 = 1 /\ "proposed" \in TaskStatus /\ ~(version[t] > 0)
    BY <2>1 DEF TaskStatus
  <2>3. /\ status' = [status EXCEPT ![t] = "proposed"]
        /\ version' = [version EXCEPT ![t] = version[t] + 1]
        /\ append_event(t, version[t] + 1, "proposed")
    BY <1>3, <2>2 DEF insert_task
  <2>4. RowInv' /\ EventLogMirrorsTask'
    BY <1>1, <2>2, <2>3, AppendKeepsLog
  <2> QED
    BY <1>1, <2>4 DEF LogInv
<1>4. ASSUME NEW t \in Task, NEW target \in TaskStatus, transition_task(t, target)
      PROVE  LogInv'
  <2>1. version[t] > 0
    BY <1>4, AllowedIsTyped
       DEF LogInv, RowInv, transition_task, Allowed, TypeInv, TypeOK
  <2>2. /\ status' = [status EXCEPT ![t] = target]
        /\ version' = [version EXCEPT ![t] = version[t] + 1]
        /\ append_event(t, version[t] + 1, target)
        /\ is_task_transition_allowed(status[t], target)
    BY <1>4 DEF transition_task, Allowed
  <2>3. ~(version[t] = 0)
    BY <2>1
  <2>4. RowInv' /\ EventLogMirrorsTask'
    BY <1>1, <2>2, <2>3, AppendKeepsLog
  <2> QED
    BY <1>1, <2>4 DEF LogInv
<1> QED
  BY <1>2, <1>3, <1>4, StepIsRowWrite DEF LogInv, RowWrite

(* The event log is a faithful history of every row.                        *)
THEOREM EventLogCorrectness == Spec => []EventLogMirrorsTask
<1>1. Init => LogInv
  BY TypeInvInit DEF LogInv, Init, RowInv, EventLogMirrorsTask
<1>2. LogInv /\ [Next]_vars => LogInv'
  BY LogInvNext
<1>3. LogInv => EventLogMirrorsTask
  BY DEF LogInv
<1> QED
  BY <1>1, <1>2, <1>3, PTL DEF Spec

(* No step moves a row out of a terminal status or touches a past event.    *)
THEOREM FinalVerdicts == Spec => VerdictsAreFinal
<1> DEFINE P == /\ \A t \in Task :
                     /\ status[t] \in {"succeeded", "timed_out"} => status'[t] = status[t]
                     /\ status[t] = "failed" => status'[t] \in {"failed", "queued"}
                /\ events \subseteq events'
<1>1. TypeInv /\ [Next]_vars => P
  <2> SUFFICES ASSUME TypeInv, [Next]_vars PROVE P
    OBVIOUS
  <2>1. CASE UNCHANGED <<status, version, events>>
    BY <2>1
  <2>2. ASSUME NEW t \in Task, insert_task(t) PROVE P
    BY <2>2 DEF insert_task, append_event, TypeInv, TypeOK
  <2>3. ASSUME NEW t \in Task, NEW target \in TaskStatus, transition_task(t, target)
        PROVE  P
    <3>1. /\ status[t] \notin {"succeeded", "timed_out"}
          /\ status[t] = "failed" => target = "queued"
      BY <2>3 DEF transition_task, Allowed, is_task_transition_allowed,
                  TASK_STATUS_TRANSITIONS, TaskStatus
    <3> QED
      BY <2>3, <3>1 DEF transition_task, append_event, TypeInv, TypeOK
  <2> QED
    BY <2>1, <2>2, <2>3, StepIsRowWrite DEF RowWrite
<1>2. Spec => []TypeInv
  BY TypeCorrectness DEF TypeInv
<1>3. TypeInv /\ [Next]_vars => [P]_vars
  BY <1>1
<1> QED
  BY <1>2, <1>3, PTL DEF Spec, VerdictsAreFinal

----------------------------------------------------------------------------
PolicyInv == TypeInv /\ ApprovalInv

(* What is on record stays, so no task joins Unwaived.                      *)
LEMMA UnwaivedShrinks ==
  ASSUME AskedGrows
  PROVE  Unwaived' \subseteq Unwaived
BY DEF AskedGrows, Unwaived

LEMMA UnwaivedStays ==
  ASSUME UNCHANGED asked
  PROVE  Unwaived' = Unwaived
BY DEF Unwaived

(* A write to a task outside Unwaived does not disturb ApprovalInv.         *)
LEMMA ApprovalFrame ==
  ASSUME PolicyInv, Unwaived' \subseteq Unwaived, NEW t \in Task \ Unwaived,
         status' = status \/ \E s : status' = [status EXCEPT ![t] = s],
         attempts' = attempts \/ \E a : attempts' = [attempts EXCEPT ![t] = a],
         queue' = queue \/ \E k, q : queue' = [queue EXCEPT ![<<t, k>>] = q],
         selected' \subseteq selected,
         \A w \in Worker :
            wpc'[w] # "idle" => wpc[w] # "idle" /\ wtask'[w] = wtask[w]
  PROVE  ApprovalInv'
<1>0. \A u \in Unwaived : u \in Task
  BY DEF Unwaived
<1>1. ASSUME NEW u \in Unwaived PROVE status'[u] = status[u]
  BY <1>0 DEF PolicyInv, TypeInv, TypeOK
<1>2. ASSUME NEW u \in Unwaived PROVE attempts'[u] = attempts[u]
  BY <1>0 DEF PolicyInv, TypeInv, TypeOK
<1>3. ASSUME NEW u \in Unwaived, NEW j \in 0..Retries
      PROVE  queue'[<<u, j>>] = queue[<<u, j>>]
  <2>1. <<u, j>> \in Task \X (0..Retries) /\ \A k : <<u, j>> # <<t, k>>
    BY <1>0
  <2>2. queue \in [Task \X (0..Retries) -> Nat]
    BY DEF PolicyInv, TypeInv, TypeOK
  <2> QED
    BY <2>1, <2>2
<1> QED
  BY <1>1, <1>2, <1>3 DEF PolicyInv, ApprovalInv, ApprovalBeforeExecution

(* Nothing ApprovalInv reads is written, but for what the policy said.      *)
LEMMA ApprovalStill ==
  ASSUME PolicyInv, AskedGrows, UNCHANGED <<status, attempts, queue, selected, wpc, wtask>>
  PROVE  ApprovalInv'
BY UnwaivedShrinks DEF PolicyInv, ApprovalInv, ApprovalBeforeExecution

LEMMA ApprovalInvClient ==
  ASSUME PolicyInv, NEW c \in Client, ClientStep(c)
  PROVE  ApprovalInv'
<1>0. AskedGrows /\ Unwaived' \subseteq Unwaived
  BY ClientAskedGrows, UnwaivedShrinks DEF PolicyInv, TypeInv
<1>1. CASE Insert(c) \/ Route(c)
  <2>1. ctask[c] \in Task /\ cneeds[c] \in asked[ctask[c]]
    BY <1>1 DEF Insert, Route, PolicyInv, TypeInv, InHand
  <2>2. CASE ctask[c] \notin Unwaived
    BY <1>0, <1>1, <2>1, <2>2, ApprovalFrame
       DEF Insert, Route, insert_task, transition_task, workerVars
  <2>3. CASE ctask[c] \in Unwaived
    <3>1. UNCHANGED <<attempts, queue, selected, wpc, wtask>>
      BY <1>1 DEF Insert, Route, workerVars
    <3>2. cneeds[c] # FALSE /\ cneeds[c] \in BOOLEAN
      BY <2>1, <2>3 DEF Unwaived, PolicyInv, TypeInv, TypeOK
    <3>3. \E to \in {"proposed", "waiting_for_approval"} :
             status' = [status EXCEPT ![ctask[c]] = to]
      BY <1>1, <3>2 DEF Insert, Route, insert_task, transition_task, RouteTarget
    <3>4. \A t \in Unwaived :
             status'[t] \in {"absent", "proposed", "waiting_for_approval"}
      BY <3>3 DEF PolicyInv, TypeInv, TypeOK, ApprovalInv, ApprovalBeforeExecution, Unwaived
    <3> QED
      BY <1>0, <3>1, <3>4 DEF PolicyInv, ApprovalInv, ApprovalBeforeExecution
  <2> QED
    BY <2>2, <2>3
<1>2. CASE UNCHANGED <<status, attempts, queue, selected, wpc, wtask>>
  BY <1>0, <1>2, ApprovalStill
<1> QED
  BY <1>1, <1>2
     DEF ClientStep, FindExisting, MissExisting, FindRouted, LookUp, InsertConflict,
         RouteRaises, ClientRetry, ClientCrash, rows, workerVars

LEMMA ApprovalInvDispatcher ==
  ASSUME PolicyInv, DispatcherStep \/ DispatcherCrash
  PROVE  ApprovalInv'
<1>0. AskedGrows /\ Unwaived' = Unwaived
  BY OnlyClientsAsk, UnwaivedStays DEF AskedGrows
<1>1. CASE SelectQueued
  BY <1>0, <1>1
     DEF SelectQueued, rows, workerVars, PolicyInv, ApprovalInv, ApprovalBeforeExecution
<1>2. ASSUME NEW t \in Task, Enqueue(t) PROVE ApprovalInv'
  <2>1. t \in Task \ Unwaived
    BY <1>2 DEF Enqueue, PolicyInv, ApprovalInv
  <2> QED
    BY <1>0, <1>2, <2>1, ApprovalFrame DEF Enqueue, Publish, rows, workerVars
<1>3. CASE DispatcherCrash
  BY <1>0, <1>3 DEF DispatcherCrash, rows, workerVars, PolicyInv, ApprovalInv,
                    ApprovalBeforeExecution
<1> QED
  BY <1>1, <1>2, <1>3 DEF DispatcherStep

LEMMA ApprovalInvReconciler ==
  ASSUME PolicyInv,
         ReconcilerStep \/ ReconcilerCrash \/ \E t \in Task : TimeOutUnrecorded(t) \/ Lapse(t)
  PROVE  ApprovalInv'
<1>0. AskedGrows /\ Unwaived' = Unwaived
  BY OnlyClientsAsk, UnwaivedStays DEF AskedGrows
<1>1. ASSUME NEW t \in Task, TimeOut(t) PROVE ApprovalInv'
  <2>1. t \notin Unwaived
    BY <1>1 DEF TimeOut, transition_task, Allowed, is_task_transition_allowed,
                TASK_STATUS_TRANSITIONS, PolicyInv, ApprovalInv, ApprovalBeforeExecution
  <2> QED
    BY <1>0, <1>1, <2>1, ApprovalFrame DEF TimeOut, transition_task, workerVars
<1>2. CASE UNCHANGED <<status, attempts, queue, selected, wpc, wtask>>
  BY <1>0, <1>2, ApprovalStill
<1> QED
  BY <1>1, <1>2 DEF ReconcilerStep, SelectOverdue, SkipSettled, ReconcilerCrash,
                    TimeOutUnrecorded, Unrecorded, Lapse, rows, workerVars

LEMMA ApprovalInvWorker ==
  ASSUME PolicyInv, NEW w \in Worker,
         Deliver(w) \/ Work(w) \/ Outage(w) \/ Crash(w) \/ ExecutionTimeout(w)
  PROVE  ApprovalInv'
<1>0. Unwaived' = Unwaived /\ \A u \in Unwaived : u \in Task
  BY OnlyClientsAsk, UnwaivedStays DEF Unwaived
<1>1. ASSUME NEW t \in Task, NEW k \in 0..Retries,
             Ignore(w, t, k) \/ IgnoreUnread(w, t, k) \/ Take(w, t, k)
      PROVE  ApprovalInv'
  <2>1. queue[<<t, k>>] > 0
    BY <1>1 DEF Ignore, IgnoreUnread, Take, Consume
  <2>2. t \in Task \ Unwaived
    BY <2>1 DEF PolicyInv, ApprovalInv, ApprovalBeforeExecution
  <2>3. CASE Ignore(w, t, k) \/ IgnoreUnread(w, t, k)
    BY <1>0, <2>2, <2>3, ApprovalFrame DEF Ignore, IgnoreUnread, Consume, rows, workerVars
  <2>4. CASE Take(w, t, k)
    <3>1. ASSUME NEW u \in Unwaived, NEW j \in 0..Retries
          PROVE  queue'[<<u, j>>] = queue[<<u, j>>]
      <4>1. <<u, j>> \in Task \X (0..Retries) /\ <<u, j>> # <<t, k>>
        BY <1>0, <2>2
      <4>2. queue \in [Task \X (0..Retries) -> Nat]
        BY DEF PolicyInv, TypeInv, TypeOK
      <4> QED
        BY <2>4, <4>1, <4>2 DEF Take, Consume
    <3>2. UNCHANGED <<status, attempts, selected>>
      BY <2>4 DEF Take, rows
    <3>3. \A v \in Worker : wpc'[v] # "idle" => wtask'[v] \notin Unwaived
      BY <2>2, <2>4 DEF Take, Step, PolicyInv, ApprovalInv, TypeInv, TypeOK
    <3> QED
      BY <1>0, <3>1, <3>2, <3>3 DEF PolicyInv, ApprovalInv, ApprovalBeforeExecution
  <2> QED
    BY <1>1, <2>3, <2>4
<1>2. CASE Work(w) \/ Crash(w) \/ ExecutionTimeout(w) \/ CompleteUnrecorded(w)
           \/ FailUnrecorded(w)
           \/ \E outcome \in {"succeeded", "failed"} : FinishUnrecorded(w, outcome)
  <2>1. wpc[w] # "idle"
    BY <1>2 DEF Work, FinishUnrecorded, CompleteUnrecorded, FailUnrecorded, Unrecorded,
           Crash, ExecutionTimeout, Claim, LoseClaim, ResolveMissing,
                ResolveFound, create_task_attempt, finish_task_attempt, Complete,
                Fail, SettleRaises, Return, Step
  <2>2. wtask[w] \in Task \ Unwaived
    BY <2>1 DEF PolicyInv, ApprovalInv, TypeInv, InHand
  <2>3. \A v \in Worker :
           wpc'[v] # "idle" => wpc[v] # "idle" /\ wtask'[v] = wtask[v]
    BY <1>2, <2>1
       DEF PolicyInv, TypeInv, TypeOK, Work, FinishUnrecorded,
           CompleteUnrecorded, FailUnrecorded, Unrecorded, Crash, ExecutionTimeout, Claim, LoseClaim,
           ResolveMissing, ResolveFound, create_task_attempt, finish_task_attempt,
           Complete, Fail, SettleRaises, Return, Step, Finish
  <2>4. selected' = selected
    BY <1>2
       DEF Work, FinishUnrecorded, CompleteUnrecorded, FailUnrecorded, Unrecorded,
           Crash, ExecutionTimeout, Claim, LoseClaim, ResolveMissing,
           ResolveFound, create_task_attempt, finish_task_attempt, Complete, Fail,
           SettleRaises, Return
  <2>5. queue' = queue \/ \E k, q : queue' = [queue EXCEPT ![<<wtask[w], k>>] = q]
    BY <1>2
       DEF Work, FinishUnrecorded, CompleteUnrecorded, FailUnrecorded, Unrecorded,
           Crash, ExecutionTimeout, Claim, LoseClaim, ResolveMissing,
           ResolveFound, create_task_attempt, finish_task_attempt, Complete, Fail,
           SettleRaises, Return, Redeliver, Publish
  <2>6. status' = status \/ \E s : status' = [status EXCEPT ![wtask[w]] = s]
    BY <1>2
       DEF Work, FinishUnrecorded, CompleteUnrecorded, FailUnrecorded, Unrecorded,
           Crash, ExecutionTimeout, Claim, LoseClaim, ResolveMissing,
           ResolveFound, create_task_attempt, finish_task_attempt, Complete, Fail,
           SettleRaises, Return, transition_task, rows
  <2>7. attempts' = attempts \/ \E a : attempts' = [attempts EXCEPT ![wtask[w]] = a]
    BY <1>2
       DEF Work, FinishUnrecorded, CompleteUnrecorded, FailUnrecorded, Unrecorded,
           Crash, ExecutionTimeout, Claim, LoseClaim, ResolveMissing,
           ResolveFound, create_task_attempt, finish_task_attempt, Complete, Fail,
           SettleRaises, Return, rows
  <2> QED
    BY <1>0, <2>2, <2>3, <2>4, <2>5, <2>6, <2>7, ApprovalFrame
<1> QED
  BY <1>1, <1>2 DEF Deliver, Outage

LEMMA PolicyInvNext == PolicyInv /\ [Next]_vars => PolicyInv'
<1> SUFFICES ASSUME PolicyInv, [Next]_vars PROVE PolicyInv'
  OBVIOUS
<1>1. TypeInv'
  BY TypeInvNext DEF PolicyInv
<1>2. CASE UNCHANGED vars
  BY <1>1, <1>2, UnwaivedStays
     DEF vars, rows, clientVars, workerVars, PolicyInv, ApprovalInv, ApprovalBeforeExecution
<1>3. CASE Next
  <2>1. ApprovalInv'
    BY <1>3, ApprovalInvClient, ApprovalInvDispatcher, ApprovalInvReconciler,
       ApprovalInvWorker DEF Next
  <2> QED
    BY <1>1, <2>1 DEF PolicyInv
<1> QED
  BY <1>2, <1>3

LEMMA PolicyInvInit == Init => PolicyInv
<1> SUFFICES ASSUME Init PROVE ApprovalInv
  BY TypeInvInit DEF PolicyInv
<1> QED
  BY DEF Init, ApprovalInv, ApprovalBeforeExecution, Unwaived

(* A task that every request of its key needs an approval for is never      *)
(* released by this module.                                                 *)
THEOREM ApprovalSafety == Spec => []ApprovalBeforeExecution
<1>1. PolicyInv => ApprovalBeforeExecution
  BY DEF PolicyInv, ApprovalInv
<1> QED
  BY PolicyInvInit, PolicyInvNext, <1>1, PTL DEF Spec

----------------------------------------------------------------------------
RunInv == PolicyInv /\ ExecutionInv

RunStatus == {"running", "timed_out", "succeeded"}

(* Requests that have disagreed stay in disagreement.                       *)
LEMMA ContestedStays ==
  ASSUME TypeOK', AskedGrows, NEW t \in Task, Contested(t)
  PROVE  Contested(t)'
BY DEF TypeOK, AskedGrows, Contested

(* A worker that holds a task holds one that was started.                   *)
LEMMA HolderStarted ==
  ASSUME RunInv, NEW w \in Worker, Holding(w)
  PROVE  /\ wtask[w] \in Task
         /\ Contested(wtask[w]) \/ (HolderSound(w) /\ status[wtask[w]] \in RunStatus)
<1>1. wpc[w] \in WorkerPC \ {"idle", "claim"} /\ wtask[w] \in Task
  BY DEF RunInv, PolicyInv, TypeInv, TypeOK, InHand, Holding
<1>2. Contested(wtask[w]) \/ HolderSound(w)
  BY DEF RunInv, ExecutionInv, HolderInv
<1>3. HolderSound(w) => status[wtask[w]] \in RunStatus
  BY <1>1 DEF HolderSound, WorkerPC, RunStatus
<1> QED
  BY <1>1, <1>2, <1>3

(* A worker whose locals, task row and attempts are untouched, or that lost *)
(* its task to the reconciler, is as sound as before.                       *)
LEMMA HolderFrame ==
  ASSUME NEW w0 \in Worker, HolderSound(w0),
         wpc'[w0] = wpc[w0], wtask'[w0] = wtask[w0], watt'[w0] = watt[w0],
         Holding(w0) =>
            /\ attempts'[wtask[w0]] = attempts[wtask[w0]]
            /\ \/ status'[wtask[w0]] = status[wtask[w0]]
               \/ status[wtask[w0]] # "succeeded" /\ status'[wtask[w0]] = "timed_out"
  PROVE  HolderSound(w0)'
BY DEF HolderSound, Holding, NoSuccess

(* No worker moves and one row does: the rest is as it was, and so is the   *)
(* row's holder if its task is contested, or it is none, or it can tell no  *)
(* difference.                                                              *)
LEMMA RowFrame ==
  ASSUME RunInv, TypeOK', AskedGrows, NEW t \in Task, UNCHANGED <<attempts, workerVars>>,
         \A u \in Task : u # t => status'[u] = status[u],
         Contested(t)' \/ Backed(t)',
         \A w \in Worker : Holding(w) /\ wtask[w] = t => Contested(t)' \/ HolderSound(w)'
  PROVE  ExecutionInv'
<1>1. ASSUME NEW w \in Worker, Holding(w)'
      PROVE  Contested(wtask[w])' \/ HolderSound(w)'
  <2>1. Holding(w) /\ wtask[w] \in Task /\ wtask'[w] = wtask[w]
    BY <1>1, HolderStarted DEF Holding, workerVars
  <2>2. CASE wtask[w] = t
    BY <2>1, <2>2
  <2>3. CASE wtask[w] # t
    BY <2>1, <2>3, HolderStarted, HolderFrame, ContestedStays DEF workerVars
  <2> QED
    BY <2>2, <2>3
<1>2. OneHolder'
  <2>1. ASSUME NEW v \in Worker, NEW w \in Worker, Holding(v), Holding(w), wtask[v] = wtask[w]
        PROVE  v = w \/ asked'[wtask[v]] = BOOLEAN
    <3>1. wtask[v] \in Task /\ (v = w \/ Contested(wtask[v]))
      BY <2>1, HolderStarted DEF RunInv, ExecutionInv, OneHolder
    <3>2. PICK u \in Task : u = wtask[v]
      BY <3>1
    <3> QED
      BY <3>1, <3>2, ContestedStays DEF Contested
  <2> QED
    BY <2>1 DEF OneHolder, Holding, workerVars, Contested
<1>3. ASSUME NEW u \in Task PROVE Contested(u)' \/ Backed(u)'
  <2>1. CASE u = t
    BY <2>1
  <2>2. CASE u # t
    BY <2>2, ContestedStays DEF RunInv, ExecutionInv, StatusIsBacked, Backed, NoSuccess
  <2> QED
    BY <2>1, <2>2
<1>4. HolderInv'
  BY <1>1 DEF HolderInv
<1>5. StatusIsBacked'
  BY <1>3 DEF StatusIsBacked
<1> QED
  BY <1>2, <1>4, <1>5 DEF ExecutionInv

(* A row moves between statuses outside a run, or its requests disagree.    *)
LEMMA ReleaseKeepsExecution ==
  ASSUME RunInv, TypeOK', AskedGrows, NEW t \in Task, NEW to,
         Contested(t) \/ (status[t] \notin RunStatus /\ to \notin RunStatus),
         status' = [status EXCEPT ![t] = to], UNCHANGED <<attempts, workerVars>>
  PROVE  ExecutionInv'
<1>1. status \in [Task -> RowStatus]
  BY DEF RunInv, PolicyInv, TypeInv, TypeOK
<1>2. Contested(t) => Contested(t)'
  BY ContestedStays
<1>3. ~Contested(t) => \A w \in Worker : Holding(w) => wtask[w] # t
  BY HolderStarted
<1>4. ~Contested(t) => Backed(t)'
  BY <1>1 DEF RunInv, ExecutionInv, StatusIsBacked, Backed, NoSuccess, RunStatus
<1> QED
  BY <1>1, <1>2, <1>3, <1>4, RowFrame

(* The reconciler takes a row away from whoever holds it.                   *)
LEMMA TimeOutKeepsExecution ==
  ASSUME RunInv, TypeOK', AskedGrows, NEW t \in Task, status[t] \in {"queued", "running"},
         status' = [status EXCEPT ![t] = "timed_out"], UNCHANGED <<attempts, workerVars>>
  PROVE  ExecutionInv'
<1>1. status \in [Task -> RowStatus]
  BY DEF RunInv, PolicyInv, TypeInv, TypeOK
<1>2. ASSUME NEW w \in Worker, Holding(w), wtask[w] = t
      PROVE  Contested(t)' \/ HolderSound(w)'
  BY <1>1, <1>2, HolderStarted, HolderFrame, ContestedStays DEF workerVars
<1>3. Contested(t)' \/ Backed(t)'
  BY <1>1, ContestedStays DEF RunInv, ExecutionInv, StatusIsBacked, Backed, NoSuccess
<1> QED
  BY <1>1, <1>2, <1>3, RowFrame

(* One worker moves and only the rows of its task change: it is enough to   *)
(* look at that worker and that task, provided nobody else holds the task   *)
(* or its requests disagree.                                                *)
LEMMA WorkerFrame ==
  ASSUME RunInv, NEW w \in Worker, NEW t \in Task, UNCHANGED asked,
         \A v \in Worker : v # w =>
            wpc'[v] = wpc[v] /\ wtask'[v] = wtask[v] /\ watt'[v] = watt[v],
         \A v \in Worker : v # w /\ Holding(v) /\ wtask[v] = t =>
            \/ Contested(t)
            \/ status'[t] = status[t] /\ attempts'[t] = attempts[t] /\ ~Holding(w)',
         \A u \in Task : u # t => status'[u] = status[u] /\ attempts'[u] = attempts[u],
         Holding(w)' => wtask'[w] = t,
         Contested(t) \/ (HolderSound(w)' /\ Backed(t)')
  PROVE  ExecutionInv'
<1>0. \A u : Contested(u)' <=> Contested(u)
  BY DEF Contested
<1>1. ASSUME NEW v \in Worker, Holding(v)' PROVE Contested(wtask[v])' \/ HolderSound(v)'
  <2>1. CASE v = w
    BY <1>0, <1>1, <2>1 DEF Contested
  <2>2. CASE v # w
    <3>1. Holding(v) /\ wtask'[v] = wtask[v]
      BY <1>1, <2>2 DEF Holding
    <3>2. wtask[v] \in Task /\ (Contested(wtask[v]) \/ HolderSound(v))
      BY <3>1, HolderStarted
    <3> QED
      BY <2>2, <3>1, <3>2, HolderFrame DEF Contested
  <2> QED
    BY <2>1, <2>2
<1>2. ASSUME NEW v1 \in Worker, NEW v2 \in Worker,
             Holding(v1)', Holding(v2)', wtask'[v1] = wtask'[v2]
      PROVE  v1 = v2 \/ Contested(wtask'[v1])
  <2>1. \A v \in Worker : v # w /\ Holding(v)' => Holding(v) /\ wtask'[v] = wtask[v]
    BY DEF Holding
  <2> QED
    BY <1>2, <2>1 DEF RunInv, ExecutionInv, OneHolder
<1>3. ASSUME NEW u \in Task PROVE Contested(u) \/ Backed(u)'
  BY <1>3 DEF RunInv, ExecutionInv, StatusIsBacked, Backed, NoSuccess
<1>4. HolderInv'
  BY <1>1 DEF HolderInv
<1>5. OneHolder'
  BY <1>2 DEF OneHolder, Contested
<1>6. StatusIsBacked'
  BY <1>0, <1>3 DEF StatusIsBacked
<1> QED
  BY <1>4, <1>5, <1>6 DEF ExecutionInv

(* Everyone but w stands still. *)
OthersStill(w) ==
  \A v \in Worker : v # w =>
     wpc'[v] = wpc[v] /\ wtask'[v] = wtask[v] /\ watt'[v] = watt[v]

(* A worker that lets go without writing a row.                             *)
LEMMA LetGoKeepsExecution ==
  ASSUME RunInv, NEW w \in Worker, Finish(w), UNCHANGED <<status, attempts, asked>>
  PROVE  ExecutionInv'
<1>1. /\ wpc \in [Worker -> WorkerPC] /\ wtask \in [Worker -> Task \cup {NoTask}]
      /\ watt \in [Worker -> Nat]
  BY DEF RunInv, PolicyInv, TypeInv, TypeOK
<1>2. OthersStill(w) /\ wpc'[w] = "idle"
  BY <1>1 DEF Finish, OthersStill
<1>3. ASSUME NEW v \in Worker, Holding(v)' PROVE Contested(wtask[v])' \/ HolderSound(v)'
  <2>1. v # w /\ Holding(v) /\ wtask'[v] = wtask[v]
    BY <1>2, <1>3 DEF Holding, OthersStill
  <2> QED
    BY <1>2, <2>1, HolderStarted, HolderFrame DEF OthersStill, Contested
<1>4. OneHolder'
  BY <1>2 DEF OthersStill, RunInv, ExecutionInv, OneHolder, Holding, Contested
<1>5. StatusIsBacked'
  BY DEF RunInv, ExecutionInv, StatusIsBacked, Backed, NoSuccess, Contested
<1> QED
  BY <1>3, <1>4, <1>5 DEF ExecutionInv, HolderInv

LEMMA UntouchedKeepsExecution ==
  ASSUME RunInv, TypeOK', AskedGrows, UNCHANGED <<status, attempts, wpc, wtask, watt>>
  PROVE  ExecutionInv'
<1>1. ASSUME NEW w \in Worker, Holding(w)' PROVE Contested(wtask[w])' \/ HolderSound(w)'
  <2>1. Holding(w) /\ wtask[w] \in Task
    BY <1>1, HolderStarted DEF Holding
  <2> QED
    BY <2>1, HolderStarted, HolderFrame, ContestedStays
<1>2. ASSUME NEW v \in Worker, NEW w \in Worker, Holding(v), Holding(w), wtask[v] = wtask[w]
      PROVE  v = w \/ Contested(wtask[v])'
  BY <1>2, HolderStarted, ContestedStays DEF RunInv, ExecutionInv, OneHolder
<1>3. ASSUME NEW u \in Task PROVE Contested(u)' \/ Backed(u)'
  BY ContestedStays DEF RunInv, ExecutionInv, StatusIsBacked, Backed, NoSuccess
<1>4. HolderInv' /\ StatusIsBacked'
  BY <1>1, <1>3 DEF HolderInv, StatusIsBacked
<1>5. OneHolder'
  BY <1>2 DEF OneHolder, Holding, Contested
<1> QED
  BY <1>4, <1>5 DEF ExecutionInv

LEMMA ExecutionClient ==
  ASSUME RunInv, TypeOK', NEW c \in Client, ClientStep(c)
  PROVE  ExecutionInv'
<1>0. AskedGrows
  BY ClientAskedGrows DEF RunInv, PolicyInv, TypeInv
<1>1. CASE Insert(c)
  BY <1>0, <1>1, ReleaseKeepsExecution
     DEF Insert, insert_task, RunStatus, RunInv, PolicyInv, TypeInv, InHand
<1>2. CASE Route(c)
  <2> DEFINE t == ctask[c]
             to == RouteTarget(c)
  <2>1. t \in Task /\ cneeds[c] \in asked[t] /\ asked[t] \subseteq BOOLEAN
    BY <1>2 DEF Route, RunInv, PolicyInv, TypeInv, TypeOK, InHand
  <2>2. to \notin RunStatus /\ (to = "waiting_for_approval" => TRUE \in asked[t])
    BY <2>1 DEF RouteTarget, RunStatus
  <2>3. is_task_transition_allowed(status[t], to)
    BY <1>2 DEF Route, transition_task, Allowed
  <2>4. status[t] \in RunStatus => to = "waiting_for_approval"
    BY <2>3 DEF is_task_transition_allowed, TASK_STATUS_TRANSITIONS, TaskStatus, RunStatus,
                RouteTarget
  <2>5. status[t] \in RunStatus => FALSE \in asked[t]
    BY <2>1 DEF RunStatus, RunInv, PolicyInv, ApprovalInv, ApprovalBeforeExecution, Unwaived
  <2>6. Contested(t) \/ status[t] \notin RunStatus
    BY <2>1, <2>2, <2>4, <2>5 DEF Contested
  <2>7. status' = [status EXCEPT ![t] = to] /\ UNCHANGED <<attempts, workerVars>>
    BY <1>2 DEF Route, transition_task
  <2> QED
    BY <1>0, <2>1, <2>2, <2>6, <2>7, ReleaseKeepsExecution
<1>3. CASE UNCHANGED <<rows, workerVars>>
  BY <1>0, <1>3, UntouchedKeepsExecution DEF rows, workerVars
<1> QED
  BY <1>1, <1>2, <1>3
     DEF ClientStep, FindExisting, MissExisting, FindRouted, LookUp, InsertConflict,
         RouteRaises, ClientRetry, ClientCrash

LEMMA ExecutionSchedulers ==
  ASSUME RunInv, TypeOK',
         \/ DispatcherStep \/ DispatcherCrash \/ ReconcilerStep \/ ReconcilerCrash
         \/ \E t \in Task : TimeOutUnrecorded(t) \/ Lapse(t)
  PROVE  ExecutionInv'
<1>0. AskedGrows
  BY OnlyClientsAsk DEF AskedGrows
<1>1. ASSUME NEW t \in Task, TimeOut(t) PROVE ExecutionInv'
  <2>1. status[t] \in {"queued", "running"}
    BY <1>1 DEF TimeOut, transition_task, Allowed, is_task_transition_allowed,
                TASK_STATUS_TRANSITIONS, TaskStatus
  <2> QED
    BY <1>0, <1>1, <2>1, TimeOutKeepsExecution DEF TimeOut, transition_task
<1>2. CASE UNCHANGED <<status, attempts, workerVars>>
  BY <1>0, <1>2, UntouchedKeepsExecution DEF workerVars
<1> QED
  BY <1>1, <1>2
     DEF DispatcherStep, SelectQueued, Enqueue, DispatcherCrash, ReconcilerStep,
         SelectOverdue, SkipSettled, ReconcilerCrash, TimeOutUnrecorded, Unrecorded,
         Lapse, rows

LEMMA ExecutionHatchet ==
  ASSUME RunInv, TypeOK', NEW w \in Worker, Deliver(w) \/ Crash(w) \/ ExecutionTimeout(w)
  PROVE  ExecutionInv'
<1>0. AskedGrows /\ UNCHANGED asked
  BY OnlyClientsAsk DEF AskedGrows
<1>1. ASSUME NEW t \in Task, NEW k \in 0..Retries, Take(w, t, k) PROVE ExecutionInv'
  <2>1. OthersStill(w) /\ wpc'[w] = "claim" /\ UNCHANGED <<status, attempts>>
    BY <1>1 DEF Take, Step, OthersStill, rows, RunInv, PolicyInv, TypeInv, TypeOK
  <2>2. HolderSound(w)' /\ ~Holding(w)'
    BY <2>1 DEF HolderSound, Holding
  <2>3. Contested(t) \/ Backed(t)'
    BY <2>1 DEF RunInv, ExecutionInv, StatusIsBacked, Backed, NoSuccess
  <2>4. \A v \in Worker : v # w =>
           wpc'[v] = wpc[v] /\ wtask'[v] = wtask[v] /\ watt'[v] = watt[v]
    BY <2>1 DEF OthersStill
  <2>5. \A u \in Task : status'[u] = status[u] /\ attempts'[u] = attempts[u]
    BY <2>1
  <2>6. \A v \in Worker : v # w /\ Holding(v) /\ wtask[v] = t =>
           \/ Contested(t)
           \/ status'[t] = status[t] /\ attempts'[t] = attempts[t] /\ ~Holding(w)'
    BY <2>2, <2>5
  <2>7. Contested(t) \/ (HolderSound(w)' /\ Backed(t)')
    BY <2>2, <2>3
  <2>8. Holding(w)' => wtask'[w] = t
    BY <2>2
  <2> QED
    BY <1>0, <2>4, <2>5, <2>6, <2>7, <2>8, WorkerFrame
<1>2. CASE Crash(w)
  BY <1>0, <1>2, LetGoKeepsExecution DEF Crash, rows
<1>3. CASE UNCHANGED <<status, attempts, wpc, wtask, watt>>
  BY <1>0, <1>3, UntouchedKeepsExecution
<1> QED
  BY <1>1, <1>2, <1>3 DEF Deliver, Ignore, ExecutionTimeout, rows, workerVars

(* A worker's step on a task whose requests disagree: nobody relies on it.  *)
LEMMA ExecutionTorn ==
  ASSUME RunInv, NEW w \in Worker, wtask[w] \in Task, Contested(wtask[w]),
         \/ Work(w) \/ CompleteUnrecorded(w) \/ FailUnrecorded(w)
         \/ \E outcome \in {"succeeded", "failed"} : FinishUnrecorded(w, outcome)
  PROVE  ExecutionInv'
<1>1. PICK t \in Task : t = wtask[w]
  OBVIOUS
<1>2. UNCHANGED asked
  BY OnlyClientsAsk DEF Outage
<1>3. /\ status \in [Task -> RowStatus] /\ attempts \in [Task -> Seq(AttemptStatus)]
      /\ wpc \in [Worker -> WorkerPC] /\ wtask \in [Worker -> Task \cup {NoTask}]
      /\ watt \in [Worker -> Nat]
  BY DEF RunInv, PolicyInv, TypeInv, TypeOK
<1>4. OthersStill(w) /\ (Holding(w)' => wtask'[w] = t)
  BY <1>3, <1>1 DEF OthersStill, Holding, Work, Claim, LoseClaim, ResolveMissing, ResolveFound,
              create_task_attempt, finish_task_attempt, Complete, Fail, SettleRaises, Return,
              CompleteUnrecorded, FailUnrecorded, FinishUnrecorded, Step, Finish
<1>5. \A u \in Task : u # t => status'[u] = status[u]
  BY <1>3, <1>1 DEF Work, Claim, LoseClaim, ResolveMissing, ResolveFound,
              create_task_attempt, finish_task_attempt, Complete, Fail, SettleRaises, Return,
              CompleteUnrecorded, FailUnrecorded, FinishUnrecorded, Unrecorded,
              transition_task, rows
<1>6. \A u \in Task : u # t => attempts'[u] = attempts[u]
  BY <1>3, <1>1 DEF Work, Claim, LoseClaim, ResolveMissing, ResolveFound,
              create_task_attempt, finish_task_attempt, Complete, Fail, SettleRaises, Return,
              CompleteUnrecorded, FailUnrecorded, FinishUnrecorded, Unrecorded, rows
<1>7. \A v \in Worker : v # w =>
         wpc'[v] = wpc[v] /\ wtask'[v] = wtask[v] /\ watt'[v] = watt[v]
  BY <1>4 DEF OthersStill
<1>8. \A v \in Worker : v # w /\ Holding(v) /\ wtask[v] = t =>
         \/ Contested(t)
         \/ status'[t] = status[t] /\ attempts'[t] = attempts[t] /\ ~Holding(w)'
  BY <1>1
<1>9. \A u \in Task : u # t => status'[u] = status[u] /\ attempts'[u] = attempts[u]
  BY <1>5, <1>6
<1>10. Contested(t) \/ (HolderSound(w)' /\ Backed(t)')
  BY <1>1
<1>11. Holding(w)' => wtask'[w] = t
  BY <1>4
<1> QED
  BY <1>2, <1>7, <1>8, <1>9, <1>10, <1>11, WorkerFrame

(* ... and on one whose requests agree.                                     *)
LEMMA ExecutionWork ==
  ASSUME RunInv, NEW w \in Worker, Work(w), ~Contested(wtask[w])
  PROVE  ExecutionInv'
<1>0. UNCHANGED asked
  BY OnlyClientsAsk
<1> DEFINE t == wtask[w]
           n == Len(attempts[t])
<1>1. /\ status \in [Task -> RowStatus] /\ attempts \in [Task -> Seq(AttemptStatus)]
      /\ wpc \in [Worker -> WorkerPC] /\ wtask \in [Worker -> Task \cup {NoTask}]
      /\ watt \in [Worker -> Nat]
  BY DEF RunInv, PolicyInv, TypeInv, TypeOK
<1>2. wpc[w] # "idle"
  BY DEF Work, Claim, LoseClaim, ResolveMissing, ResolveFound, create_task_attempt,
         finish_task_attempt, Complete, Fail, SettleRaises, Return, Step
<1>3. t \in Task
  BY <1>2 DEF RunInv, PolicyInv, TypeInv, InHand
<1>4. HolderSound(w) /\ Backed(t)
  BY <1>3 DEF RunInv, ExecutionInv, HolderInv, HolderSound, Holding, StatusIsBacked
<1>5. attempts[t] \in Seq(AttemptStatus) /\ n \in Nat
  BY <1>1, <1>3, LenProperties
<1>6. Holding(w) => \A v \in Worker : v # w /\ Holding(v) => wtask[v] # t
  BY DEF RunInv, ExecutionInv, OneHolder
<1>7. CASE Claim(w)
  <2>1. status[t] = "queued"
    BY <1>7 DEF Claim, transition_task, Allowed, is_task_transition_allowed,
                TASK_STATUS_TRANSITIONS, TaskStatus
  <2>2. \A v \in Worker : Holding(v) => wtask[v] # t
    BY <2>1, HolderStarted DEF RunStatus
  <2>3. OthersStill(w) /\ wpc'[w] = "resolve" /\ wtask'[w] = t
    BY <1>1, <1>7 DEF Claim, Step, OthersStill
  <2>4. /\ attempts' = attempts /\ status'[t] = "running"
        /\ \A u \in Task : u # t => status'[u] = status[u]
    BY <1>1, <1>3, <1>7 DEF Claim, transition_task
  <2>5. NoSuccess(t, n)
    BY <1>4, <2>1 DEF Backed
  <2>6. HolderSound(w)' /\ Backed(t)'
    BY <2>3, <2>4, <2>5 DEF HolderSound, Backed, NoSuccess
  <2> QED
    BY <1>0, <1>3, <2>2, <2>3, <2>4, <2>6, WorkerFrame DEF OthersStill
<1>8. CASE LoseClaim(w)
  BY <1>0, <1>8, LetGoKeepsExecution DEF LoseClaim, rows
<1>9. CASE ResolveMissing(w) \/ ResolveFound(w)
  <2>1. /\ OthersStill(w) /\ wpc[w] = "resolve" /\ wpc'[w] \in {"fail", "attempt"}
        /\ wtask'[w] = t /\ UNCHANGED <<status, attempts>>
    BY <1>1, <1>9 DEF ResolveMissing, ResolveFound, Step, OthersStill, rows
  <2>2. HolderSound(w)' /\ Backed(t)'
    BY <1>4, <2>1 DEF HolderSound, Backed, NoSuccess
  <2>3. Holding(w)
    BY <2>1 DEF Holding
  <2> QED
    BY <1>0, <1>3, <1>6, <2>1, <2>2, <2>3, WorkerFrame DEF OthersStill
<1>10. CASE create_task_attempt(w)
  <2>1. /\ OthersStill(w) /\ wpc[w] = "attempt" /\ wpc'[w] = "handle"
        /\ wtask'[w] = t /\ watt'[w] = n + 1 /\ status' = status
    BY <1>1, <1>10 DEF create_task_attempt, Step, OthersStill
  <2>2. /\ attempts'[t] = Append(attempts[t], "running")
        /\ \A u \in Task : u # t => attempts'[u] = attempts[u]
    BY <1>1, <1>3, <1>10 DEF create_task_attempt
  <2>3. /\ Len(attempts'[t]) = n + 1
        /\ \A i \in 1..n : attempts'[t][i] = attempts[t][i]
        /\ attempts'[t][n + 1] = "running"
    BY <1>5, <2>2, AppendProperties DEF AttemptStatus
  <2>4. NoSuccess(t, n) /\ status[t] \in {"running", "timed_out"} /\ Holding(w)
    BY <1>4, <2>1 DEF HolderSound, Holding
  <2>5. /\ \A i \in 1..n : attempts'[t][i] # "succeeded"
        /\ (n + 1) - 1 = n /\ n + 1 > 0
    BY <1>5, <2>3, <2>4 DEF NoSuccess
  <2>6. HolderSound(w)' /\ Backed(t)'
    BY <2>1, <2>3, <2>4, <2>5 DEF HolderSound, Backed, NoSuccess
  <2> QED
    BY <1>0, <1>3, <1>6, <2>1, <2>2, <2>4, <2>6, WorkerFrame DEF OthersStill
<1>11. ASSUME NEW outcome \in {"succeeded", "failed"}, finish_task_attempt(w, outcome)
       PROVE  ExecutionInv'
  <2>1. /\ OthersStill(w) /\ wpc[w] = "handle"
        /\ wpc'[w] = IF outcome = "succeeded" THEN "complete" ELSE "fail"
        /\ wtask'[w] = t /\ status' = status
    BY <1>1, <1>11 DEF finish_task_attempt, Step, OthersStill
  <2>2. /\ n > 0 /\ watt[w] = n /\ NoSuccess(t, n - 1) /\ Holding(w)
        /\ status[t] \in {"running", "timed_out"}
    BY <1>4, <2>1 DEF HolderSound, Holding
  <2>3. /\ attempts'[t] = [attempts[t] EXCEPT ![n] = outcome]
        /\ \A u \in Task : u # t => attempts'[u] = attempts[u]
    BY <1>1, <1>3, <1>11, <2>2 DEF finish_task_attempt
  <2>4. /\ Len(attempts'[t]) = n
        /\ \A i \in 1..n : attempts'[t][i] = IF i = n THEN outcome ELSE attempts[t][i]
    BY <1>5, <2>2, <2>3, ExceptSeq DEF AttemptStatus
  <2>5. /\ attempts'[t][n] = outcome
        /\ \A i \in 1..(n - 1) : attempts'[t][i] # "succeeded"
        /\ outcome = "failed" => \A i \in 1..n : attempts'[t][i] # "succeeded"
    BY <1>5, <2>2, <2>4 DEF NoSuccess
  <2>6. HolderSound(w)' /\ Backed(t)'
    BY <2>1, <2>2, <2>4, <2>5 DEF HolderSound, Backed, NoSuccess
  <2> QED
    BY <1>0, <1>3, <1>6, <2>1, <2>2, <2>3, <2>6, WorkerFrame DEF OthersStill
<1>12. CASE Complete(w)
  <2>1. /\ OthersStill(w) /\ wpc[w] = "complete" /\ wpc'[w] = "handoffs"
        /\ wtask'[w] = t /\ attempts' = attempts
    BY <1>1, <1>12 DEF Complete, Step, OthersStill
  <2>2. status'[t] = "succeeded" /\ \A u \in Task : u # t => status'[u] = status[u]
    BY <1>1, <1>3, <1>12 DEF Complete, transition_task
  <2>3. n > 0 /\ attempts[t][n] # "failed" /\ NoSuccess(t, n - 1) /\ Holding(w)
    BY <1>4, <2>1 DEF HolderSound, Holding
  <2>4. HolderSound(w)' /\ Backed(t)'
    BY <2>1, <2>2, <2>3 DEF HolderSound, Backed, NoSuccess
  <2> QED
    BY <1>0, <1>3, <1>6, <2>1, <2>2, <2>3, <2>4, WorkerFrame DEF OthersStill
<1>13. CASE Fail(w)
  <2>1. PICK u \in Task : u = wtask[w]
    BY <1>3
  <2>2. /\ OthersStill(w) /\ wpc[w] = "fail" /\ wpc'[w] = "idle" /\ attempts' = attempts
    BY <1>1, <1>13 DEF Fail, Finish, OthersStill
  <2>3. status'[u] = "failed" /\ \A v \in Task : v # u => status'[v] = status[v]
    BY <1>1, <1>13, <2>1 DEF Fail, transition_task
  <2>4. NoSuccess(u, Len(attempts[u])) /\ Holding(w)
    BY <1>4, <2>1, <2>2 DEF HolderSound, Holding
  <2>5. HolderSound(w)' /\ ~Holding(w)'
    BY <2>2 DEF HolderSound, Holding
  <2>6. Backed(u)'
    BY <2>2, <2>3, <2>4 DEF Backed, NoSuccess
  <2> QED
    BY <1>0, <1>6, <2>1, <2>2, <2>3, <2>4, <2>5, <2>6, WorkerFrame DEF OthersStill
<1>14. CASE SettleRaises(w) \/ Return(w)
  BY <1>0, <1>14, LetGoKeepsExecution DEF SettleRaises, Return, rows
<1> QED
  BY <1>7, <1>8, <1>9, <1>10, <1>11, <1>12, <1>13, <1>14 DEF Work

LEMMA ExecutionOutage ==
  ASSUME RunInv, NEW w \in Worker, ~Contested(wtask[w]),
         \/ CompleteUnrecorded(w) \/ FailUnrecorded(w)
         \/ \E outcome \in {"succeeded", "failed"} : FinishUnrecorded(w, outcome)
  PROVE  ExecutionInv'
<1>0. UNCHANGED asked
  BY OnlyClientsAsk DEF Outage
<1> DEFINE t == wtask[w]
           n == Len(attempts[t])
<1>1. /\ wpc \in [Worker -> WorkerPC] /\ wtask \in [Worker -> Task \cup {NoTask}]
      /\ watt \in [Worker -> Nat] /\ attempts \in [Task -> Seq(AttemptStatus)]
  BY DEF RunInv, PolicyInv, TypeInv, TypeOK
<1>2. wpc[w] \in {"handle", "complete", "fail"} /\ UNCHANGED <<status, attempts>>
  BY DEF FinishUnrecorded, CompleteUnrecorded, FailUnrecorded, Unrecorded, Step, rows
<1>3. t \in Task /\ Holding(w)
  BY <1>2 DEF RunInv, PolicyInv, TypeInv, InHand, Holding
<1>4. HolderSound(w) /\ Backed(t)
  BY <1>3 DEF RunInv, ExecutionInv, HolderInv, StatusIsBacked
<1>5. n \in Nat
  BY <1>1, <1>3, LenProperties
<1>6. \A v \in Worker : v # w /\ Holding(v) => wtask[v] # t
  BY <1>3 DEF RunInv, ExecutionInv, OneHolder
<1>7. CASE FailUnrecorded(w)
  BY <1>0, <1>2, <1>7, LetGoKeepsExecution DEF FailUnrecorded
<1>8. ASSUME NEW outcome \in {"succeeded", "failed"},
             FinishUnrecorded(w, outcome) \/ CompleteUnrecorded(w)
      PROVE  ExecutionInv'
  <2>1. /\ OthersStill(w) /\ wtask'[w] = t
        /\ \/ wpc[w] = "handle" /\ wpc'[w] \in {"complete", "fail"}
           \/ wpc[w] = "complete" /\ wpc'[w] = "handoffs"
    BY <1>1, <1>8 DEF FinishUnrecorded, CompleteUnrecorded, Step, OthersStill
  <2>2. wpc[w] = "handle" => NoSuccess(t, n)
    BY <1>4, <1>5 DEF HolderSound, NoSuccess
  <2>3. HolderSound(w)' /\ Backed(t)'
    BY <1>2, <1>4, <1>5, <2>1, <2>2 DEF HolderSound, Backed, NoSuccess
  <2> QED
    BY <1>0, <1>2, <1>3, <1>6, <2>1, <2>3, WorkerFrame DEF OthersStill
<1> QED
  BY <1>7, <1>8

LEMMA RunInvNext == RunInv /\ [Next]_vars => RunInv'
<1> SUFFICES ASSUME RunInv, [Next]_vars PROVE RunInv'
  OBVIOUS
<1>1. PolicyInv'
  BY PolicyInvNext DEF RunInv
<1>0. TypeOK'
  BY <1>1 DEF PolicyInv, TypeInv
<1>2. CASE UNCHANGED vars
  <2>1. AskedGrows
    BY <1>2 DEF vars, clientVars, AskedGrows
  <2> QED
    BY <1>0, <1>1, <1>2, <2>1, UntouchedKeepsExecution DEF vars, rows, workerVars, RunInv
<1>3. CASE Next
  <2>1. ASSUME NEW w \in Worker, Work(w) \/ Outage(w) PROVE ExecutionInv'
    <3>1. ASSUME NEW t \in Task, NEW k \in 0..Retries, IgnoreUnread(w, t, k)
          PROVE  ExecutionInv'
      <4>1. UNCHANGED <<status, attempts, wpc, wtask, watt>> /\ AskedGrows
        BY <3>1 DEF IgnoreUnread, rows, clientVars, workerVars, AskedGrows
      <4> QED
        BY <1>0, <4>1, UntouchedKeepsExecution
    <3>2. CASE \/ Work(w) \/ CompleteUnrecorded(w) \/ FailUnrecorded(w)
               \/ \E outcome \in {"succeeded", "failed"} : FinishUnrecorded(w, outcome)
      <4>1. wpc[w] # "idle"
        BY <3>2 DEF Work, Claim, LoseClaim, ResolveMissing, ResolveFound,
                    create_task_attempt, finish_task_attempt, Complete, Fail, SettleRaises,
                    Return, CompleteUnrecorded, FailUnrecorded, FinishUnrecorded, Step
      <4>2. wtask[w] \in Task
        BY <4>1 DEF RunInv, PolicyInv, TypeInv, InHand
      <4> QED
        BY <3>2, <4>2, ExecutionTorn, ExecutionWork, ExecutionOutage
    <3> QED
      BY <2>1, <3>1, <3>2 DEF Outage
  <2>2. ExecutionInv'
    BY <1>0, <1>3, <2>1, ExecutionClient, ExecutionSchedulers, ExecutionHatchet DEF Next
  <2> QED
    BY <1>1, <2>2 DEF RunInv
<1> QED
  BY <1>2, <1>3

LEMMA RunInvInit == Init => RunInv
<1> SUFFICES ASSUME Init PROVE ExecutionInv
  BY PolicyInvInit DEF RunInv
<1>1. \A t \in Task : attempts[t] = <<>> /\ Len(attempts[t]) = 0 /\ status[t] = "absent"
  BY EmptySeq DEF Init
<1>2. StatusIsBacked
  BY <1>1 DEF StatusIsBacked, Backed, NoSuccess
<1>3. HolderInv /\ OneHolder
  BY DEF Init, HolderInv, HolderSound, OneHolder, Holding
<1> QED
  BY <1>2, <1>3 DEF ExecutionInv

(* However many runs Hatchet delivers for a task, and however they are      *)
(* retried, raced or timed out, one worker at a time is between its claim   *)
(* and its end (execute_agent_task_job, reconcile_stuck_tasks).             *)
THEOREM HeldByOne == Spec => []OneHolder
<1>1. RunInv => OneHolder
  BY DEF RunInv, ExecutionInv
<1> QED
  BY RunInvInit, RunInvNext, <1>1, PTL DEF Spec

(* The status of a task agrees with the attempt rows behind it.             *)
THEOREM ExecutionSafety == Spec => []StatusIsBacked
<1>1. RunInv => StatusIsBacked
  BY DEF RunInv, ExecutionInv
<1> QED
  BY RunInvInit, RunInvNext, <1>1, PTL DEF Spec
=============================================================================

------------------------- MODULE TaskContractProofs -------------------------
(***************************************************************************)
(* AgentTasks implements the safety of TaskContract: for any number of     *)
(* clients, workers, retries and faults, every step of the runtime is a    *)
(* step of the contract or leaves its variables alone.                     *)
(***************************************************************************)
EXTENDS AgentTasksProofs, FiniteSetTheorems

(* A worker that has claimed and not yet opened its attempt row.            *)
MayStart(w, t) == wpc[w] \in {"resolve", "attempt"} /\ wtask[w] = t

(* One that has opened it and may still complete the task.                  *)
Opened(w, t) == wpc[w] \in {"handle", "complete"} /\ wtask[w] = t

Calm ==
  \A w \in Worker, t \in Task :
     (MayStart(w, t)' => MayStart(w, t)) /\ (Opened(w, t)' => Opened(w, t))

(* What a step that is neither a start nor a run may ask for, and why it is *)
(* allowed to.                                                              *)
Grounds(t, target) ==
  /\ target \in {"queued", "waiting_for_approval", "succeeded", "failed", "timed_out"}
  /\ target = "queued" => FALSE \in asked[t]
  /\ target = "waiting_for_approval" => TRUE \in asked[t]
  /\ target = "succeeded" => Len(attempts[t]) > 0

Still ==
  /\ UNCHANGED <<status, events>>
  /\ \A t \in Task : Len(attempts'[t]) = Len(attempts[t])
  /\ Calm

Quiet == Still /\ UNCHANGED asked

Names == Still /\ \E t \in Task, needs \in BOOLEAN : Asks(t, needs)

Moves(t, target) == transition_task(t, target) /\ UNCHANGED <<attempts, asked>>

Starts(w) ==
  /\ Moves(wtask[w], "running")
  /\ wtask[w] \in Task
  /\ \A v \in Worker, t \in Task :
        /\ MayStart(v, t)' => MayStart(v, t) \/ t = wtask[w]
        /\ Opened(v, t)' => Opened(v, t)

Runs(w) ==
  /\ MayStart(w, wtask[w]) /\ wtask[w] \in Task
  /\ Contested(wtask[w]) \/ status[wtask[w]] \in {"running", "timed_out"}
  /\ attempts' = [attempts EXCEPT ![wtask[w]] = Append(@, "running")]
  /\ UNCHANGED <<status, events, asked>>
  /\ \A v \in Worker, t \in Task :
        /\ MayStart(v, t)' => MayStart(v, t) /\ (Contested(t) \/ t # wtask[w])
        /\ Opened(v, t)' => Opened(v, t) \/ t = wtask[w]

(* Who may complete a task has an attempt row to show for it.               *)
Attempted == \A w \in Worker, t \in Task : Opened(w, t) => Len(attempts[t]) > 0

Kinds ==
  \/ Quiet
  \/ Names
  \/ \E t \in Task : insert_task(t) /\ UNCHANGED <<attempts, asked>> /\ Calm
  \/ \E t \in Task, target \in TaskStatus :
       Moves(t, target) /\ Grounds(t, target) /\ Calm
  \/ \E w \in Worker : Starts(w) \/ Runs(w)

LEMMA QuietUnchanged ==
  ASSUME UNCHANGED <<status, events, attempts, wpc, wtask>>
  PROVE  Still /\ (UNCHANGED asked => Quiet)
BY DEF Still, Quiet, Calm, MayStart, Opened

LEMMA LetGoIsQuiet ==
  ASSUME RunInv, NEW w \in Worker, Finish(w), UNCHANGED <<status, events, attempts, asked>>
  PROVE  Quiet
BY DEF Still, Quiet, Calm, MayStart, Opened, Finish, RunInv, PolicyInv, TypeInv, TypeOK

LEMMA ClientKinds ==
  ASSUME RunInv, NEW c \in Client, ClientStep(c)
  PROVE  Kinds
<1>1. CASE Insert(c)
  <2>1. ctask[c] \in Task
    BY <1>1 DEF Insert, RunInv, PolicyInv, TypeInv, InHand
  <2> QED
    BY <1>1, <2>1 DEF Insert, Kinds, Calm, MayStart, Opened, workerVars
<1>2. CASE Route(c)
  <2> DEFINE to == RouteTarget(c)
  <2>1. ctask[c] \in Task /\ to \in TaskStatus
    BY <1>2 DEF Route, RunInv, PolicyInv, TypeInv, InHand, RouteTarget, TaskStatus
  <2>2. Moves(ctask[c], to) /\ Calm
    BY <1>2 DEF Route, Leave, Moves, Calm, MayStart, Opened, workerVars
  <2>3. Grounds(ctask[c], to)
    <3>1. cneeds[c] \in BOOLEAN /\ cneeds[c] \in asked[ctask[c]]
      BY <1>2 DEF Route, RunInv, PolicyInv, TypeInv, TypeOK, InHand
    <3> QED
      BY <3>1 DEF Grounds, RouteTarget
  <2> HIDE DEF to
  <2> QED
    BY <2>1, <2>2, <2>3 DEF Kinds
<1>3. CASE UNCHANGED <<rows, workerVars, asked>>
  BY <1>3, QuietUnchanged DEF rows, workerVars, Kinds
<1>4. ASSUME NEW t \in Task, NEW needs \in BOOLEAN,
             FindExisting(c, t, needs) \/ MissExisting(c, t, needs) \/ FindRouted(c, t, needs)
      PROVE  Names
  BY <1>4, QuietUnchanged
     DEF FindExisting, MissExisting, FindRouted, LookUp, rows, workerVars, Names
<1> QED
  BY <1>1, <1>2, <1>3, <1>4
     DEF ClientStep, InsertConflict, RouteRaises, ClientRetry, ClientCrash, Leave, Kinds

LEMMA SchedulerKinds ==
  ASSUME RunInv,
         \/ DispatcherStep \/ DispatcherCrash \/ ReconcilerStep \/ ReconcilerCrash
         \/ \E t \in Task : TimeOutUnrecorded(t) \/ Lapse(t)
  PROVE  Kinds
<1>1. ASSUME NEW t \in Task, TimeOut(t) PROVE Kinds
  <2>1. Moves(t, "timed_out") /\ Calm /\ Grounds(t, "timed_out")
    BY <1>1 DEF TimeOut, Moves, Calm, MayStart, Opened, Grounds, workerVars, clientVars
  <2> QED
    BY <2>1 DEF Kinds, TaskStatus
<1>2. CASE UNCHANGED <<status, events, attempts, asked, workerVars>>
  BY <1>2, QuietUnchanged DEF workerVars, Kinds
<1> QED
  BY <1>1, <1>2
     DEF DispatcherStep, SelectQueued, Enqueue, DispatcherCrash, ReconcilerStep,
         SelectOverdue, SkipSettled, ReconcilerCrash, TimeOutUnrecorded, Unrecorded,
         Lapse, rows, clientVars

LEMMA HatchetKinds ==
  ASSUME RunInv, NEW w \in Worker, Deliver(w) \/ Crash(w) \/ ExecutionTimeout(w)
  PROVE  Kinds
<1>1. ASSUME NEW t \in Task, NEW k \in 0..Retries, Take(w, t, k) PROVE Quiet
  BY <1>1 DEF Take, Step, Still, Quiet, Calm, MayStart, Opened, rows, clientVars,
              RunInv, PolicyInv, TypeInv, TypeOK
<1>2. CASE Crash(w)
  BY <1>2, LetGoIsQuiet DEF Crash, rows, clientVars, Kinds
<1>3. CASE UNCHANGED <<rows, asked, wpc, wtask>>
  BY <1>3, QuietUnchanged DEF rows, Kinds
<1> QED
  BY <1>1, <1>2, <1>3 DEF Deliver, Ignore, ExecutionTimeout, workerVars, clientVars, Kinds

LEMMA WorkKinds ==
  ASSUME RunInv, Attempted, NEW w \in Worker, Work(w) \/ Outage(w)
  PROVE  Kinds
<1> DEFINE t == wtask[w]
<1>0. /\ wpc \in [Worker -> WorkerPC] /\ wtask \in [Worker -> Task \cup {NoTask}]
      /\ attempts \in [Task -> Seq(AttemptStatus)]
      /\ wpc[w] # "idle" => t \in Task
      /\ Holding(w) => Contested(t) \/ HolderSound(w)
  BY DEF RunInv, PolicyInv, TypeInv, TypeOK, InHand, ExecutionInv, HolderInv
<1>1. CASE Claim(w)
  <2>1. Starts(w)
    BY <1>0, <1>1 DEF Claim, Step, Starts, Moves, MayStart, Opened, clientVars
  <2> QED
    BY <2>1 DEF Kinds
<1>2. CASE LoseClaim(w) \/ SettleRaises(w) \/ Return(w) \/ FailUnrecorded(w)
  BY <1>2, LetGoIsQuiet
     DEF LoseClaim, SettleRaises, Return, FailUnrecorded, Unrecorded, rows, clientVars,
         Kinds
<1>3. CASE \/ ResolveMissing(w) \/ ResolveFound(w) \/ CompleteUnrecorded(w)
           \/ \E outcome \in {"succeeded", "failed"} : FinishUnrecorded(w, outcome)
           \/ \E u \in Task, k \in 0..Retries : IgnoreUnread(w, u, k)
  <2>1. Quiet
    BY <1>0, <1>3 DEF ResolveMissing, ResolveFound, CompleteUnrecorded, FinishUnrecorded,
                      IgnoreUnread, Unrecorded, Step, Still, Quiet, Calm, MayStart, Opened,
                      rows, clientVars, workerVars
  <2> QED
    BY <2>1 DEF Kinds
<1>4. CASE create_task_attempt(w)
  <2>1. /\ t \in Task /\ MayStart(w, t)
        /\ Contested(t) \/ status[t] \in {"running", "timed_out"}
    BY <1>0, <1>4 DEF create_task_attempt, Step, Holding, HolderSound, MayStart
  <2>2. ASSUME NEW v \in Worker, NEW u \in Task, MayStart(v, u)'
        PROVE  MayStart(v, u) /\ (Contested(u) \/ u # t)
    <3>1. v # w
      BY <1>0, <1>4, <2>2 DEF create_task_attempt, Step, MayStart
    <3>2. MayStart(v, u)
      BY <1>0, <1>4, <2>2, <3>1 DEF create_task_attempt, Step, MayStart
    <3>3. Holding(v) /\ Holding(w)
      BY <1>4, <3>2 DEF create_task_attempt, Step, MayStart, Holding
    <3> QED
      BY <3>1, <3>2, <3>3 DEF MayStart, RunInv, ExecutionInv, OneHolder
  <2>3. \A v \in Worker, u \in Task : Opened(v, u)' => Opened(v, u) \/ u = t
    BY <1>0, <1>4 DEF create_task_attempt, Step, Opened
  <2>4. Runs(w)
    BY <1>4, <2>1, <2>2, <2>3 DEF create_task_attempt, Runs, clientVars
  <2> QED
    BY <2>4 DEF Kinds
<1>5. ASSUME NEW outcome \in {"succeeded", "failed"}, finish_task_attempt(w, outcome)
      PROVE  Quiet
  <2>1. t \in Task /\ wpc' = [wpc EXCEPT ![w] = IF outcome = "succeeded" THEN "complete" ELSE "fail"]
    BY <1>0, <1>5 DEF finish_task_attempt, Step
  <2>2. attempts[t] \in Seq(AttemptStatus) /\ watt[w] \in Nat
    BY <1>0, <2>1 DEF RunInv, PolicyInv, TypeInv, TypeOK
  <2>3. Len([attempts[t] EXCEPT ![watt[w]] = outcome]) = Len(attempts[t])
    BY <2>2, AttemptTyped DEF AttemptStatus
  <2>4. \A u \in Task : Len(attempts'[u]) = Len(attempts[u])
    BY <1>0, <1>5, <2>1, <2>3 DEF finish_task_attempt
  <2>5. Calm
    BY <1>0, <1>5, <2>1 DEF finish_task_attempt, Step, Calm, MayStart, Opened
  <2> QED
    BY <1>5, <2>4, <2>5 DEF finish_task_attempt, Still, Quiet, clientVars
<1>6. CASE Complete(w)
  <2>1. t \in Task /\ Moves(t, "succeeded")
    BY <1>0, <1>6 DEF Complete, Step, Moves, clientVars
  <2>2. Grounds(t, "succeeded")
    BY <1>0, <1>6, <2>1 DEF Complete, Step, Attempted, Opened, Grounds
  <2>3. Calm
    BY <1>0, <1>6 DEF Complete, Step, Calm, MayStart, Opened
  <2> QED
    BY <2>1, <2>2, <2>3 DEF Kinds, TaskStatus
<1>7. CASE Fail(w)
  <2>1. t \in Task /\ Moves(t, "failed") /\ Grounds(t, "failed")
    BY <1>0, <1>7 DEF Fail, Moves, Grounds, clientVars
  <2>2. Calm
    BY <1>0, <1>7 DEF Fail, Finish, Calm, MayStart, Opened
  <2> QED
    BY <2>1, <2>2 DEF Kinds, TaskStatus
<1> QED
  BY <1>1, <1>2, <1>3, <1>4, <1>5, <1>6, <1>7 DEF Work, Outage, Kinds

LEMMA StepKinds == RunInv /\ Attempted /\ [Next]_vars => Kinds
<1> SUFFICES ASSUME RunInv, Attempted, [Next]_vars PROVE Kinds
  OBVIOUS
<1>1. CASE UNCHANGED vars
  BY <1>1, QuietUnchanged DEF vars, rows, clientVars, workerVars, Kinds
<1>2. CASE Next
  BY <1>2, ClientKinds, SchedulerKinds, HatchetKinds, WorkKinds DEF Next
<1> QED
  BY <1>1, <1>2

----------------------------------------------------------------------------
StartsIn(log, t) == {e \in log : e.task = t /\ e.to = "running"}

(* Every attempt row was opened by a worker that had started the task, and  *)
(* who has started it and opened none yet is one start ahead, unless two    *)
(* workers could hold the task.                                             *)
StartedFirst ==
  \A t \in Task :
     \/ Contested(t)
     \/ /\ Len(attempts[t]) <= Cardinality(StartsIn(events, t))
        /\ \A w \in Worker :
             MayStart(w, t) => Len(attempts[t]) < Cardinality(StartsIn(events, t))

(* Approval is the only thing a task waits for, and nobody cancels.         *)
WaitsForApproval ==
  \A t \in Task :
    /\ status[t] \notin {"waiting_for_input", "cancelled"}
    /\ status[t] = "waiting_for_approval" => TRUE \in asked[t]

ContractInv ==
  /\ RunInv /\ LogInv /\ IsFiniteSet(events)
  /\ StartedFirst /\ WaitsForApproval /\ Attempted

LEMMA ContractInvInit == Init => ContractInv
<1> SUFFICES ASSUME Init PROVE ContractInv
  OBVIOUS
<1>1. RunInv
  BY RunInvInit
<1>2. LogInv
  BY TypeInvInit DEF LogInv, Init, RowInv, EventLogMirrorsTask
<1>3. \A t \in Task : StartsIn(events, t) = {} /\ Len(attempts[t]) = 0
  BY EmptySeq DEF Init, StartsIn
<1>4. StartedFirst
  <2>1. Cardinality({}) = 0 /\ \A w \in Worker : wpc[w] = "idle"
    BY FS_EmptySet DEF Init
  <2>2. ASSUME NEW t \in Task PROVE Len(attempts[t]) = 0 /\ Cardinality(StartsIn(events, t)) = 0
    BY <1>3, <2>1
  <2>3. \A w \in Worker, t \in Task : ~MayStart(w, t)
    BY <2>1 DEF MayStart
  <2> QED
    BY <2>2, <2>3 DEF StartedFirst
<1> QED
  BY <1>1, <1>2, <1>4, FS_EmptySet DEF ContractInv, WaitsForApproval, Attempted, Opened, Init

(* An event of another kind is not counted.                                 *)
LEMMA OthersDoNotCount ==
  ASSUME NEW t, NEW v, NEW to, append_event(t, v, to), to # "running"
  PROVE  \A u \in Task : StartsIn(events', u) = StartsIn(events, u)
BY DEF append_event, StartsIn

(* How an appended event changes the count of starts.                       *)
LEMMA AppendCounts ==
  ASSUME ContractInv, NEW t \in Task, NEW to,
         append_event(t, version[t] + 1, to)
  PROVE  /\ IsFiniteSet(events')
         /\ \A u \in Task : Cardinality(StartsIn(events, u)) \in Nat
         /\ \A u \in Task : u # t \/ to # "running" => StartsIn(events', u) = StartsIn(events, u)
         /\ to = "running" =>
              Cardinality(StartsIn(events', t)) = Cardinality(StartsIn(events, t)) + 1
<1> DEFINE new == [task |-> t, version |-> version[t] + 1, to |-> to]
<1>1. events' = events \cup {new}
  BY DEF append_event
<1>2. version[t] \in Nat
  BY DEF ContractInv, LogInv, TypeInv, TypeOK
<1>3. new \notin events
  <2>1. \A e \in events : e.task = t => e.version \in 1..version[t]
    BY DEF ContractInv, LogInv, EventLogMirrorsTask
  <2> QED
    BY <1>2, <2>1
<1>4. \A u \in Task : IsFiniteSet(StartsIn(events, u)) /\ Cardinality(StartsIn(events, u)) \in Nat
  <2>1. ASSUME NEW u \in Task PROVE StartsIn(events, u) \in SUBSET events
    BY DEF StartsIn
  <2> QED
    BY <2>1, FS_Subset, FS_CardinalityType DEF ContractInv
<1>5. IsFiniteSet(events')
  BY <1>1, FS_AddElement DEF ContractInv
<1>6. ASSUME NEW u \in Task, u # t \/ to # "running" PROVE StartsIn(events', u) = StartsIn(events, u)
  BY <1>1, <1>6 DEF StartsIn
<1>7. ASSUME to = "running"
      PROVE  Cardinality(StartsIn(events', t)) = Cardinality(StartsIn(events, t)) + 1
  <2>1. StartsIn(events', t) = StartsIn(events, t) \cup {new} /\ new \notin StartsIn(events, t)
    BY <1>1, <1>3, <1>7 DEF StartsIn
  <2> QED
    BY <1>4, <2>1, FS_AddElement
<1> QED
  BY <1>4, <1>5, <1>6, <1>7

LEMMA MovesAppend ==
  ASSUME NEW t \in Task, NEW to, Moves(t, to)
  PROVE  /\ append_event(t, version[t] + 1, to)
         /\ status' = [status EXCEPT ![t] = to]
         /\ UNCHANGED <<attempts, asked>>
         /\ to \in TASK_STATUS_TRANSITIONS[status[t]] /\ status[t] \in TaskStatus
BY DEF Moves, transition_task, Allowed, is_task_transition_allowed

LEMMA ContractInvNext == ContractInv /\ [Next]_vars => ContractInv'
<1> SUFFICES ASSUME ContractInv, [Next]_vars PROVE ContractInv'
  OBVIOUS
<1>1. RunInv' /\ LogInv'
  BY RunInvNext, LogInvNext DEF ContractInv
<1>2. /\ status \in [Task -> RowStatus] /\ attempts \in [Task -> Seq(AttemptStatus)]
      /\ \A t \in Task : Len(attempts[t]) \in Nat
  BY DEF ContractInv, LogInv, TypeInv, TypeOK
<1>3. CASE Still /\ AskedGrows
  <2>1. /\ UNCHANGED <<status, events>> /\ Calm
        /\ \A t \in Task : Len(attempts'[t]) = Len(attempts[t])
    BY <1>3 DEF Still
  <2>2. \A t \in Task : Contested(t) => Contested(t)'
    BY <1>1, <1>3, ContestedStays DEF LogInv, TypeInv
  <2>3. \A t \in Task : StartsIn(events, t)' = StartsIn(events, t)
    BY <2>1 DEF StartsIn
  <2>4. StartedFirst'
    BY <2>1, <2>2, <2>3 DEF Calm, ContractInv, StartedFirst
  <2>5. WaitsForApproval'
    BY <1>3, <2>1 DEF ContractInv, WaitsForApproval, AskedGrows
  <2>6. Attempted'
    BY <2>1 DEF Calm, ContractInv, Attempted
  <2> QED
    BY <1>1, <2>1, <2>4, <2>5, <2>6 DEF ContractInv
<1>8. CASE Quiet \/ Names
  <2>1. TypeOK
    BY DEF ContractInv, LogInv, TypeInv
  <2>2. AskedGrows
    BY <1>8, <2>1, AsksTyped DEF Quiet, Names, AskedGrows
  <2> QED
    BY <1>3, <1>8, <2>2 DEF Quiet, Names
<1>4. ASSUME NEW t \in Task, insert_task(t), UNCHANGED <<attempts, asked>>, Calm
      PROVE  ContractInv'
  <2>1. version[t] = 0
    BY <1>4 DEF insert_task, ContractInv, LogInv, RowInv
  <2>2. append_event(t, version[t] + 1, "proposed")
    BY <1>4, <2>1 DEF insert_task, append_event
  <2>3. IsFiniteSet(events') /\ \A u \in Task : StartsIn(events', u) = StartsIn(events, u)
    <3>1. PICK to : to = "proposed"
      OBVIOUS
    <3>2. to # "running" /\ append_event(t, version[t] + 1, to)
      BY <2>2, <3>1
    <3> QED
      BY <3>2, AppendCounts
  <2>4. WaitsForApproval'
    BY <1>2, <1>4 DEF insert_task, ContractInv, WaitsForApproval
  <2> QED
    BY <1>1, <1>4, <2>3, <2>4 DEF Calm, ContractInv, StartedFirst, Contested, Attempted
<1>5. ASSUME NEW t \in Task, NEW to \in TaskStatus,
             Moves(t, to), Grounds(t, to), Calm
      PROVE  ContractInv'
  <2>1. IsFiniteSet(events') /\ \A u \in Task : StartsIn(events', u) = StartsIn(events, u)
    <3>1. append_event(t, version[t] + 1, to) /\ to # "running"
      BY <1>5, MovesAppend DEF Grounds
    <3> QED
      BY <3>1, AppendCounts
  <2>2. WaitsForApproval'
    <3>1. status' = [status EXCEPT ![t] = to] /\ UNCHANGED asked
      BY <1>5, MovesAppend
    <3>2. /\ to \notin {"waiting_for_input", "cancelled"}
          /\ to = "waiting_for_approval" => TRUE \in asked[t]
      BY <1>5 DEF Grounds
    <3> QED
      BY <1>2, <3>1, <3>2 DEF ContractInv, WaitsForApproval
  <2>3. StartedFirst' /\ Attempted'
    BY <1>5, <2>1, MovesAppend DEF Calm, ContractInv, StartedFirst, Contested, Attempted
  <2> QED
    BY <1>1, <2>1, <2>2, <2>3 DEF ContractInv
<1>6. ASSUME NEW w \in Worker, Starts(w) PROVE ContractInv'
  <2>1. PICK t \in Task : t = wtask[w] /\ Moves(t, "running")
    BY <1>6 DEF Starts
  <2>2. /\ append_event(t, version[t] + 1, "running")
        /\ status' = [status EXCEPT ![t] = "running"]
        /\ UNCHANGED <<attempts, asked>>
    BY <2>1, MovesAppend
  <2>3. /\ IsFiniteSet(events')
        /\ \A u \in Task : Cardinality(StartsIn(events, u)) \in Nat
        /\ \A u \in Task : u # t => StartsIn(events', u) = StartsIn(events, u)
        /\ Cardinality(StartsIn(events', t)) = Cardinality(StartsIn(events, t)) + 1
    BY <2>1, <2>2, AppendCounts
  <2>4. WaitsForApproval'
    BY <1>2, <2>1, <2>2 DEF ContractInv, WaitsForApproval
  <2>5. ASSUME NEW u \in Task, ~Contested(u)
        PROVE  /\ Len(attempts'[u]) <= Cardinality(StartsIn(events', u))
               /\ \A v \in Worker : MayStart(v, u)' =>
                    Len(attempts'[u]) < Cardinality(StartsIn(events', u))
    <3>1. Len(attempts[u]) \in Nat /\ Len(attempts[u]) <= Cardinality(StartsIn(events, u))
      BY <1>2, <2>5 DEF ContractInv, StartedFirst
    <3>2. CASE u = t
      BY <2>2, <2>3, <3>1, <3>2
    <3>3. CASE u # t
      <4>1. \A v \in Worker : MayStart(v, u)' => MayStart(v, u)
        BY <1>6, <2>1, <3>3 DEF Starts
      <4>2. Cardinality(StartsIn(events', u)) = Cardinality(StartsIn(events, u))
        BY <2>3, <3>3
      <4> QED
        BY <2>2, <2>5, <3>1, <4>1, <4>2 DEF ContractInv, StartedFirst
    <3> QED
      BY <3>2, <3>3
  <2> QED
    BY <1>1, <1>6, <2>2, <2>3, <2>4, <2>5
       DEF Starts, ContractInv, StartedFirst, Contested, Attempted
<1>7. ASSUME NEW w \in Worker, Runs(w) PROVE ContractInv'
  <2> DEFINE t == wtask[w]
  <2>1. /\ t \in Task
        /\ Contested(t) \/ Len(attempts[t]) < Cardinality(StartsIn(events, t))
    BY <1>7 DEF Runs, ContractInv, StartedFirst
  <2>2. /\ Len(attempts'[t]) = Len(attempts[t]) + 1
        /\ \A u \in Task : u # t => attempts'[u] = attempts[u]
    <3>1. Len(Append(attempts[t], "running")) = Len(attempts[t]) + 1
      BY <1>2, <2>1, AppendProperties DEF AttemptStatus
    <3> QED
      BY <1>2, <1>7, <2>1, <3>1 DEF Runs
  <2>3. \A u \in Task : StartsIn(events', u) = StartsIn(events, u) /\ Cardinality(StartsIn(events, u)) \in Nat
    <3>1. ASSUME NEW u \in Task PROVE StartsIn(events, u) \in SUBSET events
      BY DEF StartsIn
    <3> QED
      BY <1>7, <3>1, FS_Subset, FS_CardinalityType DEF Runs, StartsIn, ContractInv
  <2>4. StartedFirst'
    BY <1>2, <1>7, <2>1, <2>2, <2>3 DEF Runs, ContractInv, StartedFirst, Contested
  <2>5. Attempted'
    BY <1>2, <1>7, <2>1, <2>2 DEF Runs, ContractInv, Attempted
  <2> QED
    BY <1>1, <1>7, <2>4, <2>5 DEF Runs, ContractInv, WaitsForApproval
<1> QED
  BY <1>4, <1>5, <1>6, <1>7, <1>8, StepKinds DEF Kinds, ContractInv

----------------------------------------------------------------------------
(* The refinement mapping of ImplementsContract, by name.                   *)
StageMap == [t \in Task |-> StageOf(status[t])]
StartMap == [t \in Task |-> Cardinality(StartsIn(events, t))]
RunMap   == [t \in Task |-> Len(attempts[t])]
WaivedMap == {t \in Task : FALSE \in asked[t]}
TornMap   == {t \in Task : Contested(t)}

(* Where a task is in the contract when the runtime moves it.               *)
LEMMA MoveMaps ==
  ASSUME ContractInv, NEW t \in Task, NEW to,
         status' = [status EXCEPT ![t] = to]
  PROVE  StageMap' = [StageMap EXCEPT ![t] = StageOf(to)]
BY DEF StageMap, ContractInv, LogInv, TypeInv, TypeOK

(* The transition table, read through the mapping.                          *)
LEMMA LegalMoves ==
  ASSUME ContractInv, NEW t \in Task, NEW to, Moves(t, to),
         Grounds(t, to) \/ to = "running"
  PROVE  /\ to = "queued" =>
              /\ \/ StageOf(status[t]) \in {"accepted", "failed"}
                 \/ Contested(t) /\ StageOf(status[t]) = "held"
              /\ StageOf(to) = "ready"
         /\ to = "waiting_for_approval" =>
              /\ \/ StageOf(status[t]) = "accepted"
                 \/ Contested(t) /\ StageOf(status[t]) = "started"
              /\ StageOf(to) = "held"
         /\ to = "running" => StageOf(status[t]) = "ready" /\ StageOf(to) = "started"
         /\ to \in {"succeeded", "failed"} =>
              StageOf(status[t]) = "started" /\ StageOf(to) = to
         /\ to = "timed_out" =>
              StageOf(status[t]) \in {"ready", "started"} /\ StageOf(to) = to
<1>1. to \in TASK_STATUS_TRANSITIONS[status[t]] /\ status[t] \in TaskStatus
  BY MovesAppend
<1>2. /\ status[t] \notin {"waiting_for_input", "cancelled"}
      /\ status[t] = "waiting_for_approval" => TRUE \in asked[t]
      /\ asked[t] \subseteq BOOLEAN
  BY DEF ContractInv, WaitsForApproval, LogInv, TypeInv, TypeOK
<1>3. FALSE \notin asked[t] => status[t] \in {"absent", "proposed", "waiting_for_approval"}
  BY DEF ContractInv, RunInv, PolicyInv, ApprovalInv, ApprovalBeforeExecution, Unwaived
<1>9. TRUE \in asked[t] /\ FALSE \in asked[t] => Contested(t)
  BY <1>2 DEF Contested
<1>4. ASSUME to = "queued"
      PROVE  \/ status[t] \in {"proposed", "failed"}
             \/ Contested(t) /\ status[t] = "waiting_for_approval"
  BY <1>1, <1>2, <1>4, <1>9 DEF TASK_STATUS_TRANSITIONS, TaskStatus, Grounds
<1>5. ASSUME to = "waiting_for_approval"
      PROVE  status[t] = "proposed" \/ (Contested(t) /\ status[t] = "running")
  BY <1>1, <1>2, <1>3, <1>5, <1>9 DEF TASK_STATUS_TRANSITIONS, TaskStatus, Grounds
<1>6. ASSUME to = "running" PROVE status[t] = "queued"
  BY <1>1, <1>6 DEF TASK_STATUS_TRANSITIONS, TaskStatus
<1>7. ASSUME to \in {"succeeded", "failed"} PROVE status[t] = "running"
  BY <1>1, <1>7 DEF TASK_STATUS_TRANSITIONS, TaskStatus
<1>8. ASSUME to = "timed_out" PROVE status[t] \in {"queued", "running"}
  BY <1>1, <1>8 DEF TASK_STATUS_TRANSITIONS, TaskStatus
<1> QED
  BY <1>4, <1>5, <1>6, <1>7, <1>8 DEF StageOf

LEMMA MappingNamed ==
  /\ StageMap = [t \in Task |-> StageOf(status[t])]
  /\ StartMap = [t \in Task |->
                   Cardinality({e \in events : e.task = t /\ e.to = "running"})]
  /\ RunMap = [t \in Task |-> Len(attempts[t])]
  /\ WaivedMap = {t \in Task : FALSE \in asked[t]}
  /\ TornMap = {t \in Task : Contested(t)}
BY DEF StageMap, StartMap, RunMap, WaivedMap, TornMap, StartsIn

LEMMA ContractInitially == Init => Contract!Init
<1> SUFFICES ASSUME Init PROVE Contract!Init
  OBVIOUS
<1>1. \A t \in Task : {e \in events : e.task = t /\ e.to = "running"} = {}
                     /\ Len(attempts[t]) = 0 /\ StageOf(status[t]) = "none"
                     /\ FALSE \notin asked[t] /\ ~Contested(t)
  BY EmptySeq DEF Init, StageOf, Contested
<1> QED
  BY <1>1, FS_EmptySet DEF Contract!Init

LEMMA ContractStep == ContractInv /\ [Next]_vars => [Contract!Next]_(Contract!vars)
<1> SUFFICES ASSUME ContractInv, [Next]_vars PROVE [Contract!Next]_(Contract!vars)
  OBVIOUS
<1>0. /\ status \in [Task -> RowStatus] /\ attempts \in [Task -> Seq(AttemptStatus)]
      /\ \A t \in Task : Len(attempts[t]) \in Nat
  BY DEF ContractInv, LogInv, TypeInv, TypeOK
<1>1. ASSUME Still PROVE UNCHANGED <<StageMap, StartMap, RunMap>>
  BY <1>1 DEF Still, StageMap, StartMap, RunMap, StartsIn
<1>8. UNCHANGED asked => UNCHANGED <<WaivedMap, TornMap>>
  BY DEF WaivedMap, TornMap, Contested
<1>9. ASSUME Names PROVE Contract!Next
  <2>1. PICK t \in Task, needs \in BOOLEAN : Asks(t, needs)
    BY <1>9 DEF Names
  <2>2. UNCHANGED <<StageMap, StartMap, RunMap>>
    BY <1>1, <1>9 DEF Names
  <2>3. /\ asked \in [Task -> SUBSET BOOLEAN]
        /\ asked' = [asked EXCEPT ![t] = @ \cup {needs}]
    BY <2>1 DEF Asks, ContractInv, LogInv, TypeInv, TypeOK
  <2>4. WaivedMap' \in {WaivedMap, WaivedMap \cup {t}}
    <3>1. \A u \in Task \ {t} : u \in WaivedMap' <=> u \in WaivedMap
      BY <2>3 DEF WaivedMap
    <3>2. t \in WaivedMap => t \in WaivedMap'
      BY <2>3 DEF WaivedMap
    <3> QED
      BY <3>1, <3>2 DEF WaivedMap
  <2>5. TornMap' \in {TornMap, TornMap \cup {t}}
    <3>1. \A u \in Task \ {t} : u \in TornMap' <=> u \in TornMap
      BY <2>3 DEF TornMap, Contested
    <3>2. t \in TornMap => t \in TornMap'
      BY <2>3 DEF TornMap, Contested
    <3> QED
      BY <3>1, <3>2 DEF TornMap
  <2>6. Contract!Name(t)
    BY <2>2, <2>4, <2>5
       DEF Contract!Name, StageMap, StartMap, RunMap, WaivedMap, TornMap, StartsIn
  <2> QED
    BY <2>6 DEF Contract!Next
<1>2. ASSUME NEW t \in Task, insert_task(t), UNCHANGED <<attempts, asked>>
      PROVE  Contract!Accept(t)
  <2>1. version[t] = 0 /\ status[t] = "absent"
    BY <1>2 DEF insert_task, ContractInv, LogInv, RowInv
  <2>2. PICK to : to = "proposed"
    OBVIOUS
  <2>3. to # "running" /\ append_event(t, version[t] + 1, to)
    BY <1>2, <2>1, <2>2 DEF insert_task, append_event
  <2>4. \A u \in Task : StartsIn(events', u) = StartsIn(events, u)
    BY <2>3, OthersDoNotCount
  <2>5. UNCHANGED <<StartMap, RunMap, WaivedMap, TornMap>>
    BY <1>2, <1>8, <2>4 DEF StartMap, RunMap
  <2>6. StageMap' = [StageMap EXCEPT ![t] = "accepted"] /\ StageMap[t] = "none"
    BY <1>2, <2>1, MoveMaps DEF insert_task, StageOf, StageMap
  <2> QED
    BY <2>5, <2>6 DEF Contract!Accept, Contract!Move, Contract!Wait,
                      StageMap, StartMap, RunMap, WaivedMap, TornMap, StartsIn
<1>3. ASSUME NEW t \in Task, NEW to \in TaskStatus, Moves(t, to), Grounds(t, to)
      PROVE  Contract!Next
  <2>1. append_event(t, version[t] + 1, to) /\ to # "running"
    BY <1>3, MovesAppend DEF Grounds
  <2>2. \A u \in Task : StartsIn(events', u) = StartsIn(events, u)
    BY <2>1, AppendCounts
  <2>3. UNCHANGED <<StartMap, RunMap, WaivedMap, TornMap>>
    BY <1>3, <1>8, <2>2 DEF StartMap, RunMap, Moves
  <2>4. /\ StageMap' = [StageMap EXCEPT ![t] = StageOf(to)]
        /\ StageMap[t] = StageOf(status[t])
    BY <1>3, MovesAppend, MoveMaps DEF StageMap
  <2>5. to = "succeeded" => RunMap[t] > 0
    BY <1>3 DEF Grounds, RunMap
  <2>11. /\ Grounds(t, to) => (to = "queued" => t \in WaivedMap)
         /\ Contested(t) => t \in TornMap
    BY <1>3 DEF Grounds, WaivedMap, TornMap
  <2>6. /\ Contract!Wait <=> UNCHANGED <<StartMap, RunMap, WaivedMap, TornMap>>
        /\ \A from, dest : Contract!Move(t, from, dest)
             <=> StageMap[t] = from /\ StageMap' = [StageMap EXCEPT ![t] = dest]
    BY DEF Contract!Wait, Contract!Move, StageMap, StartMap, RunMap, WaivedMap, TornMap,
           StartsIn
  <2>7. CASE to = "queued"
    <3>1. Contract!Release(t)
      <4>1. /\ StageMap[t] \in {"accepted", "failed"} \/ (t \in TornMap /\ StageMap[t] = "held")
            /\ StageOf(to) = "ready" /\ t \in WaivedMap
        BY <1>3, <2>4, <2>7, <2>11, LegalMoves
      <4> QED
        BY <2>3, <2>4, <2>6, <4>1 DEF Contract!Release, WaivedMap, TornMap
    <3> QED
      BY <3>1 DEF Contract!Next
  <2>8. CASE to = "waiting_for_approval"
    <3>1. Contract!Hold(t)
      <4>1. /\ StageMap[t] = "accepted" \/ (t \in TornMap /\ StageMap[t] = "started")
            /\ StageOf(to) = "held"
        BY <1>3, <2>4, <2>8, <2>11, LegalMoves
      <4> QED
        BY <2>3, <2>4, <2>6, <4>1 DEF Contract!Hold, TornMap
    <3> QED
      BY <3>1 DEF Contract!Next
  <2>9. CASE to \in {"succeeded", "failed"}
    <3>1. Contract!Settle(t, to)
      BY <1>3, <2>3, <2>4, <2>5, <2>6, <2>9, LegalMoves DEF Contract!Settle, RunMap
    <3> QED
      BY <2>9, <3>1 DEF Contract!Next, Contract!End
  <2>10. CASE to = "timed_out"
    <3>1. Contract!Expire(t)
      BY <1>3, <2>3, <2>4, <2>6, <2>10, LegalMoves DEF Contract!Expire
    <3> QED
      BY <3>1 DEF Contract!Next, Contract!End
  <2> QED
    BY <1>3, <2>7, <2>8, <2>9, <2>10 DEF Grounds
<1>4. ASSUME NEW w \in Worker, Starts(w) PROVE Contract!Next
  <2>1. PICK t \in Task : t = wtask[w] /\ Moves(t, "running")
    BY <1>4 DEF Starts
  <2>2. PICK to : to = "running"
    OBVIOUS
  <2>3. append_event(t, version[t] + 1, to) /\ UNCHANGED <<attempts, asked>>
    BY <2>1, <2>2, MovesAppend
  <2>4. /\ \A u \in Task : u # t => StartsIn(events', u) = StartsIn(events, u)
        /\ Cardinality(StartsIn(events', t)) = Cardinality(StartsIn(events, t)) + 1
    BY <2>2, <2>3, AppendCounts
  <2>5. StartMap' = [StartMap EXCEPT ![t] = @ + 1] /\ UNCHANGED <<RunMap, WaivedMap, TornMap>>
    BY <1>8, <2>3, <2>4 DEF StartMap, RunMap
  <2>6. StageMap' = [StageMap EXCEPT ![t] = "started"] /\ StageMap[t] = "ready"
    BY <2>1, MovesAppend, MoveMaps, LegalMoves DEF StageMap
  <2>7. Contract!Start(t)
    BY <2>5, <2>6 DEF Contract!Start, Contract!Move, StageMap, StartMap, RunMap,
                      WaivedMap, TornMap, StartsIn
  <2> QED
    BY <2>7 DEF Contract!Next
<1>5. ASSUME NEW w \in Worker, Runs(w) PROVE Contract!Next
  <2>1. PICK t \in Task : t = wtask[w] /\ MayStart(w, t)
    BY <1>5 DEF Runs
  <2>2. t \in TornMap \/ RunMap[t] < StartMap[t]
    BY <2>1 DEF RunMap, StartMap, TornMap, ContractInv, StartedFirst
  <2>3. t \in TornMap \/ StageMap[t] \in {"started", "timed_out"}
    BY <1>5, <2>1 DEF Runs, StageMap, StageOf, TornMap
  <2>4. Len(Append(attempts[t], "running")) = Len(attempts[t]) + 1
    BY <1>0, AppendProperties DEF AttemptStatus
  <2>5. /\ RunMap' = [RunMap EXCEPT ![t] = @ + 1]
        /\ UNCHANGED <<StageMap, StartMap, WaivedMap, TornMap>>
    BY <1>0, <1>5, <1>8, <2>1, <2>4 DEF Runs, RunMap, StageMap, StartMap
  <2>6. Contract!RunHandler(t)
    BY <2>2, <2>3, <2>5
       DEF Contract!RunHandler, StageMap, StartMap, RunMap, WaivedMap, TornMap, StartsIn
  <2> QED
    BY <2>6 DEF Contract!Next
<1>6. UNCHANGED <<StageMap, StartMap, RunMap, WaivedMap, TornMap>> => UNCHANGED Contract!vars
  BY DEF Contract!vars, StageMap, StartMap, RunMap, WaivedMap, TornMap, StartsIn
<1>10. Quiet => UNCHANGED Contract!vars
  BY <1>1, <1>6, <1>8 DEF Quiet
<1>7. \A t \in Task : Contract!Accept(t) => Contract!Next
  BY DEF Contract!Next
<1> QED
  BY <1>2, <1>3, <1>4, <1>5, <1>7, <1>9, <1>10, StepKinds DEF Kinds, ContractInv

(* The task runtime, with every client, queue, retry and fault it has, does *)
(* what the task contract says.                                             *)
THEOREM ContractImplemented == Spec => ImplementsContract
<1> QED
  BY ContractInvInit, ContractInvNext, ContractInitially, ContractStep, PTL
     DEF Spec, ImplementsContract, Contract!Spec
=============================================================================

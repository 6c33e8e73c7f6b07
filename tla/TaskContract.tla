---------------------------- MODULE TaskContract ----------------------------
(***************************************************************************)
(* What the specialist runtime promises about a task, with no clients,     *)
(* queues, workers or retries: it is accepted once, released only when a   *)
(* request needed no person to approve it, its handler runs at most once   *)
(* per start, a success was preceded by a run, and only a failed task can  *)
(* be reopened.  A run may outlive the verdict only when that is a timeout.*)
(* Of a task whose requests disagree about the approval it promises less:  *)
(* it may be held when it has started and released when it is held, and    *)
(* its runs are not counted.                                               *)
(***************************************************************************)
EXTENDS Naturals

CONSTANT Task

VARIABLES
  stage, starts, runs,
  waived,   \* tasks that a request named that needed no approval
  torn      \* ... and of these the ones that another named that did

vars == <<stage, starts, runs, waived, torn>>

Init ==
  /\ stage = [t \in Task |-> "none"]
  /\ starts = [t \in Task |-> 0]
  /\ runs = [t \in Task |-> 0]
  /\ waived = {}
  /\ torn = {}

Move(t, from, to) ==
  /\ stage[t] = from
  /\ stage' = [stage EXCEPT ![t] = to]

Wait == UNCHANGED <<starts, runs, waived, torn>>

(* A request names the task: what it says of the approval is not unsaid.    *)
Name(t) ==
  /\ waived' \in {waived, waived \cup {t}}
  /\ torn' \in {torn, torn \cup {t}}
  /\ UNCHANGED <<stage, starts, runs>>

Accept(t) == Move(t, "none", "accepted") /\ Wait

Hold(t) ==
  /\ \/ Move(t, "accepted", "held")
     \/ t \in torn /\ Move(t, "started", "held")
  /\ Wait

Release(t) ==
  /\ t \in waived
  /\ \/ Move(t, "accepted", "ready")
     \/ Move(t, "failed", "ready")
     \/ t \in torn /\ Move(t, "held", "ready")
  /\ Wait

Start(t) ==
  /\ Move(t, "ready", "started")
  /\ starts' = [starts EXCEPT ![t] = @ + 1]
  /\ UNCHANGED <<runs, waived, torn>>

RunHandler(t) ==
  /\ \/ stage[t] \in {"started", "timed_out"} /\ runs[t] < starts[t]
     \/ t \in torn
  /\ runs' = [runs EXCEPT ![t] = @ + 1]
  /\ UNCHANGED <<stage, starts, waived, torn>>

Settle(t, verdict) ==
  /\ verdict = "succeeded" => runs[t] > 0
  /\ Move(t, "started", verdict)
  /\ Wait

Expire(t) ==
  /\ Move(t, "ready", "timed_out") \/ Move(t, "started", "timed_out")
  /\ Wait

End(t) == Settle(t, "succeeded") \/ Settle(t, "failed") \/ Expire(t)

Next ==
  \E t \in Task :
     \/ Name(t) \/ Accept(t) \/ Hold(t) \/ Release(t)
     \/ Start(t) \/ RunHandler(t) \/ End(t)

Spec == Init /\ [][Next]_vars

(* Once released, a task is started and settled.                            *)
FairSpec == Spec /\ \A t \in Task : WF_vars(Start(t)) /\ WF_vars(End(t))
=============================================================================

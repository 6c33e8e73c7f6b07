--------------------------- MODULE InferenceAudit ---------------------------
(***************************************************************************)
(* The daily inference budget of a tenant (inference_audit.py record,      *)
(* around every provider call of llm_qa.py): a call reserves its units in  *)
(* a transaction under an advisory lock before the provider is asked, and  *)
(* the row keeps the reservation whatever becomes of the call.  The audit  *)
(* is required: without it, and without a database, calls are not counted. *)
(***************************************************************************)
EXTENDS Integers, FiniteSets, FiniteSetsExt

CONSTANTS
  Call,           \* provider calls, each made once
  Units,          \* sizes of a call: prompt characters and reserved output
  Quota,          \* STRATEGYOS_INFERENCE_DAILY_UNITS
  RequestLimit,   \* STRATEGYOS_INFERENCE_DAILY_REQUESTS
  LastDay         \* bound: days, in UTC

ASSUME AuditAssumption ==
  /\ Units \subseteq Nat
  /\ Quota \in Nat \ {0}
  /\ RequestLimit \in Nat \ {0}
  /\ LastDay \in Nat

Status == {"started", "budget_blocked", "completed", "failed"}

VARIABLES
  day,        \* the day of now() for a transaction that begins
  auditRow,   \* rows of strategyos_inference_audit, by call
  call        \* per call: where record() is with it

auditVars == <<day, auditRow, call>>

NoRow == [status |-> "none"]
AuditRow == {NoRow} \cup [status : Status, day : 0..LastDay, units : Units \cup {0}]

(* "counted": the select has found room, or not, under the lock.            *)
CallRecord ==
  [pc : {"new", "done"}]
    \cup [pc : {"begun", "calling"}, units : Units, day : 0..LastDay]
    \cup [pc : {"counted"}, units : Units, day : 0..LastDay, allowed : BOOLEAN]

AuditTypeOK ==
  /\ day \in 0..LastDay
  /\ auditRow \in [Call -> AuditRow]
  /\ call \in [Call -> CallRecord]

AuditInit ==
  /\ day = 0
  /\ auditRow = [c \in Call |-> NoRow]
  /\ call = [c \in Call |-> [pc |-> "new"]]

----------------------------------------------------------------------------
Midnight ==
  /\ day < LastDay
  /\ day' = day + 1
  /\ UNCHANGED <<auditRow, call>>

(* now() is fixed here, before the locks are waited for.                    *)
BeginReservation(c, u) ==
  /\ call[c].pc = "new"
  /\ call' = [call EXCEPT ![c] = [pc |-> "begun", units |-> u, day |-> day]]
  /\ UNCHANGED <<day, auditRow>>

(* The rows counted: from the first moment of the day on, with no end, the  *)
(* blocked ones too.                                                        *)
Since(d) == {c \in Call : auditRow[c] # NoRow /\ auditRow[c].day >= d}
UnitsOf(S) == MapThenSumSet(LAMBDA c : auditRow[c].units, S)

Room(c) ==
  /\ Cardinality(Since(call[c].day)) < RequestLimit
  /\ UnitsOf(Since(call[c].day)) + call[c].units <= Quota

(* The count without the advisory lock.                                     *)
CountUsed_UNLOCKED(c) ==
  /\ call[c].pc = "begun"
  /\ call' = [call EXCEPT ![c] = [pc |-> "counted", units |-> call[c].units,
                                  day |-> call[c].day, allowed |-> Room(c)]]
  /\ UNCHANGED <<day, auditRow>>

CountUsed(c) ==
  /\ call[c].pc = "begun"
  /\ \A b \in Call : call[b].pc # "counted"
  /\ call' = [call EXCEPT ![c] = [pc |-> "counted", units |-> call[c].units,
                                  day |-> call[c].day, allowed |-> Room(c)]]
  /\ UNCHANGED <<day, auditRow>>

(* The insert and the commit: the lock is free again and, with room, the    *)
(* provider may be called.                                                  *)
InsertRow(c) ==
  LET q == call[c] IN
  /\ q.pc = "counted"
  /\ auditRow' = [auditRow EXCEPT ![c] =
       [status |-> IF q.allowed THEN "started" ELSE "budget_blocked",
        day |-> q.day, units |-> IF q.allowed THEN q.units ELSE 0]]
  /\ call' = [call EXCEPT ![c] =
       IF q.allowed THEN [pc |-> "calling", units |-> q.units, day |-> q.day]
                    ELSE [pc |-> "done"]]
  /\ UNCHANGED day

FinishRow(c, s) ==
  /\ call[c].pc = "calling"
  /\ auditRow' = [auditRow EXCEPT ![c].status = s]
  /\ call' = [call EXCEPT ![c] = [pc |-> "done"]]
  /\ UNCHANGED day

(* The process, or its connection, dies: an open transaction is rolled back *)
(* and a committed row stays "started".                                     *)
LoseCall(c) ==
  /\ call[c].pc \in {"begun", "counted", "calling"}
  /\ call' = [call EXCEPT ![c] = [pc |-> "done"]]
  /\ UNCHANGED <<day, auditRow>>

AuditNext ==
  \/ Midnight
  \/ \E c \in Call :
       \/ \E u \in Units : BeginReservation(c, u)
       \/ CountUsed(c) \/ InsertRow(c) \/ LoseCall(c)
       \/ \E s \in {"completed", "failed"} : FinishRow(c, s)

AuditSpec == AuditInit /\ [][AuditNext]_auditVars

----------------------------------------------------------------------------
(* The calls that reached the provider on a day, by the rows they left.     *)
Allowed(d) == {c \in Call : /\ auditRow[c] # NoRow
                            /\ auditRow[c].day = d
                            /\ auditRow[c].status # "budget_blocked"}

(* No interleaving of reservations, no crash, no failed call and no         *)
(* transaction that waits for the lock past midnight lets a tenant spend    *)
(* more than its quota, or make more calls than its limit, in one day.      *)
BudgetHeld ==
  \A d \in 0..LastDay : /\ Cardinality(Allowed(d)) <= RequestLimit
                        /\ UnitsOf(Allowed(d)) <= Quota

=============================================================================

------------------------- MODULE ExecutiveDecisions -------------------------
(***************************************************************************)
(* Executive decisions kept as events of a run (state_store.py             *)
(* record_executive_decision): requests with an Idempotency-Key, retried   *)
(* and concurrent, each a transaction under the advisory lock of its       *)
(* effect key, in a table that has no unique constraint on it.             *)
(***************************************************************************)
EXTENDS Integers, FiniteSets

CONSTANTS
  Requester,        \* transactions in flight
  DecisionKey,
  IdempotencyKey,
  Content,          \* owner, due date and recommendation of a decision
  MaxEventId        \* bound: events

ASSUME ExecutiveAssumption == MaxEventId \in Nat \ {0}

(* The effect key hashes tenant, run, decision and idempotency key.         *)
EffectKeys == DecisionKey \X IdempotencyKey

DecisionEvent == [id : 1..MaxEventId, key : EffectKeys, content : Content]

VARIABLES
  decisionEvents,   \* rows with action 'record_executive_decision'
  request,          \* per requester: its transaction
  answered          \* answers: [key, event, replay]

executiveVars == <<decisionEvents, request, answered>>

NoTransaction == [pc |-> "idle"]
RequestRecord ==
  {NoTransaction}
    \cup [pc : {"begun", "locked", "absent"}, key : EffectKeys,
          content : Content]

ExecutiveTypeOK ==
  /\ decisionEvents \subseteq DecisionEvent
  /\ request \in [Requester -> RequestRecord]
  /\ answered \subseteq [key : EffectKeys, event : 1..MaxEventId, replay : BOOLEAN]

ExecutiveInit ==
  /\ decisionEvents = {}
  /\ request = [q \in Requester |-> NoTransaction]
  /\ answered = {}

----------------------------------------------------------------------------
EventsOf(k) == {e \in decisionEvents : e.key = k}

(* confirm_executive_decision has matched owner, role and date with the     *)
(* recommendation; ensure_data_schema begins the transaction.               *)
BeginDecision(q, k, v) ==
  /\ request[q] = NoTransaction
  /\ request' = [request EXCEPT ![q] = [pc |-> "begun", key |-> k, content |-> v]]
  /\ UNCHANGED <<decisionEvents, answered>>

(* Nobody waits.                                                            *)
LockEffectKey_FREE(q) ==
  /\ request[q].pc = "begun"
  /\ request' = [request EXCEPT ![q].pc = "locked"]
  /\ UNCHANGED <<decisionEvents, answered>>

LockEffectKey(q) ==
  /\ request[q].pc = "begun"
  /\ \A p \in Requester : request[p].pc \in {"locked", "absent"} =>
                            request[p].key # request[q].key
  /\ request' = [request EXCEPT ![q].pc = "locked"]
  /\ UNCHANGED <<decisionEvents, answered>>

(* The select by effect key: an event that exists is the answer.            *)
SelectExisting(q) ==
  LET r == request[q] IN
  /\ r.pc = "locked"
  /\ IF EventsOf(r.key) = {}
     THEN /\ request' = [request EXCEPT ![q].pc = "absent"]
          /\ UNCHANGED answered
     ELSE /\ \E e \in EventsOf(r.key) :
               answered' = answered \cup
                             {[key |-> r.key, event |-> e.id, replay |-> TRUE]}
          /\ request' = [request EXCEPT ![q] = NoTransaction]
  /\ UNCHANGED decisionEvents

(* The insert and the commit; the answer may be lost.                       *)
InsertDecision(q) ==
  LET r == request[q]  id == Cardinality(decisionEvents) + 1 IN
  /\ r.pc = "absent"
  /\ id <= MaxEventId
  /\ decisionEvents' = decisionEvents \cup
       {[id |-> id, key |-> r.key, content |-> r.content]}
  /\ \/ UNCHANGED answered
     \/ answered' = answered \cup {[key |-> r.key, event |-> id, replay |-> FALSE]}
  /\ request' = [request EXCEPT ![q] = NoTransaction]

AbortDecision(q) ==
  /\ request[q] # NoTransaction
  /\ request' = [request EXCEPT ![q] = NoTransaction]
  /\ UNCHANGED <<decisionEvents, answered>>

ExecutiveNext ==
  \E q \in Requester :
    \/ \E k \in EffectKeys, v \in Content : BeginDecision(q, k, v)
    \/ LockEffectKey(q) \/ SelectExisting(q) \/ InsertDecision(q)
    \/ AbortDecision(q)

ExecutiveSpec == ExecutiveInit /\ [][ExecutiveNext]_executiveVars

----------------------------------------------------------------------------
(* However often and concurrently a request is retried, one event stands    *)
(* for its key and everyone who was answered was answered with that event.  *)
OneEventPerKey ==
  /\ \A k \in EffectKeys : Cardinality(EventsOf(k)) <= 1
  /\ \A a \in answered : \E e \in EventsOf(a.key) : e.id = a.event

=============================================================================

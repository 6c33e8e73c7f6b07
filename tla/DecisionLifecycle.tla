-------------------------- MODULE DecisionLifecycle --------------------------
(***************************************************************************)
(* The events of one decision of one run (decision_lifecycle.py): surfaced *)
(* when an executive's page observes it, decided by a choice, and          *)
(* action_verified by a reviewer.  Every append is a transaction under the *)
(* decision's advisory lock; its stamp is now(), the moment the            *)
(* transaction began, which may be long before it had the lock.            *)
(***************************************************************************)
EXTENDS Integers, Sequences, SequencesExt, FiniteSets

CONSTANTS
  Caller,          \* requests that append, each tried again at will
  Choice,          \* the choices the decision offers
  Approve,         \* "Approve"
  Evidence,        \* digests of artifacts of the approved run
  EffectKey,       \* retry keys clients make up
  Observation,     \* effect_key of observe, "first-observation"
  FirstAction,     \* effect_key of verify, "verified-first-action"
  Title,           \* the title of the decision in this run
  MaxClock         \* bound: database time

ASSUME DecisionAssumption ==
  /\ Approve \in Choice
  /\ Observation # FirstAction
  /\ MaxClock \in Nat

Kind == {"surfaced", "decided", "action_verified"}
Payload == Choice \cup Evidence \cup {Title}
Key == EffectKey \cup {Observation, FirstAction}
Time == 0..MaxClock

(* What the three routes pass to append.                                    *)
Event ==      {[kind |-> "surfaced", payload |-> Title, key |-> Observation]}
         \cup [kind : {"decided"}, payload : Choice, key : Key]
         \cup [kind : {"action_verified"}, payload : Evidence, key : {FirstAction}]

VARIABLES
  decisionLog,    \* strategyos_decision_events, by id: [event, at]
  append,         \* per caller: its transaction
  told,           \* answers: [event, replay]
  clock

decisionVars == <<decisionLog, append, told, clock>>

Idle == [pc |-> "idle"]

Transaction ==
  {Idle} \cup [pc : {"begun", "locked"}, event : Event, at : Time]

DecisionTypeOK ==
  /\ decisionLog \in Seq([event : Event, at : Time])
  /\ append \in [Caller -> Transaction]
  /\ told \subseteq [event : Event, replay : BOOLEAN]
  /\ clock \in Time

DecisionInit ==
  /\ decisionLog = <<>>
  /\ append = [c \in Caller |-> Idle]
  /\ told = {}
  /\ clock = 0

----------------------------------------------------------------------------
Recorded(k) == \E i \in 1..Len(decisionLog) : decisionLog[i].event.kind = k

Holds(k, p) == \E i \in 1..Len(decisionLog) :
                 /\ decisionLog[i].event.kind = k
                 /\ decisionLog[i].event.payload = p

KeyUsed(e) == \E i \in 1..Len(decisionLog) : decisionLog[i].event.key = e

PassTime ==
  /\ clock < MaxClock
  /\ clock' = clock + 1
  /\ UNCHANGED <<decisionLog, append, told>>

(* The schema statement begins the transaction.                             *)
BeginAppend(c, e) ==
  /\ append[c] = Idle
  /\ append' = [append EXCEPT ![c] = [pc |-> "begun", event |-> e, at |-> clock]]
  /\ UNCHANGED <<decisionLog, told, clock>>

LockDecision(c) ==
  /\ append[c].pc = "begun"
  /\ \A b \in Caller : append[b].pc # "locked"
  /\ append' = [append EXCEPT ![c].pc = "locked"]
  /\ UNCHANGED <<decisionLog, told, clock>>

(* A recorded kind is answered as a replay whatever the payload.            *)
Replay_ANYTHING(c) ==
  /\ append[c].pc = "locked"
  /\ Recorded(append[c].event.kind)
  /\ told' = told \cup {[event |-> append[c].event, replay |-> TRUE]}
  /\ append' = [append EXCEPT ![c] = Idle]
  /\ UNCHANGED <<decisionLog, clock>>

Replay(c) ==
  /\ append[c].pc = "locked"
  /\ Holds(append[c].event.kind, append[c].event.payload)
  /\ told' = told \cup {[event |-> append[c].event, replay |-> TRUE]}
  /\ append' = [append EXCEPT ![c] = Idle]
  /\ UNCHANGED <<decisionLog, clock>>

(* Any decision is good enough for an action.                               *)
InOrder_DECIDED(e) ==
  /\ e.kind = "decided" => Recorded("surfaced")
  /\ e.kind = "action_verified" => Recorded("decided")

InOrder(e) ==
  /\ e.kind = "decided" => Recorded("surfaced")
  /\ e.kind = "action_verified" => Holds("decided", Approve)

(* The unique constraints: a client's retry key may be one of the server's. *)
Insert(c) ==
  LET e == append[c].event IN
  /\ append[c].pc = "locked"
  /\ ~Recorded(e.kind)
  /\ InOrder(e)
  /\ ~KeyUsed(e.key)
  /\ decisionLog' = Append(decisionLog, [event |-> e, at |-> append[c].at])
  /\ told' = told \cup {[event |-> e, replay |-> FALSE]}
  /\ append' = [append EXCEPT ![c] = Idle]
  /\ UNCHANGED clock

(* A ValueError, a violated constraint, or a connection that breaks.        *)
Refuse(c) ==
  /\ append[c] # Idle
  /\ append' = [append EXCEPT ![c] = Idle]
  /\ UNCHANGED <<decisionLog, told, clock>>

DecisionNext ==
  \/ PassTime
  \/ \E c \in Caller :
       \/ \E e \in Event : BeginAppend(c, e)
       \/ LockDecision(c) \/ Replay(c) \/ Insert(c) \/ Refuse(c)

DecisionSpec == DecisionInit /\ [][DecisionNext]_decisionVars

----------------------------------------------------------------------------
(* No kind twice, a decision only after its observation, and an action only *)
(* after a recorded approval, in the order of the ids, however the requests *)
(* and their retries interleave.                                            *)
OncePerKindInOrder ==
  \A i \in 1..Len(decisionLog) :
    LET e == decisionLog[i].event
        before(k) == {j \in 1..(i - 1) : decisionLog[j].event.kind = k}
    IN  /\ before(e.kind) = {}
        /\ e.kind = "decided" => before("surfaced") # {}
        /\ e.kind = "action_verified" =>
             \E j \in before("decided") : decisionLog[j].event.payload = Approve

(* Whoever was told "recorded", first or as a replay, finds exactly that    *)
(* payload in the log: no caller believes in a choice that another caller's *)
(* choice displaced.                                                        *)
ToldWhatIsRecorded ==
  \A a \in told : Holds(a.event.kind, a.event.payload)

(* decision_velocity.py times decisions by the events' stamps, as if they   *)
(* followed the order in which the events were recorded.                    *)
StampsFollowRecord ==
  \A i, j \in 1..Len(decisionLog) :
    i < j => decisionLog[i].at <= decisionLog[j].at

=============================================================================

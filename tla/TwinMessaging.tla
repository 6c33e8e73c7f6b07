---------------------------- MODULE TwinMessaging ----------------------------
(***************************************************************************)
(* Requests between digital twins (twins/runtime.py): a twin that misses a *)
(* KPI value asks its owner, the owner answers, a request that waits too   *)
(* long is escalated.  Inboxes and request records are files; every        *)
(* operation on a file is atomic, and a cycle of a twin is many of them.   *)
(* Cycles are run by jobs: the API and the workers, each a process with a  *)
(* counter of its own for request ids, which may crash at any step.        *)
(* run_once and act swallow exceptions, and with the provider enabled its  *)
(* list stands in for what the twin made out of its inbox (reasoning.py).  *)
(***************************************************************************)
EXTENDS Integers, Sequences, SequencesExt, FiniteSets

CONSTANTS
  Twin,           \* twins
  Human,          \* the inbox nobody consumes
  Kpi,            \* KPIs with a gap
  OwnerOf,        \* the role that owns a KPI
  PathOf,         \* escalation_path[0] of a role
  Job,            \* processes that run cycles
  MaxCounter,     \* bound: requests of one process between two restarts
  MaxChain,       \* bound: answers and escalations of one request
  MaxCycles,      \* bound: cycles started
  MaxFaults       \* bound: restarts, exceptions and lists replaced by the model

ASSUME TwinAssumption ==
  /\ Human \notin Twin
  /\ OwnerOf \in [Kpi -> Twin]
  /\ PathOf \in [Twin -> Twin \cup {Human}]
  /\ MaxCounter \in Nat /\ MaxChain \in Nat /\ MaxCycles \in Nat /\ MaxFaults \in Nat

(* Ids: req-<kpi>-<n>, and esc-<id>-.. and resp-<id> made from others.       *)
Id == [kpi : Kpi, n : 1..MaxCounter, chain : SeqOf({"esc", "resp"}, MaxChain)]
Envelope == [id : Id, from : Twin, to : Twin \cup {Human}]

Extend(id, w) == [id EXCEPT !.chain = Append(@, w)]
Parent(id) == [id EXCEPT !.chain = Front(@)]
IsRequest(id) == id.chain = <<>>
IsResponse(id) == id.chain # <<>> /\ Last(id.chain) = "resp"

VARIABLES
  inbox,      \* inbox/messages.json, per role
  requests,   \* requests/<role>.json: the status per id
  cycle,      \* per job: the cycle it runs
  counter,    \* per job: _message_counter
  cycles,     \* cycles started
  faults,     \* restarts, exceptions and lists replaced
  issued,     \* history: ids given to requests
  disturbed   \* history: ids reused, or touched by a crash, an exception, an
              \* overwrite, haste, or the model's list

twinVars ==
  <<inbox, requests, cycle, counter, cycles, faults, issued, disturbed>>

Resting == [pc |-> "idle"]

CycleRecord ==
  {Resting}
    \cup [pc : {"scan"}, role : Twin, loaded : SUBSET Envelope,
          keep : SUBSET Envelope, out : SUBSET Envelope]
    \cup [pc : {"consume", "act"}, role : Twin, out : SUBSET Envelope]
    \cup [pc : {"observe"}, role : Twin, got : SUBSET Envelope, out : SUBSET Envelope]
    \cup [pc : {"record"}, role : Twin, id : Id, out : SUBSET Envelope]

Statuses == {"none", "pending", "acknowledged", "fulfilled", "expired"}

TwinTypeOK ==
  /\ DOMAIN inbox = Twin \cup {Human}
  /\ \A r \in Twin \cup {Human} : inbox[r] \subseteq Envelope
  /\ requests \in [Twin -> [Id -> Statuses]]
  /\ \A j \in Job : cycle[j].pc # "idle" => cycle[j].role \in Twin
                                         /\ cycle[j].out \subseteq Envelope
  /\ counter \in [Job -> 0..MaxCounter]
  /\ cycles \in 0..MaxCycles
  /\ faults \in 0..MaxFaults
  /\ issued \subseteq Id
  /\ disturbed \subseteq Id

TwinInit ==
  /\ inbox = [r \in Twin \cup {Human} |-> {}]
  /\ requests = [r \in Twin |-> [i \in Id |-> "none"]]
  /\ cycle = [j \in Job |-> Resting]
  /\ counter = [j \in Job |-> 0]
  /\ cycles = 0
  /\ faults = 0
  /\ issued = {}
  /\ disturbed = {}

(* A message and the request it may answer.                                 *)
Traces(m) == {m.id} \cup (IF m.id.chain # <<>> THEN {Parent(m.id)} ELSE {})

----------------------------------------------------------------------------
(* process_escalations: the inbox is loaded, and later saved as a whole.    *)

BeginCycle(j, r) ==
  /\ cycle[j] = Resting
  /\ cycles < MaxCycles
  /\ cycles' = cycles + 1
  /\ cycle' = [cycle EXCEPT ![j] = [pc |-> "scan", role |-> r, loaded |-> inbox[r],
                                    keep |-> inbox[r], out |-> {}]]
  /\ UNCHANGED <<inbox, requests, counter, faults, disturbed, issued>>

(* A response is never "pending"; any other message may be too old.         *)
ExpireMessage(j, m) ==
  LET c == cycle[j]  to == PathOf[m.from] IN
  /\ c.pc = "scan"
  /\ m \in c.keep
  /\ ~IsResponse(m.id)
  /\ Len(m.id.chain) < MaxChain
  /\ cycle' = [cycle EXCEPT ![j].keep = @ \ {m},
                 ![j].out = @ \cup {[id |-> Extend(m.id, "esc"), from |-> m.from, to |-> to]}]
  /\ requests' = IF requests[m.from][m.id] = "none" THEN requests
                 ELSE [requests EXCEPT ![m.from][m.id] = "expired"]
  /\ disturbed' = IF requests[m.from][m.id] = "none" THEN disturbed \cup {m.id}
                  ELSE disturbed
  /\ UNCHANGED <<inbox, counter, cycles, faults, issued>>

SaveScanned(j) ==
  LET c == cycle[j] IN
  /\ c.pc = "scan"
  /\ inbox' = [inbox EXCEPT ![c.role] = c.keep]
  /\ disturbed' = disturbed \cup UNION {Traces(m) : m \in inbox[c.role] \ c.loaded}
  /\ cycle' = [cycle EXCEPT ![j] = [pc |-> "consume", role |-> c.role, out |-> c.out]]
  /\ UNCHANGED <<requests, counter, cycles, faults, issued>>

----------------------------------------------------------------------------
(* observe: the inbox is emptied; a response to a request on record settles *)
(* it, and every other message, a response too, is to be answered.          *)

(* Only the oldest message is taken on.                                     *)
Consume_FIRST(j) ==
  LET c == cycle[j] IN
  /\ c.pc = "consume"
  /\ inbox' = [inbox EXCEPT ![c.role] = {}]
  /\ \E got \in {{}} \cup {{m} : m \in inbox[c.role]} :
       cycle' = [cycle EXCEPT ![j] = [pc |-> "observe", role |-> c.role,
                                      got |-> got, out |-> c.out]]
  /\ UNCHANGED <<requests, counter, cycles, faults, disturbed, issued>>

Consume(j) ==
  LET c == cycle[j] IN
  /\ c.pc = "consume"
  /\ inbox' = [inbox EXCEPT ![c.role] = {}]
  /\ cycle' = [cycle EXCEPT ![j] = [pc |-> "observe", role |-> c.role,
                                    got |-> inbox[c.role], out |-> c.out]]
  /\ UNCHANGED <<requests, counter, cycles, faults, disturbed, issued>>

(* What the response to a message settles its request with.                 *)
Outcome(id) == IF IsRequest(id) THEN "fulfilled" ELSE "acknowledged"

Reconcilable(r, m) ==
  IsResponse(m.id) /\ requests[r][Parent(m.id)] # "none"

Reconcile(j, m) ==
  LET c == cycle[j] IN
  /\ c.pc = "observe"
  /\ m \in c.got
  /\ Reconcilable(c.role, m)
  /\ requests' = [requests EXCEPT ![c.role][Parent(m.id)] = Outcome(Parent(m.id))]
  /\ cycle' = [cycle EXCEPT ![j].got = @ \ {m}]
  /\ UNCHANGED <<inbox, counter, cycles, faults, disturbed, issued>>

AnswerTo(j, m, to) ==
  LET c == cycle[j] IN
  /\ c.pc = "observe"
  /\ m \in c.got
  /\ ~Reconcilable(c.role, m)
  /\ Len(m.id.chain) < MaxChain
  /\ cycle' = [cycle EXCEPT ![j].got = @ \ {m},
                 ![j].out = @ \cup {[id |-> Extend(m.id, "resp"), from |-> c.role, to |-> to]}]
  /\ UNCHANGED <<inbox, requests, counter, cycles, issued>>

DecideToRespond(j, m) ==
  /\ AnswerTo(j, m, m.from)
  /\ disturbed' = IF IsResponse(m.id) THEN disturbed \cup {Parent(m.id)} ELSE disturbed
  /\ UNCHANGED faults

(* The model's list names another sender for the message.                   *)
Misaddress(j, m, to) ==
  /\ faults < MaxFaults
  /\ to \notin {cycle[j].role, m.from}
  /\ AnswerTo(j, m, to)
  /\ faults' = faults + 1
  /\ disturbed' = disturbed \cup Traces(m)

(* The model's list leaves the message out, gives it an action that is only *)
(* reviewed, or answers it to the twin itself or to nobody who reads.       *)
LetGo(j, m) ==
  LET c == cycle[j] IN
  /\ faults < MaxFaults
  /\ c.pc = "observe"
  /\ m \in c.got
  /\ ~Reconcilable(c.role, m)
  /\ faults' = faults + 1
  /\ cycle' = [cycle EXCEPT ![j].got = @ \ {m}]
  /\ disturbed' = disturbed \cup Traces(m)
  /\ UNCHANGED <<inbox, requests, counter, cycles, issued>>

(* orient and decide: a gap of a KPI becomes a request to its owner, unless *)
(* that is the twin itself, whose message would not be valid.               *)
DecideToAsk(j, k) ==
  LET c == cycle[j]
      id == [kpi |-> k, n |-> counter[j] + 1, chain |-> <<>>] IN
  /\ c.pc = "observe"
  /\ c.got = {}
  /\ OwnerOf[k] # c.role
  /\ counter[j] < MaxCounter
  /\ counter' = [counter EXCEPT ![j] = @ + 1]
  /\ cycle' = [cycle EXCEPT ![j] =
       [pc |-> "act", role |-> c.role,
        out |-> c.out \cup {[id |-> id, from |-> c.role, to |-> OwnerOf[k]]}]]
  /\ issued' = issued \cup {id}
  /\ disturbed' = disturbed \cup ({id} \cap issued)
  /\ UNCHANGED <<inbox, requests, cycles, faults>>

(* A request has been made, and the model's list has another action for it. *)
AskReplaced(j) ==
  LET c == cycle[j] IN
  /\ faults < MaxFaults
  /\ c.pc = "observe"
  /\ c.got = {}
  /\ \E k \in Kpi : OwnerOf[k] # c.role
  /\ counter[j] < MaxCounter
  /\ faults' = faults + 1
  /\ counter' = [counter EXCEPT ![j] = @ + 1]
  /\ cycle' = [cycle EXCEPT ![j] = [pc |-> "act", role |-> c.role, out |-> c.out]]
  /\ UNCHANGED <<inbox, requests, cycles, disturbed, issued>>

DecideNoMore(j) ==
  LET c == cycle[j] IN
  /\ c.pc = "observe"
  /\ c.got = {}
  /\ cycle' = [cycle EXCEPT ![j] = [pc |-> "act", role |-> c.role, out |-> c.out]]
  /\ UNCHANGED <<inbox, requests, counter, cycles, faults, disturbed, issued>>

----------------------------------------------------------------------------
(* act: each message is put into its inbox, over one with the same id, and  *)
(* a request or an escalation recorded afterwards, by whoever sent it.      *)

SendMessage(j, m) ==
  LET c == cycle[j] IN
  /\ c.pc = "act"
  /\ m \in c.out
  /\ inbox' = IF m.from = m.to THEN inbox
              ELSE [inbox EXCEPT ![m.to] = {x \in @ : x.id # m.id} \cup {m}]
  /\ cycle' = [cycle EXCEPT ![j] =
       IF m.from = m.to \/ IsResponse(m.id)
       THEN [c EXCEPT !.out = @ \ {m}]
       ELSE [pc |-> "record", role |-> c.role, id |-> m.id, out |-> c.out \ {m}]]
  /\ UNCHANGED <<requests, counter, cycles, faults, disturbed, issued>>

_record_pending_request(j) ==
  LET c == cycle[j] IN
  /\ c.pc = "record"
  /\ requests' = [requests EXCEPT ![c.role][c.id] = "pending"]
  /\ cycle' = [cycle EXCEPT ![j] = [pc |-> "act", role |-> c.role, out |-> c.out]]
  /\ UNCHANGED <<inbox, counter, cycles, faults, disturbed, issued>>

(* act goes on with the next decision after an exception: the message was   *)
(* not sent, or was sent and is not put on record.                          *)
SendRaises(j, m) ==
  LET c == cycle[j] IN
  /\ faults < MaxFaults
  /\ c.pc = "act"
  /\ m \in c.out
  /\ faults' = faults + 1
  /\ cycle' = [cycle EXCEPT ![j].out = @ \ {m}]
  /\ disturbed' = IF IsResponse(m.id) THEN disturbed \cup {Parent(m.id)} ELSE disturbed
  /\ UNCHANGED <<inbox, requests, counter, cycles, issued>>

GoesUnrecorded(j) ==
  LET c == cycle[j] IN
  /\ faults < MaxFaults
  /\ c.pc = "record"
  /\ faults' = faults + 1
  /\ cycle' = [cycle EXCEPT ![j] = [pc |-> "act", role |-> c.role, out |-> c.out]]
  /\ UNCHANGED <<inbox, requests, counter, cycles, disturbed, issued>>

EndCycle(j) ==
  /\ cycle[j].pc = "act"
  /\ cycle[j].out = {}
  /\ cycle' = [cycle EXCEPT ![j] = Resting]
  /\ UNCHANGED <<inbox, requests, counter, cycles, faults, disturbed, issued>>

(* What a cycle holds in memory only.                                       *)
InHand(c) ==
  CASE c.pc = "idle" -> {}
    [] c.pc = "observe" -> c.got \cup c.out
    [] OTHER -> c.out

(* What the job had in hand goes with its cycle.                            *)
CycleLost(j) ==
  /\ faults < MaxFaults
  /\ faults' = faults + 1
  /\ cycle' = [cycle EXCEPT ![j] = Resting]
  /\ disturbed' = disturbed \cup UNION {Traces(m) : m \in InHand(cycle[j])}
  /\ UNCHANGED <<inbox, requests, cycles, issued>>

(* run_once swallows what was raised before act, and the twin sleeps.       *)
CycleRaises(j) ==
  /\ cycle[j].pc \in {"scan", "consume", "observe"}
  /\ CycleLost(j)
  /\ UNCHANGED counter

(* The process dies: its counter starts again, its cycle does not.          *)
CrashJob(j) ==
  /\ CycleLost(j)
  /\ counter' = [counter EXCEPT ![j] = 0]

TwinNext ==
  \E j \in Job :
    \/ \E r \in Twin : BeginCycle(j, r)
    \/ cycle[j].pc = "scan" /\ \E m \in cycle[j].keep : ExpireMessage(j, m)
    \/ SaveScanned(j) \/ Consume(j)
    \/ cycle[j].pc = "observe" /\ \E m \in cycle[j].got :
         \/ Reconcile(j, m) \/ DecideToRespond(j, m) \/ LetGo(j, m)
         \/ \E to \in Twin : Misaddress(j, m, to)
    \/ \E k \in Kpi : DecideToAsk(j, k)
    \/ AskReplaced(j) \/ DecideNoMore(j)
    \/ cycle[j].pc = "act" /\ \E m \in cycle[j].out : SendMessage(j, m) \/ SendRaises(j, m)
    \/ _record_pending_request(j) \/ GoesUnrecorded(j) \/ EndCycle(j)
    \/ CycleRaises(j) \/ CrashJob(j)

TwinSpec == TwinInit /\ [][TwinNext]_twinVars

----------------------------------------------------------------------------
(* Where a request, or the answer to it, still is.                          *)
Somewhere(i) ==
  LET here(S) == \E m \in S : m.id \in {i, Extend(i, "resp")} IN
  \/ \E r \in Twin : here(inbox[r])
  \/ \E j \in Job : here(InHand(cycle[j]))

(* No request is forgotten: one that its requester has on record as pending *)
(* is waiting, being answered, or answered, unless a process died with it,  *)
(* the cycle that held it raised an exception, its answer could not be      *)
(* sent, the model's list dropped it or answered another twin, a scan wrote *)
(* an inbox back over it, it was handled before it was on record, or its id *)
(* was given to two requests.                                               *)
PendingIsSomewhere ==
  \A i \in Id : IsRequest(i) /\ i \notin disturbed =>
    \A r \in Twin : requests[r][i] = "pending" => Somewhere(i)

(* A response settles the request it responds to and is not itself answered *)
(* with a response.                                                         *)
AnswersEnd ==
  \A r \in Twin : \A m \in inbox[r] : IsResponse(m.id) => ~IsResponse(Parent(m.id))

=============================================================================

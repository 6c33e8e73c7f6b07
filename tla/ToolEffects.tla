----------------------------- MODULE ToolEffects -----------------------------
(***************************************************************************)
(* One effect of a specialist's tool: remediation.propose (tools.py) for   *)
(* one task and finding, called by every attempt of the task, attempts of  *)
(* which several may run at once (AgentTasks).  The effect is reserved in  *)
(* strategyos_agent_tool_invocations, applied as an artifact link, and     *)
(* recorded: three transactions, each of which may get no connection.      *)
(***************************************************************************)
EXTENDS Integers, FiniteSets

CONSTANTS
  Attempt,        \* attempts of the task that reach the tool
  NoInvocation,   \* no row
  NoOutcome       \* the call is under way

VARIABLES
  invocation,   \* the row of the effect key: its status
  effectLinks,  \* attempts whose artifact link was committed
  tool          \* per attempt: [pc, reserved, outcome]

effectVars == <<invocation, effectLinks, tool>>

Steps == {"new", "unseen", "reserved", "linked", "failing", "over"}
Outcomes == {"succeeded", "already", "error", "crashed"}

(* A missing row and a missing outcome are none of the values.              *)
ASSUME EffectAssumption ==
  /\ NoInvocation \notin {"pending", "succeeded", "failed"}
  /\ NoOutcome \notin Outcomes

ToolCall == [pc : Steps,
             reserved : BOOLEAN,     \* it holds an invocation id
             outcome : Outcomes \cup {NoOutcome}]

EffectTypeOK ==
  /\ invocation \in {NoInvocation, "pending", "succeeded", "failed"}
  /\ effectLinks \subseteq Attempt
  /\ tool \in [Attempt -> ToolCall]

EffectInit ==
  /\ invocation = NoInvocation
  /\ effectLinks = {}
  /\ tool = [a \in Attempt |->
               [pc |-> "new", reserved |-> FALSE, outcome |-> NoOutcome]]

Over(a, o) == [tool EXCEPT ![a].pc = "over", ![a].outcome = o]

----------------------------------------------------------------------------
(* reserve_tool_effect: select, then insert against unique(tenant_id,       *)
(* effect_key).                                                             *)

SelectInvocation(a) ==
  /\ tool[a].pc = "new"
  /\ tool' = IF invocation = NoInvocation
             THEN [tool EXCEPT ![a].pc = "unseen"]
             ELSE Over(a, "already")
  /\ UNCHANGED <<invocation, effectLinks>>

(* The constraint is not there: both racers reserve.                        *)
InsertInvocation_TWICE(a) ==
  /\ tool[a].pc = "unseen"
  /\ invocation' = "pending"
  /\ tool' = [tool EXCEPT ![a].pc = "reserved", ![a].reserved = TRUE]
  /\ UNCHANGED effectLinks

InsertInvocation(a) ==
  /\ tool[a].pc = "unseen"
  /\ IF invocation = NoInvocation
     THEN /\ invocation' = "pending"
          /\ tool' = [tool EXCEPT ![a].pc = "reserved", ![a].reserved = TRUE]
     ELSE /\ UNCHANGED invocation
          /\ tool' = Over(a, "already")
  /\ UNCHANGED effectLinks

(* database_connection has none: a status record without an id is returned  *)
(* and taken for the reservation.                                           *)
ReserveSkipped(a) ==
  /\ tool[a].pc = "new"
  /\ tool' = [tool EXCEPT ![a].pc = "reserved"]
  /\ UNCHANGED <<invocation, effectLinks>>

----------------------------------------------------------------------------
(* create_artifact_link.                                                    *)

CreateLink(a) ==
  /\ tool[a].pc = "reserved"
  /\ effectLinks' = effectLinks \cup {a}
  /\ tool' = [tool EXCEPT ![a].pc = "linked"]
  /\ UNCHANGED invocation

(* No connection, or an error before the commit: no link, and no link id.   *)
LinkFails(a) ==
  /\ tool[a].pc = "reserved"
  /\ tool' = [tool EXCEPT ![a].pc = "failing"]
  /\ UNCHANGED <<invocation, effectLinks>>

----------------------------------------------------------------------------
(* record_tool_invocation_result.  Without an id the argument itself        *)
(* raises, in the try block and again in its handler.                       *)

RecordSucceeded(a) ==
  /\ tool[a].pc = "linked"
  /\ IF tool[a].reserved
     THEN invocation' = "succeeded" /\ tool' = Over(a, "succeeded")
     ELSE UNCHANGED invocation /\ tool' = [tool EXCEPT ![a].pc = "failing"]
  /\ UNCHANGED effectLinks

(* No connection: nothing is recorded and nothing is raised.                *)
RecordSkipped(a) ==
  /\ tool[a].pc = "linked"
  /\ tool[a].reserved
  /\ tool' = Over(a, "succeeded")
  /\ UNCHANGED <<invocation, effectLinks>>

(* The update raises although the link is committed.                        *)
RecordRaises(a) ==
  /\ tool[a].pc = "linked"
  /\ tool[a].reserved
  /\ tool' = [tool EXCEPT ![a].pc = "failing"]
  /\ UNCHANGED <<invocation, effectLinks>>

(* The handler of every exception; its own update may find no connection.   *)
RecordFailed(a) ==
  /\ tool[a].pc = "failing"
  /\ invocation' \in IF tool[a].reserved THEN {"failed", invocation}
                                         ELSE {invocation}
  /\ tool' = Over(a, "error")
  /\ UNCHANGED effectLinks

CrashInTool(a) ==
  /\ tool[a].pc \notin {"new", "over"}
  /\ tool' = Over(a, "crashed")
  /\ UNCHANGED <<invocation, effectLinks>>

EffectNext ==
  \E a \in Attempt :
    \/ SelectInvocation(a) \/ InsertInvocation(a) \/ ReserveSkipped(a)
    \/ CreateLink(a) \/ LinkFails(a)
    \/ RecordSucceeded(a) \/ RecordSkipped(a) \/ RecordRaises(a)
    \/ RecordFailed(a) \/ CrashInTool(a)

EffectSpec == EffectInit /\ [][EffectNext]_effectVars

----------------------------------------------------------------------------
(* "At-least-once task execution produces effectively-once effects": one    *)
(* link, however many attempts call the tool and wherever they die.         *)
EffectivelyOnce == Cardinality(effectLinks) <= 1

(* The reservation keeps that promise for those who have one: at most one   *)
(* attempt ever holds it, a second link is always one that was made without *)
(* a reservation, and "succeeded" is neither recorded nor returned unless   *)
(* the attempt that holds the reservation has committed its link.           *)
OneReservedEffect ==
  LET holders == {a \in Attempt : tool[a].reserved} IN
  /\ Cardinality(holders) <= 1
  /\ Cardinality(effectLinks \cap holders) <= 1
  /\ (invocation = "succeeded" \/ \E a \in Attempt : tool[a].outcome = "succeeded")
       => effectLinks \cap holders # {}

=============================================================================

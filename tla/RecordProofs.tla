---------------------------- MODULE RecordProofs ----------------------------
(***************************************************************************)
(* Proofs about the components that promise to record something once: tool *)
(* effects, board packets, executive decisions, the events of a decision,  *)
(* the records of the twins and the job of a request, or to keep and show  *)
(* only what stands: the rows of a workspace and the answers that were     *)
(* vetted.  For any number of concurrent callers and any bounds.           *)
(***************************************************************************)
EXTENDS ToolEffects, BoardMemory, ExecutiveDecisions, DecisionLifecycle,
        TwinRecords, AnswerRouting, ConversationState, RunJobs, TLAPS,
        FiniteSetTheorems, SequenceTheorems

(* A set without two different elements has at most one.                    *)
LEMMA AtMostOne ==
  ASSUME NEW S, \A x, y \in S : x = y
  PROVE  IsFiniteSet(S) /\ Cardinality(S) <= 1
<1>1. CASE S = {}
  BY <1>1, FS_EmptySet
<1>2. CASE S # {}
  <2>1. PICK x : S = {x}
    BY <1>2
  <2>2. IsFiniteSet({x}) /\ Cardinality({x}) = 1
    BY FS_Singleton
  <2> QED
    BY <2>1, <2>2
<1> QED
  BY <1>1, <1>2

----------------------------------------------------------------------------
(* ToolEffects                                                              *)

(* Who has reserved, and where its link and its outcome stand.              *)
ReservedOnce ==
  /\ \A a, b \in Attempt : tool[a].reserved /\ tool[b].reserved => a = b
  /\ \A a \in Attempt :
       /\ tool[a].reserved => invocation # NoInvocation
       /\ tool[a].pc \in {"new", "unseen"} => ~tool[a].reserved
       /\ tool[a].pc = "linked" => a \in effectLinks
       /\ tool[a].outcome = "succeeded" => tool[a].reserved /\ a \in effectLinks
  /\ invocation = "succeeded" =>
       \E a \in Attempt : tool[a].reserved /\ a \in effectLinks

EffectInv == EffectTypeOK /\ ReservedOnce

LEMMA EffectInitially == EffectInit => EffectInv
BY EffectAssumption
   DEF EffectInit, EffectInv, EffectTypeOK, ReservedOnce, ToolCall, Steps, Outcomes

(* The two updates of a call's record keep its type.                        *)
LEMMA CallTyped ==
  ASSUME EffectTypeOK, NEW a \in Attempt, NEW p \in Steps,
         tool' = [tool EXCEPT ![a].pc = p]
  PROVE  tool' \in [Attempt -> ToolCall]
BY DEF EffectTypeOK, ToolCall

LEMMA EndTyped ==
  ASSUME EffectTypeOK, NEW a \in Attempt, NEW o \in Outcomes, tool' = Over(a, o)
  PROVE  tool' \in [Attempt -> ToolCall]
BY DEF EffectTypeOK, ToolCall, Over, Steps

LEMMA EffectTyped == EffectTypeOK /\ [EffectNext]_effectVars => EffectTypeOK'
<1> SUFFICES ASSUME EffectTypeOK, [EffectNext]_effectVars
             PROVE  EffectTypeOK'
  OBVIOUS
<1> DEFINE Rows == {NoInvocation, "pending", "succeeded", "failed"}
<1>0. invocation \in Rows /\ effectLinks \subseteq Attempt
  BY DEF EffectTypeOK
<1>1. CASE UNCHANGED effectVars
  BY <1>1 DEF effectVars, EffectTypeOK
<1>2. ASSUME NEW a \in Attempt,
             \/ SelectInvocation(a) \/ InsertInvocation(a) \/ ReserveSkipped(a)
             \/ CreateLink(a) \/ LinkFails(a)
             \/ RecordSucceeded(a) \/ RecordSkipped(a) \/ RecordRaises(a)
             \/ RecordFailed(a) \/ CrashInTool(a)
      PROVE  EffectTypeOK'
  <2>1. invocation' \in Rows /\ effectLinks' \subseteq Attempt
    BY <1>0, <1>2
       DEF SelectInvocation, InsertInvocation, ReserveSkipped, CreateLink, LinkFails,
           RecordSucceeded, RecordSkipped, RecordRaises, RecordFailed, CrashInTool
  <2>2. \/ \E p \in Steps : tool' = [tool EXCEPT ![a].pc = p]
        \/ \E o \in Outcomes : tool' = Over(a, o)
        \/ tool' = [tool EXCEPT ![a].pc = "reserved", ![a].reserved = TRUE]
    BY <1>2
       DEF SelectInvocation, InsertInvocation, ReserveSkipped, CreateLink, LinkFails,
           RecordSucceeded, RecordSkipped, RecordRaises, RecordFailed, CrashInTool,
           Steps, Outcomes
  <2>3. ASSUME tool' = [tool EXCEPT ![a].pc = "reserved", ![a].reserved = TRUE]
        PROVE  tool' \in [Attempt -> ToolCall]
    <3> DEFINE call == [tool[a] EXCEPT !.pc = "reserved", !.reserved = TRUE]
    <3>1. tool[a] \in ToolCall /\ tool \in [Attempt -> ToolCall]
      BY DEF EffectTypeOK
    <3>2. call \in ToolCall
      BY <3>1 DEF ToolCall, Steps
    <3>3. tool' = [tool EXCEPT ![a] = call]
      BY <2>3, <3>1 DEF ToolCall
    <3> HIDE DEF call
    <3> QED
      BY <3>1, <3>2, <3>3
  <2>4. ASSUME \E p \in Steps : tool' = [tool EXCEPT ![a].pc = p]
        PROVE  tool' \in [Attempt -> ToolCall]
    BY <2>4, CallTyped
  <2>5. ASSUME \E o \in Outcomes : tool' = Over(a, o)
        PROVE  tool' \in [Attempt -> ToolCall]
    BY <2>5, EndTyped
  <2>6. tool' \in [Attempt -> ToolCall]
    BY <2>2, <2>3, <2>4, <2>5
  <2> QED
    BY <2>1, <2>6 DEF EffectTypeOK
<1> QED
  BY <1>1, <1>2 DEF EffectNext

(* What the two updates of a call's record leave alone.                      *)
Moved(a, p, o) ==
  /\ \A b \in Attempt \ {a} : tool'[b] = tool[b]
  /\ tool'[a].pc = p
  /\ tool'[a].reserved = tool[a].reserved
  /\ tool'[a].outcome = o

LEMMA CallMoves ==
  ASSUME EffectTypeOK, NEW a \in Attempt, NEW p, tool' = [tool EXCEPT ![a].pc = p]
  PROVE  Moved(a, p, tool[a].outcome)
BY DEF EffectTypeOK, ToolCall, Moved

LEMMA CallEnds ==
  ASSUME EffectTypeOK, NEW a \in Attempt, NEW o, tool' = Over(a, o)
  PROVE  Moved(a, "over", o)
BY DEF EffectTypeOK, ToolCall, Over, Moved

(* A step that reserves nothing, links nothing and succeeds nowhere.        *)
LEMMA EffectQuiet ==
  ASSUME EffectInv, NEW a \in Attempt, NEW p, NEW o, Moved(a, p, o),
         p \notin {"new", "linked"},
         p = "unseen" => tool[a].pc = "new",
         o \in {tool[a].outcome, "already", "error", "crashed"},
         invocation' \in {invocation, "failed"},
         effectLinks' = effectLinks
  PROVE  ReservedOnce'
<1> USE DEF Moved
<1>1. \A b \in Attempt : tool'[b].reserved = tool[b].reserved
  OBVIOUS
<1>2. \A b \in Attempt : tool[b].reserved => invocation' # NoInvocation
  BY EffectAssumption DEF EffectInv, ReservedOnce
<1>3. \A b \in Attempt : tool'[b].pc \in {"new", "unseen"} => ~tool[b].reserved
  BY DEF EffectInv, ReservedOnce
<1>4. \A b \in Attempt :
        /\ tool'[b].pc = "linked" => b \in effectLinks
        /\ tool'[b].outcome = "succeeded" => tool[b].reserved /\ b \in effectLinks
  BY DEF EffectInv, ReservedOnce
<1>5. invocation' = "succeeded" =>
        \E b \in Attempt : tool[b].reserved /\ b \in effectLinks
  BY DEF EffectInv, ReservedOnce
<1>6. \A x, y \in Attempt : tool[x].reserved /\ tool[y].reserved => x = y
  BY DEF EffectInv, ReservedOnce
<1> QED
  BY <1>1, <1>2, <1>3, <1>4, <1>5, <1>6 DEF ReservedOnce

LEMMA EffectStep == EffectInv /\ [EffectNext]_effectVars => EffectInv'
<1> SUFFICES ASSUME EffectInv, [EffectNext]_effectVars
             PROVE  ReservedOnce'
  BY EffectTyped DEF EffectInv
<1>0. EffectTypeOK
  BY DEF EffectInv
<1>1. CASE UNCHANGED effectVars
  BY <1>1 DEF effectVars, EffectInv, ReservedOnce
<1>2. ASSUME NEW a \in Attempt, SelectInvocation(a) PROVE ReservedOnce'
  <2>1. Moved(a, "unseen", tool[a].outcome) \/ Moved(a, "over", "already")
    BY <1>0, <1>2, CallMoves, CallEnds DEF SelectInvocation
  <2> QED
    BY <1>2, <2>1, EffectQuiet DEF SelectInvocation
<1>3. ASSUME NEW a \in Attempt, InsertInvocation(a) PROVE ReservedOnce'
  <2>1. CASE invocation = NoInvocation
    <3>1. /\ \A b \in Attempt \ {a} : tool'[b] = tool[b]
          /\ tool'[a] = [tool[a] EXCEPT !.pc = "reserved", !.reserved = TRUE]
      BY <1>0, <1>3, <2>1 DEF InsertInvocation, EffectTypeOK
    <3>2. tool'[a].pc = "reserved" /\ tool'[a].outcome = tool[a].outcome
      BY <1>0, <3>1 DEF EffectTypeOK, ToolCall
    <3>3. /\ invocation' = "pending" /\ invocation' # NoInvocation
          /\ effectLinks' = effectLinks
      BY <1>3, <2>1, EffectAssumption DEF InsertInvocation
    <3>4. \A b \in Attempt : ~tool[b].reserved /\ tool[b].outcome # "succeeded"
      BY <2>1 DEF EffectInv, ReservedOnce
    <3>5. \A b \in Attempt \ {a} : ~tool'[b].reserved
      BY <3>1, <3>4
    <3>6. \A b \in Attempt :
            /\ tool'[b].pc \in {"new", "unseen"} => ~tool'[b].reserved
            /\ tool'[b].pc = "linked" => b \in effectLinks
            /\ tool'[b].outcome # "succeeded"
      BY <3>1, <3>2, <3>4 DEF EffectInv, ReservedOnce
    <3> QED
      BY <3>3, <3>5, <3>6 DEF ReservedOnce
  <2>2. CASE invocation # NoInvocation
    <3>1. Moved(a, "over", "already")
      BY <1>0, <1>3, <2>2, CallEnds DEF InsertInvocation
    <3> QED
      BY <1>3, <2>2, <3>1, EffectQuiet DEF InsertInvocation
  <2> QED
    BY <2>1, <2>2
<1>4. ASSUME NEW a \in Attempt, ReserveSkipped(a) PROVE ReservedOnce'
  <2>1. Moved(a, "reserved", tool[a].outcome)
    BY <1>0, <1>4, CallMoves DEF ReserveSkipped
  <2> QED
    BY <1>4, <2>1, EffectQuiet DEF ReserveSkipped
<1>5. ASSUME NEW a \in Attempt, CreateLink(a) PROVE ReservedOnce'
  <2>1. /\ \A b \in Attempt \ {a} : tool'[b] = tool[b]
        /\ tool'[a].pc = "linked" /\ tool'[a].reserved = tool[a].reserved
        /\ tool'[a].outcome = tool[a].outcome
    BY <1>0, <1>5, CallMoves DEF CreateLink, Moved
  <2>2. effectLinks' = effectLinks \cup {a} /\ invocation' = invocation
    BY <1>5 DEF CreateLink
  <2> QED
    BY <2>1, <2>2 DEF EffectInv, ReservedOnce
<1>6. ASSUME NEW a \in Attempt, LinkFails(a) PROVE ReservedOnce'
  <2>1. Moved(a, "failing", tool[a].outcome)
    BY <1>0, <1>6, CallMoves DEF LinkFails
  <2> QED
    BY <1>6, <2>1, EffectQuiet DEF LinkFails
<1>7. ASSUME NEW a \in Attempt, tool[a].pc = "linked", tool[a].reserved,
             tool' = Over(a, "succeeded"), effectLinks' = effectLinks,
             invocation' \in {invocation, "succeeded"}
      PROVE  ReservedOnce'
  <2>1. /\ \A b \in Attempt \ {a} : tool'[b] = tool[b]
        /\ tool'[a].pc = "over" /\ tool'[a].reserved = tool[a].reserved
    BY <1>0, <1>7, CallEnds DEF Moved
  <2>2. a \in effectLinks /\ invocation' # NoInvocation
    BY <1>7, EffectAssumption, <1>0 DEF EffectInv, ReservedOnce, EffectTypeOK
  <2> QED
    BY <1>7, <2>1, <2>2 DEF EffectInv, ReservedOnce
<1>8. ASSUME NEW a \in Attempt, RecordSucceeded(a) PROVE ReservedOnce'
  <2>1. CASE tool[a].reserved
    BY <1>7, <1>8, <2>1 DEF RecordSucceeded
  <2>2. CASE ~tool[a].reserved
    <3>1. Moved(a, "failing", tool[a].outcome)
      BY <1>0, <1>8, <2>2, CallMoves DEF RecordSucceeded
    <3> QED
      BY <1>8, <2>2, <3>1, EffectQuiet DEF RecordSucceeded
  <2> QED
    BY <2>1, <2>2
<1>9. ASSUME NEW a \in Attempt, RecordSkipped(a) PROVE ReservedOnce'
  BY <1>7, <1>9 DEF RecordSkipped
<1>10. ASSUME NEW a \in Attempt, RecordRaises(a) PROVE ReservedOnce'
  <2>1. Moved(a, "failing", tool[a].outcome)
    BY <1>0, <1>10, CallMoves DEF RecordRaises
  <2> QED
    BY <1>10, <2>1, EffectQuiet DEF RecordRaises
<1>11. ASSUME NEW a \in Attempt, RecordFailed(a) PROVE ReservedOnce'
  <2>1. Moved(a, "over", "error")
    BY <1>0, <1>11, CallEnds DEF RecordFailed
  <2>2. invocation' \in {invocation, "failed"}
    BY <1>11 DEF RecordFailed
  <2> QED
    BY <1>11, <2>1, <2>2, EffectQuiet DEF RecordFailed
<1>12. ASSUME NEW a \in Attempt, CrashInTool(a) PROVE ReservedOnce'
  <2>1. Moved(a, "over", "crashed")
    BY <1>0, <1>12, CallEnds DEF CrashInTool
  <2> QED
    BY <1>12, <2>1, EffectQuiet DEF CrashInTool
<1> QED
  BY <1>1, <1>2, <1>3, <1>4, <1>5, <1>6, <1>8, <1>9, <1>10, <1>11, <1>12
     DEF EffectNext

LEMMA EffectInvHolds == EffectSpec => []EffectInv
BY EffectInitially, EffectStep, PTL DEF EffectSpec

(* At most one attempt holds the reservation of an effect, at most one link *)
(* is made under it, and success is neither recorded nor returned before    *)
(* that link is committed (reserve_tool_effect, _remediation_propose).      *)
THEOREM OneReservedEffectHolds == EffectSpec => []OneReservedEffect
<1>1. EffectInv => OneReservedEffect
  <2> SUFFICES ASSUME EffectInv PROVE OneReservedEffect
    OBVIOUS
  <2> DEFINE holders == {a \in Attempt : tool[a].reserved}
  <2>1. \A x, y \in holders : x = y
    BY DEF EffectInv, ReservedOnce
  <2>2. Cardinality(holders) <= 1
    BY <2>1, AtMostOne
  <2>3. Cardinality(effectLinks \cap holders) <= 1
    <3> HIDE DEF holders
    <3>1. \A x, y \in effectLinks \cap holders : x = y
      BY <2>1
    <3> QED
      BY <3>1, AtMostOne
  <2>4. (invocation = "succeeded" \/ \E a \in Attempt : tool[a].outcome = "succeeded")
          => effectLinks \cap holders # {}
    BY DEF EffectInv, ReservedOnce
  <2> QED
    BY <2>2, <2>3, <2>4 DEF OneReservedEffect
<1> QED
  BY <1>1, EffectInvHolds, PTL

----------------------------------------------------------------------------
(* BoardMemory                                                              *)

(* A packet that is ready is of the run it was composed for.                *)
BoardInv ==
  /\ BoardTypeOK
  /\ OneClosedPacket
  /\ \A c \in Closer : closing[c].pc = "ready" =>
                         closing[c].packet.run = closing[c].run

LEMMA BoardInitially == BoardInit => BoardInv
BY BoardAssumption DEF BoardInit, BoardInv, BoardTypeOK, OneClosedPacket, Closing,
                       NoRequest

LEMMA BoardStep == BoardInv /\ [BoardNext]_boardVars => BoardInv'
<1> SUFFICES ASSUME BoardInv, [BoardNext]_boardVars
             PROVE  BoardInv'
  OBVIOUS
<1> USE BoardAssumption, PacketAssumption
        DEF BoardInv, BoardTypeOK, OneClosedPacket, NoRequest
<1>1. CASE UNCHANGED boardVars
  BY <1>1 DEF boardVars
<1>2. ASSUME NEW r \in Run, ApproveRun(r)
      PROVE  BoardInv'
  BY <1>2 DEF ApproveRun
<1>3. ASSUME NEW r \in Run, ChangeContent(r)
      PROVE  BoardInv'
  BY <1>3 DEF ChangeContent
<1>4. CASE ChangeMatrix
  BY <1>4 DEF ChangeMatrix
<1>5. CASE ReadMeeting
  BY <1>5 DEF ReadMeeting
<1>6. ASSUME NEW c \in Closer, NEW r \in Run, RequestClose(c, r)
      PROVE  BoardInv'
  <2>1. [pc |-> "checking", run |-> r] \in Closing
    BY DEF Closing
  <2> QED
    BY <1>6, <2>1 DEF RequestClose
<1>7. ASSUME NEW c \in Closer, CheckExisting(c)
      PROVE  BoardInv'
  <2>1. closing[c].run \in Run
    BY <1>7 DEF CheckExisting, Closing
  <2>2. /\ NoRequest \in Closing
        /\ [pc |-> "composing", run |-> closing[c].run] \in Closing
    BY <2>1 DEF Closing
  <2>3. CASE closed' = closed
    BY <1>7, <2>2, <2>3 DEF CheckExisting
  <2>4. CASE /\ snapshot # NoPacket /\ snapshot.run = closing[c].run
             /\ closed' = closed \cup {[run |-> closing[c].run, packet |-> snapshot]}
             /\ closing' = [closing EXCEPT ![c] = NoRequest]
    BY <1>7, <2>1, <2>2, <2>4 DEF CheckExisting
  <2> QED
    BY <1>7, <2>3, <2>4 DEF CheckExisting
<1>8. ASSUME NEW c \in Closer, CaptureContext(c)
      PROVE  BoardInv'
  <2>1. closing[c].run \in Run
    BY <1>8 DEF CaptureContext, Closing
  <2>2. [pc |-> "composed", run |-> closing[c].run,
         context |-> content[closing[c].run]] \in Closing
    BY <2>1 DEF Closing
  <2> QED
    BY <1>8, <2>2 DEF CaptureContext
<1>9. ASSUME NEW c \in Closer, CaptureAuthority(c)
      PROVE  BoardInv'
  <2> DEFINE q == closing[c]
             packet == [run |-> q.run, context |-> q.context, authority |-> matrix]
  <2>1. q.run \in Run /\ q.context \in 0..MaxSource
    BY <1>9 DEF CaptureAuthority, Closing
  <2>2. [pc |-> "ready", run |-> q.run, packet |-> packet] \in Closing
    BY <2>1 DEF Closing, Packet
  <2>3. closing' = [closing EXCEPT ![c] = [pc |-> "ready", run |-> q.run,
                                           packet |-> packet]]
    BY <1>9 DEF CaptureAuthority
  <2> QED
    BY <1>9, <2>2, <2>3 DEF CaptureAuthority
<1>10. ASSUME NEW c \in Closer, close_meeting(c)
       PROVE  BoardInv'
  <2> DEFINE q == closing[c].packet
  <2>1. q \in Packet /\ q.run \in Run
    BY <1>10 DEF close_meeting, Closing, Packet
  <2>2. NoRequest \in Closing
    BY DEF Closing
  <2>3. CASE snapshot = NoPacket
    <3>1. snapshot' = q /\ closed' = closed \cup {[run |-> q.run, packet |-> q]}
      BY <1>10, <2>3 DEF close_meeting
    <3>2. closed = {} /\ viewed = {}
      BY <2>3
    <3> QED
      BY <1>10, <2>1, <2>2, <3>1, <3>2 DEF close_meeting
  <2>4. CASE snapshot # NoPacket
    <3>1. /\ snapshot' = snapshot
          /\ closed' = closed \/ (snapshot = q /\
                                  closed' = closed \cup {[run |-> q.run, packet |-> q]})
      BY <1>10, <2>4 DEF close_meeting
    <3> QED
      BY <1>10, <2>1, <2>2, <3>1 DEF close_meeting
  <2> QED
    BY <2>3, <2>4
<1>11. ASSUME NEW c \in Closer, AbandonClose(c)
       PROVE  BoardInv'
  <2>1. NoRequest \in Closing
    BY DEF Closing
  <2> QED
    BY <1>11, <2>1 DEF AbandonClose
<1> QED
  BY <1>1, <1>2, <1>3, <1>4, <1>5, <1>6, <1>7, <1>8, <1>9, <1>10, <1>11
     DEF BoardNext

(* Whoever was told that the meeting is closed, and whoever looked, has the *)
(* packet that is stored, of the run it was closed for (close_meeting).     *)
THEOREM OneClosedPacketHolds == BoardSpec => []OneClosedPacket
<1>1. BoardInv => OneClosedPacket
  BY DEF BoardInv
<1> QED
  BY <1>1, BoardInitially, BoardStep, PTL DEF BoardSpec

----------------------------------------------------------------------------
(* ExecutiveDecisions                                                       *)

Holding == {"locked", "absent"}

(* The advisory lock of a key has one holder, and what a holder has not     *)
(* found nobody else can have inserted since.                               *)
KeyLocked ==
  /\ \A p, q \in Requester :
       request[p].pc \in Holding /\ request[q].pc \in Holding
         /\ request[p].key = request[q].key => p = q
  /\ \A q \in Requester : request[q].pc = "absent" => EventsOf(request[q].key) = {}

EventPerKey ==
  /\ \A x, y \in decisionEvents : x.key = y.key => x = y
  /\ \A a \in answered : \E e \in decisionEvents : e.key = a.key /\ e.id = a.event

ExecutiveInv ==
  /\ ExecutiveTypeOK /\ IsFiniteSet(decisionEvents)
  /\ KeyLocked /\ EventPerKey

(* The record of an answer.                                                 *)
LEMMA AnswerTyped ==
  ASSUME NEW k \in EffectKeys, NEW i \in 1..MaxEventId, NEW b \in BOOLEAN
  PROVE  [key |-> k, event |-> i, replay |-> b]
           \in [key : EffectKeys, event : 1..MaxEventId, replay : BOOLEAN]
OBVIOUS

LEMMA ExecutiveInitially == ExecutiveInit => ExecutiveInv
BY FS_EmptySet
   DEF ExecutiveInit, ExecutiveInv, ExecutiveTypeOK, KeyLocked, EventPerKey,
       EventsOf, RequestRecord, NoTransaction, Holding

LEMMA ExecutiveStep == ExecutiveInv /\ [ExecutiveNext]_executiveVars => ExecutiveInv'
<1> SUFFICES ASSUME ExecutiveInv, [ExecutiveNext]_executiveVars
             PROVE  ExecutiveInv'
  OBVIOUS
<1> USE DEF ExecutiveInv, ExecutiveTypeOK, KeyLocked, EventPerKey, EventsOf,
            NoTransaction, Holding
<1>0. NoTransaction \in RequestRecord
  BY DEF RequestRecord
<1>1. CASE UNCHANGED executiveVars
  BY <1>1 DEF executiveVars
<1>2. ASSUME NEW q \in Requester, NEW k \in EffectKeys, NEW v \in Content,
             BeginDecision(q, k, v)
      PROVE  ExecutiveInv'
  <2>1. [pc |-> "begun", key |-> k, content |-> v] \in RequestRecord
    BY DEF RequestRecord
  <2> QED
    BY <1>2, <2>1 DEF BeginDecision
<1>3. ASSUME NEW q \in Requester, LockEffectKey(q)
      PROVE  ExecutiveInv'
  <2>1. [request[q] EXCEPT !.pc = "locked"] \in RequestRecord
    BY <1>3 DEF LockEffectKey, RequestRecord
  <2> QED
    BY <1>3, <2>1 DEF LockEffectKey
<1>4. ASSUME NEW q \in Requester, SelectExisting(q)
      PROVE  ExecutiveInv'
  <2>1. /\ [request[q] EXCEPT !.pc = "absent"] \in RequestRecord
        /\ request[q].key \in EffectKeys
    BY <1>4 DEF SelectExisting, RequestRecord
  <2>2. CASE EventsOf(request[q].key) = {}
    <3>1. /\ request' = [request EXCEPT ![q].pc = "absent"]
          /\ decisionEvents' = decisionEvents /\ answered' = answered
          /\ request[q].pc = "locked"
      BY <1>4, <2>2 DEF SelectExisting
    <3>2. \A p \in Requester : /\ request'[p].key = request[p].key
                               /\ p # q => request'[p] = request[p]
      BY <3>1
    <3>3. KeyLocked'
      BY <2>2, <3>1, <3>2
    <3> QED
      BY <2>1, <3>1, <3>3
  <2>3. CASE EventsOf(request[q].key) # {}
    <3>1. PICK e \in EventsOf(request[q].key) :
            answered' = answered \cup
              {[key |-> request[q].key, event |-> e.id, replay |-> TRUE]}
      BY <1>4, <2>3 DEF SelectExisting
    <3>2. e \in decisionEvents /\ e.key = request[q].key /\ e.id \in 1..MaxEventId
      BY DEF DecisionEvent
    <3>3. /\ request' = [request EXCEPT ![q] = NoTransaction]
          /\ decisionEvents' = decisionEvents
      BY <1>4, <2>3 DEF SelectExisting
    <3>4. ExecutiveTypeOK'
      <4>1. answered' \subseteq [key : EffectKeys, event : 1..MaxEventId,
                                 replay : BOOLEAN]
        <5>1. [key |-> request[q].key, event |-> e.id, replay |-> TRUE]
                \in [key : EffectKeys, event : 1..MaxEventId, replay : BOOLEAN]
          BY <2>1, <3>2, AnswerTyped
        <5> QED
          BY <3>1, <5>1
      <4>2. request' \in [Requester -> RequestRecord]
        BY <1>0, <3>3
      <4> QED
        BY <3>3, <4>1, <4>2
    <3>5. KeyLocked'
      BY <1>0, <3>3
    <3>6. EventPerKey'
      BY <3>1, <3>2, <3>3
    <3> QED
      BY <3>3, <3>4, <3>5, <3>6
  <2> QED
    BY <2>2, <2>3
<1>5. ASSUME NEW q \in Requester, InsertDecision(q)
      PROVE  ExecutiveInv'
  <2> DEFINE r == request[q]
             id == Cardinality(decisionEvents) + 1
             event == [id |-> id, key |-> r.key, content |-> r.content]
  <2>1. r.pc = "absent" /\ r.key \in EffectKeys /\ r.content \in Content
    BY <1>5 DEF InsertDecision, RequestRecord
  <2>2. id \in 1..MaxEventId
    <3>1. Cardinality(decisionEvents) \in Nat
      BY FS_CardinalityType
    <3> QED
      BY <1>5, <3>1, ExecutiveAssumption DEF InsertDecision
  <2>3. /\ decisionEvents' = decisionEvents \cup {event}
        /\ request' = [request EXCEPT ![q] = NoTransaction]
        /\ \/ answered' = answered
           \/ answered' = answered \cup {[key |-> r.key, event |-> id, replay |-> FALSE]}
    BY <1>5 DEF InsertDecision
  <2>4. IsFiniteSet(decisionEvents')
    BY <2>3, FS_AddElement
  <2>5. event \in DecisionEvent /\ event.key = r.key /\ event.id = id
    BY <2>1, <2>2 DEF DecisionEvent
  <2>6. \A x \in decisionEvents : x.key # r.key
    BY <2>1
  <2> HIDE DEF id, event
  <2>7. ExecutiveTypeOK'
    <3>1. answered' \subseteq [key : EffectKeys, event : 1..MaxEventId,
                               replay : BOOLEAN]
      <4> DEFINE S == [key : EffectKeys, event : 1..MaxEventId, replay : BOOLEAN]
                 answer == [key |-> r.key, event |-> id, replay |-> FALSE]
      <4>1. answer \in S
        BY <2>1, <2>2, AnswerTyped
      <4>2. answered \subseteq S
        OBVIOUS
      <4>3. answered' = answered \/ answered' = answered \cup {answer}
        BY <2>3
      <4> HIDE DEF S, answer
      <4>4. answered' \subseteq S
        BY <4>1, <4>2, <4>3
      <4> QED
        BY <4>4 DEF S
    <3>2. request' \in [Requester -> RequestRecord]
      BY <1>0, <2>3
    <3>3. decisionEvents' \subseteq DecisionEvent
      BY <2>3, <2>5
    <3> QED
      BY <3>1, <3>2, <3>3
  <2>8. KeyLocked'
    <3>1. \A p \in Requester : p # q => request'[p] = request[p]
      BY <2>3
    <3>2. request'[q].pc = "idle"
      BY <2>3
    <3>3. ASSUME NEW p \in Requester, request'[p].pc = "absent"
          PROVE  {e \in decisionEvents' : e.key = request'[p].key} = {}
      <4>1. p # q /\ request[p].pc = "absent"
        BY <3>1, <3>2, <3>3
      <4>2. request[p].key # r.key
        BY <2>1, <4>1
      <4> QED
        BY <2>3, <2>5, <3>1, <4>1, <4>2
    <3> QED
      BY <3>1, <3>2, <3>3
  <2>9. EventPerKey'
    BY <2>1, <2>3, <2>5, <2>6
  <2> QED
    BY <2>4, <2>7, <2>8, <2>9
<1>6. ASSUME NEW q \in Requester, AbortDecision(q)
      PROVE  ExecutiveInv'
  BY <1>0, <1>6 DEF AbortDecision
<1> QED
  BY <1>1, <1>2, <1>3, <1>4, <1>5, <1>6 DEF ExecutiveNext

(* However often and concurrently a decision is confirmed with one          *)
(* idempotency key, one event stands for it and every answer names it       *)
(* (record_executive_decision).                                             *)
THEOREM OneEventPerKeyHolds == ExecutiveSpec => []OneEventPerKey
<1>1. ExecutiveInv => OneEventPerKey
  <2> SUFFICES ASSUME ExecutiveInv PROVE OneEventPerKey
    OBVIOUS
  <2>1. ASSUME NEW k \in EffectKeys PROVE Cardinality(EventsOf(k)) <= 1
    <3>1. \A x, y \in EventsOf(k) : x = y
      BY DEF ExecutiveInv, EventPerKey, EventsOf
    <3> QED
      BY <3>1, AtMostOne
  <2>2. \A a \in answered : \E e \in EventsOf(a.key) : e.id = a.event
    BY DEF ExecutiveInv, EventPerKey, EventsOf
  <2> QED
    BY <2>1, <2>2 DEF OneEventPerKey
<1> QED
  BY <1>1, ExecutiveInitially, ExecutiveStep, PTL DEF ExecutiveSpec

----------------------------------------------------------------------------
(* DecisionLifecycle                                                        *)

DecisionInv == DecisionTypeOK /\ OncePerKindInOrder /\ ToldWhatIsRecorded

LEMMA DecisionInitially == DecisionInit => DecisionInv
<1> SUFFICES ASSUME DecisionInit PROVE DecisionInv
  OBVIOUS
<1>1. DecisionTypeOK
  BY DecisionAssumption DEF DecisionInit, DecisionTypeOK, Transaction, Idle, Time
<1>2. Len(decisionLog) = 0
  BY DEF DecisionInit
<1> QED
  BY <1>1, <1>2 DEF DecisionInit, DecisionInv, OncePerKindInOrder, ToldWhatIsRecorded

(* What the three routes append.                                            *)
LEMMA TransactionTyped ==
  ASSUME NEW t \in Transaction, t # Idle
  PROVE  t.event \in Event /\ t.at \in Time
BY DEF Transaction, Idle

LEMMA DecisionTyped ==
  DecisionTypeOK /\ [DecisionNext]_decisionVars => DecisionTypeOK'
<1> SUFFICES ASSUME DecisionTypeOK, [DecisionNext]_decisionVars
             PROVE  DecisionTypeOK'
  OBVIOUS
<1> USE DEF DecisionTypeOK
<1>0. Idle \in Transaction
  BY DEF Transaction
<1>1. CASE UNCHANGED decisionVars
  BY <1>1 DEF decisionVars
<1>2. CASE PassTime
  BY <1>2, DecisionAssumption DEF PassTime, Time
<1>3. ASSUME NEW c \in Caller, NEW e \in Event, BeginAppend(c, e)
      PROVE  DecisionTypeOK'
  <2>1. [pc |-> "begun", event |-> e, at |-> clock] \in Transaction
    BY DEF Transaction
  <2> QED
    BY <1>3, <2>1 DEF BeginAppend
<1>4. ASSUME NEW c \in Caller, LockDecision(c)
      PROVE  DecisionTypeOK'
  <2>1. [append[c] EXCEPT !.pc = "locked"] \in Transaction
    <3>1. append[c] \in [pc : {"begun", "locked"}, event : Event, at : Time]
      BY <1>4 DEF LockDecision, Transaction, Idle
    <3> QED
      BY <3>1 DEF Transaction
  <2> QED
    BY <1>4, <2>1 DEF LockDecision
<1>5. ASSUME NEW c \in Caller, Replay(c) \/ Insert(c)
      PROVE  DecisionTypeOK'
  <2>1. append[c].event \in Event /\ append[c].at \in Time
    BY <1>5 DEF Replay, Insert, Transaction, Idle
  <2>2. ASSUME NEW b \in BOOLEAN
        PROVE  [event |-> append[c].event, replay |-> b]
                 \in [event : Event, replay : BOOLEAN]
    BY <2>1
  <2>3. [event |-> append[c].event, at |-> append[c].at] \in [event : Event, at : Time]
    BY <2>1
  <2>4. told' \subseteq [event : Event, replay : BOOLEAN]
    <3>1. \/ told' = told \cup {[event |-> append[c].event, replay |-> TRUE]}
          \/ told' = told \cup {[event |-> append[c].event, replay |-> FALSE]}
      BY <1>5 DEF Replay, Insert
    <3>2. /\ [event |-> append[c].event, replay |-> TRUE]
               \in [event : Event, replay : BOOLEAN]
          /\ [event |-> append[c].event, replay |-> FALSE]
               \in [event : Event, replay : BOOLEAN]
      BY <2>2
    <3> QED
      BY <3>1, <3>2
  <2>5. decisionLog' \in Seq([event : Event, at : Time])
    <3> DEFINE Stored == [event : Event, at : Time]
               x == [event |-> append[c].event, at |-> append[c].at]
    <3>1. decisionLog' = decisionLog \/ decisionLog' = Append(decisionLog, x)
      BY <1>5 DEF Replay, Insert
    <3>2. x \in Stored /\ decisionLog \in Seq(Stored)
      BY <2>3
    <3> HIDE DEF x, Stored
    <3>3. decisionLog' \in Seq(Stored)
      BY <3>1, <3>2, AppendProperties
    <3> QED
      BY <3>3 DEF Stored
  <2>6. append' \in [Caller -> Transaction] /\ clock' = clock
    BY <1>0, <1>5 DEF Replay, Insert
  <2> QED
    BY <2>4, <2>5, <2>6
<1>6. ASSUME NEW c \in Caller, Refuse(c)
      PROVE  DecisionTypeOK'
  BY <1>0, <1>6 DEF Refuse
<1> QED
  BY <1>1, <1>2, <1>3, <1>4, <1>5, <1>6 DEF DecisionNext

(* An appended event leaves the ones before it where they are.              *)
LEMMA LogGrows ==
  ASSUME DecisionTypeOK, NEW x, decisionLog' = Append(decisionLog, x)
  PROVE  /\ Len(decisionLog) \in Nat /\ Len(decisionLog') = Len(decisionLog) + 1
         /\ \A i \in 1..Len(decisionLog) : decisionLog'[i] = decisionLog[i]
         /\ decisionLog'[Len(decisionLog) + 1] = x
BY DEF DecisionTypeOK

LEMMA DecisionStep == DecisionInv /\ [DecisionNext]_decisionVars => DecisionInv'
<1> SUFFICES ASSUME DecisionInv, [DecisionNext]_decisionVars
             PROVE  DecisionInv'
  OBVIOUS
<1>0. DecisionTypeOK'
  BY DecisionTyped DEF DecisionInv
<1>1. CASE decisionLog' = decisionLog /\ told' = told
  BY <1>0, <1>1 DEF DecisionInv, OncePerKindInOrder, ToldWhatIsRecorded, Holds
<1>2. ASSUME NEW c \in Caller, Replay(c)
      PROVE  DecisionInv'
  <2>1. decisionLog' = decisionLog
    BY <1>2 DEF Replay
  <2>2. OncePerKindInOrder'
    BY <2>1 DEF DecisionInv, OncePerKindInOrder
  <2>3. \A a \in told' : Holds(a.event.kind, a.event.payload)
    BY <1>2 DEF Replay, DecisionInv, ToldWhatIsRecorded
  <2>4. ToldWhatIsRecorded'
    BY <2>1, <2>3 DEF ToldWhatIsRecorded, Holds
  <2> QED
    BY <1>0, <2>2, <2>4 DEF DecisionInv
<1>3. ASSUME NEW c \in Caller, Insert(c)
      PROVE  DecisionInv'
  <2> DEFINE e == append[c].event
             n == Len(decisionLog)
             x == [event |-> e, at |-> append[c].at]
  <2>1. /\ decisionLog' = Append(decisionLog, x)
        /\ told' = told \cup {[event |-> e, replay |-> FALSE]}
        /\ ~Recorded(e.kind) /\ InOrder(e)
    BY <1>3 DEF Insert
  <2>2. /\ n \in Nat /\ Len(decisionLog') = n + 1
        /\ \A i \in 1..n : decisionLog'[i] = decisionLog[i]
        /\ decisionLog'[n + 1] = x
    BY <2>1, LogGrows DEF DecisionInv
  <2>3. OncePerKindInOrder'
    <3> DEFINE ev(i) == decisionLog'[i].event
               prior(i, k) == {j \in 1..(i - 1) : decisionLog'[j].event.kind = k}
               Fine(i) ==
                 /\ prior(i, ev(i).kind) = {}
                 /\ ev(i).kind = "decided" => prior(i, "surfaced") # {}
                 /\ ev(i).kind = "action_verified" =>
                      \E j \in prior(i, "decided") :
                        decisionLog'[j].event.payload = Approve
    <3> SUFFICES ASSUME NEW i \in 1..Len(decisionLog')
                 PROVE  Fine(i)
      BY DEF OncePerKindInOrder
    <3>1. CASE i \in 1..n
      <4>1. \A j \in 1..i : decisionLog'[j] = decisionLog[j]
        BY <2>2, <3>1
      <4>2. i - 1 \in Nat /\ 1..(i - 1) \subseteq 1..i /\ i \in 1..Len(decisionLog)
        BY <2>2, <3>1
      <4>3. ASSUME NEW k
            PROVE  {j \in 1..(i - 1) : decisionLog'[j].event.kind = k}
                     = {j \in 1..(i - 1) : decisionLog[j].event.kind = k}
        BY <4>1, <4>2
      <4>4. decisionLog'[i] = decisionLog[i]
        BY <2>2, <3>1
      <4>5. LET v == decisionLog[i].event
                before(k) == {j \in 1..(i - 1) : decisionLog[j].event.kind = k}
            IN  /\ before(v.kind) = {}
                /\ v.kind = "decided" => before("surfaced") # {}
                /\ v.kind = "action_verified" =>
                     \E j \in before("decided") :
                       decisionLog[j].event.payload = Approve
        BY <4>2 DEF DecisionInv, OncePerKindInOrder
      <4>6. \A j \in 1..(i - 1) : decisionLog'[j] = decisionLog[j]
        BY <4>1, <4>2
      <4> QED
        BY <4>4, <4>5, <4>6
    <3>2. CASE i = n + 1
      <4>1. decisionLog'[i].event = e /\ 1..(i - 1) = 1..n
        BY <2>2, <3>2
      <4> QED
        BY <2>1, <2>2, <4>1 DEF Recorded, InOrder, Holds
    <3>3. i \in 1..n \/ i = n + 1
      BY <2>2
    <3> HIDE DEF Fine
    <3> QED
      BY <3>1, <3>2, <3>3
  <2>4. ToldWhatIsRecorded'
    <3> DEFINE Found(k, p) == \E i \in 1..Len(decisionLog') :
                                /\ decisionLog'[i].event.kind = k
                                /\ decisionLog'[i].event.payload = p
    <3>1. ASSUME NEW a \in told PROVE Found(a.event.kind, a.event.payload)
      <4>1. PICK i \in 1..n : /\ decisionLog[i].event.kind = a.event.kind
                              /\ decisionLog[i].event.payload = a.event.payload
        BY DEF DecisionInv, ToldWhatIsRecorded, Holds
      <4>2. i \in 1..Len(decisionLog') /\ decisionLog'[i] = decisionLog[i]
        BY <2>2
      <4> QED
        BY <4>1, <4>2
    <3>2. Found(e.kind, e.payload)
      <4>1. n + 1 \in 1..Len(decisionLog') /\ decisionLog'[n + 1].event = e
        BY <2>2
      <4> QED
        BY <4>1
    <3>3. \A a \in told' : Found(a.event.kind, a.event.payload)
      <4> HIDE DEF Found, e
      <4> QED
        BY <2>1, <3>1, <3>2
    <3> QED
      BY <3>3 DEF ToldWhatIsRecorded, Holds
  <2> QED
    BY <1>0, <2>3, <2>4 DEF DecisionInv
<1> QED
  BY <1>1, <1>2, <1>3
     DEF DecisionNext, decisionVars, PassTime, BeginAppend, LockDecision, Refuse

LEMMA DecisionInvHolds == DecisionSpec => []DecisionInv
BY DecisionInitially, DecisionStep, PTL DEF DecisionSpec

(* Observed, decided and verified are recorded once each and in this order, *)
(* an action only after a recorded approval (decision_lifecycle.append).    *)
THEOREM OncePerKindInOrderHolds == DecisionSpec => []OncePerKindInOrder
<1>1. DecisionInv => OncePerKindInOrder
  BY DEF DecisionInv
<1> QED
  BY <1>1, DecisionInvHolds, PTL

(* Whoever was told "recorded", first or as a replay, finds that payload in *)
(* the log: a choice that another caller's displaced was refused.           *)
THEOREM ToldWhatIsRecordedHolds == DecisionSpec => []ToldWhatIsRecorded
<1>1. DecisionInv => ToldWhatIsRecorded
  BY DEF DecisionInv
<1> QED
  BY <1>1, DecisionInvHolds, PTL

----------------------------------------------------------------------------
(* TwinRecords                                                              *)

Keyed(c) == \E e \in executions : e.by = c /\ e.keyed

(* In the in-process mode a cycle runs only under a saved record with the   *)
(* key, and a submission that finds no such record finds nothing run.       *)
CycleInv ==
  /\ cycleStep \in [Cycle -> {"idle", "looked", "saved", "ran", "queued",
                              "answered", "replayed", "crashed"}]
  /\ ran \subseteq Cycle
  /\ ranBefore \in [Cycle -> SUBSET Cycle]
  /\ ~hatchet => \A c \in Cycle :
       /\ cycleStep[c] # "queued"
       /\ c \in ran \/ cycleStep[c] \in {"saved", "ran"} => Keyed(c)
       /\ c \in ran => cycleStep[c] # "idle"
       /\ c \in ran \/ cycleStep[c] \in {"looked", "saved", "ran"} => ranBefore[c] = {}

(* The trace is marked before the escalation is saved.                      *)
TraceInv ==
  /\ jobStep \in [EventJob -> {"idle", "collected", "marked", "over"}]
  /\ escBefore \in [EventJob -> SUBSET EventJob]
  /\ trace = "pending" =>
       escalated = {} /\ \A j \in EventJob : jobStep[j] # "marked"
  /\ \A j \in EventJob :
       /\ j \in escalated \/ jobStep[j] \in {"collected", "marked"} => escBefore[j] = {}
       /\ j \in escalated => jobStep[j] # "idle"
  /\ escalated \subseteq EventJob

TwinInv == CycleInv /\ TraceInv /\ routed \in [Dispatch -> {0, 1}]

LEMMA TwinInitially == RecordsInit => TwinInv
BY DEF RecordsInit, TwinInv, CycleInv, TraceInv

LEMMA CycleSteps ==
  ASSUME CycleInv, NEW c \in Cycle,
         \/ LookUpKey(c) \/ SaveRunning(c) \/ RunCycle(c)
         \/ \E outcome \in {"completed", "failed"} : FinishCycle(c, outcome)
         \/ SubmitQueued(c) \/ RunQueued(c)
  PROVE  CycleInv' /\ UNCHANGED <<traceVars, routed>>
<1>1. UNCHANGED <<hatchet, traceVars, routed>>
  BY DEF LookUpKey, SaveRunning, RunCycle, FinishCycle, SubmitQueued, RunQueued,
         CycleGoes, dispatchVars
<1> USE DEF CycleGoes
<1>2. CASE LookUpKey(c)
  <2>1. CASE \E e \in executions : e.keyed
    BY <1>1, <1>2, <2>1 DEF CycleInv, LookUpKey, Keyed
  <2>2. CASE ~\E e \in executions : e.keyed
    <3>1. ran = {}
      BY <1>2, <2>2 DEF CycleInv, LookUpKey, Keyed
    <3>2. QED
      BY <1>1, <1>2, <2>2, <3>1 DEF CycleInv, LookUpKey, Keyed
  <2>3. QED
    BY <2>1, <2>2
<1>3. CASE SaveRunning(c)
  <2>1. Saved(c, TRUE, "running").by = c /\ Saved(c, TRUE, "running").keyed
    BY DEF Saved
  <2>2. Keyed(c)' /\ \A d : Keyed(d) => Keyed(d)'
    <3> HIDE DEF Saved
    <3> QED
      BY <1>3, <2>1 DEF SaveRunning, Keyed
  <2>3. QED
    BY <1>1, <1>3, <2>2 DEF CycleInv, SaveRunning
<1>4. CASE RunCycle(c)
  BY <1>1, <1>4 DEF CycleInv, RunCycle, Keyed
<1>5. ASSUME NEW outcome \in {"completed", "failed"}, FinishCycle(c, outcome)
      PROVE  CycleInv'
  <2>1. Saved(c, TRUE, outcome).by = c /\ Saved(c, TRUE, outcome).keyed
    BY DEF Saved
  <2>2. Keyed(c)' /\ \A d : Keyed(d) => Keyed(d)'
    <3> HIDE DEF Saved
    <3> QED
      BY <1>5, <2>1 DEF FinishCycle, Keyed
  <2>3. QED
    BY <1>1, <1>5, <2>2 DEF CycleInv, FinishCycle
<1>6. CASE SubmitQueued(c)
  BY <1>1, <1>6 DEF CycleInv, SubmitQueued
<1>7. CASE RunQueued(c)
  BY <1>1, <1>7 DEF CycleInv, RunQueued
<1>8. QED
  BY <1>1, <1>2, <1>3, <1>4, <1>5, <1>6, <1>7

LEMMA TraceSteps ==
  ASSUME TraceInv, NEW j \in EventJob,
         CollectDeadlines(j) \/ MarkEscalated(j) \/ SaveEscalation(j)
  PROVE  TraceInv' /\ UNCHANGED <<cycleVars, routed>>
BY DEF TraceInv, CollectDeadlines, MarkEscalated, SaveEscalation, dispatchVars

LEMMA TwinStep == TwinInv /\ [RecordsNext]_recordVars => TwinInv'
<1> SUFFICES ASSUME TwinInv, [RecordsNext]_recordVars PROVE TwinInv'
  OBVIOUS
<1>1. ASSUME UNCHANGED cycleVars PROVE CycleInv'
  BY <1>1 DEF TwinInv, CycleInv, Keyed, cycleVars
<1>2. ASSUME UNCHANGED <<trace, jobStep, escalated, escBefore>> PROVE TraceInv'
  BY <1>2 DEF TwinInv, TraceInv
<1>3. CASE UNCHANGED recordVars
  BY <1>1, <1>2, <1>3 DEF TwinInv, recordVars, dispatchVars, traceVars
<1>4. ASSUME NEW c \in Cycle,
             \/ LookUpKey(c) \/ SaveRunning(c) \/ RunCycle(c)
             \/ \E outcome \in {"completed", "failed"} : FinishCycle(c, outcome)
             \/ SubmitQueued(c) \/ RunQueued(c)
      PROVE  TwinInv'
  BY <1>2, <1>4, CycleSteps DEF TwinInv, traceVars
<1>5. CASE ApproveItem
  BY <1>1, <1>2, <1>5 DEF TwinInv, ApproveItem, dispatchVars
<1>6. ASSUME NEW j \in EventJob,
             CollectDeadlines(j) \/ MarkEscalated(j) \/ SaveEscalation(j)
      PROVE  TwinInv'
  BY <1>1, <1>6, TraceSteps DEF TwinInv
<1>7. ASSUME NEW m \in Dispatch, AppendToInbox(m) \/ EnsureRouting(m)
      PROVE  TwinInv'
  BY <1>1, <1>2, <1>7 DEF TwinInv, AppendToInbox, EnsureRouting, Ensured, traceVars
<1>8. CASE ConsumeInbox
  BY <1>1, <1>2, <1>8 DEF TwinInv, ConsumeInbox, traceVars
<1>9. ASSUME NEW dying \in SUBSET Dispatch, Restart(dying) PROVE TwinInv'
  <2>1. CycleInv'
    BY <1>9 DEF TwinInv, CycleInv, Restart, Keyed
  <2>2. TraceInv'
    BY <1>9 DEF TwinInv, TraceInv, Restart
  <2>3. routed' \in [Dispatch -> {0, 1}]
    BY <1>9 DEF TwinInv, Restart, Ensured
  <2>4. QED
    BY <2>1, <2>2, <2>3 DEF TwinInv
<1>10. QED
  BY <1>3, <1>4, <1>5, <1>6, <1>7, <1>8, <1>9 DEF RecordsNext

(* For any number of submissions, event jobs, messages and crashes: a cycle *)
(* or an escalation is repeated only by those that looked before the first  *)
(* was written down, and a message has one routing event at most            *)
(* (execute_scheduled_cycle_job, execute_event_execution_job,               *)
(* ensure_routing_event).                                                   *)
THEOREM OnlyRacesRepeatHolds == RecordsSpec => []OnlyRacesRepeat
<1>1. TwinInv => OnlyRacesRepeat
  BY DEF TwinInv, CycleInv, TraceInv, OnlyRacesRepeat
<1> QED
  BY <1>1, TwinInitially, TwinStep, PTL DEF RecordsSpec

----------------------------------------------------------------------------
(* AnswerRouting                                                            *)

(* What the orchestrator picks was handed to it, and it picks the model's   *)
(* answer only without a graph and a tabular result.                        *)
LEMMA WinnerFacts ==
  ASSUME NEW results, "fallback" \in results
  PROVE  /\ Winner(results) \in results
         /\ Winner(results) = "model" => "graph" \notin results /\ "tabular" \notin results
<1> DEFINE First(i) == /\ Precedence[i] \in results
                       /\ \A j \in 1..(i - 1) : Precedence[j] \notin results
<1>1. /\ DOMAIN Precedence = 1..7
      /\ Precedence[1] = "scenario" /\ Precedence[2] = "forced" /\ Precedence[3] = "graph"
      /\ Precedence[4] = "tabular" /\ Precedence[5] = "model"
      /\ Precedence[6] = "persona" /\ Precedence[7] = "fallback"
  BY DEF Precedence
<1>2. \E i \in 1..7 : First(i)
  <2>1. CASE \A j \in 1..6 : Precedence[j] \notin results
    BY <1>1, <2>1
  <2>2. CASE \E j \in 1..6 : Precedence[j] \in results
    <3>1. First(1) \/ First(2) \/ First(3) \/ First(4) \/ First(5) \/ First(6)
      BY <1>1, <2>2
    <3> QED
      BY <3>1
  <2> QED
    BY <2>1, <2>2
<1>3. PICK i \in 1..7 : First(i) /\ Winner(results) = Precedence[i]
  BY <1>1, <1>2 DEF Winner
<1>4. Winner(results) = "model" => i = 5
  <2>1. i = 1 \/ i = 2 \/ i = 3 \/ i = 4 \/ i = 5 \/ i = 6 \/ i = 7
    OBVIOUS
  <2> HIDE DEF First
  <2> QED
    BY <1>1, <1>3, <2>1
<1>5. Winner(results) = "model" => Precedence[3] \notin results /\ Precedence[4] \notin results
  BY <1>3, <1>4
<1> QED
  BY <1>1, <1>3, <1>5

(* Drafts that carry text.                                                  *)
Worded(stages) ==
  [stage : stages, matched : BOOLEAN, claims : BOOLEAN, cites : BOOLEAN,
   errors : BOOLEAN, denies : BOOLEAN, own : BOOLEAN]

(* What a draft has passed at its stage, and what the sources have left.    *)
Validated ==
  /\ draft.stage \in {"text", "check", "repair", "final"} =>
       draft \in Worded({"text", "check", "repair", "final"})
  /\ draft.stage = "repair" => draft.errors = CitationErrors(draft)
  /\ draft.stage = "final" /\ ~Rejected =>
       draft.claims /\ (question.surface = "public" \/ draft.cites)

NothingFound ==
  /\ question \in Question
  /\ found \subseteq {"graph", "tabular", "packet"}
  /\ question.surface # "qa" => found \subseteq {"packet"}
  /\ ~question.run => found \subseteq {"packet"}
  /\ draft.stage \in {"general", "generalText"} => ~question.run

RoutingInv == Validated /\ NothingFound /\ VettedBeforeShown

LEMMA RoutingInitially == RoutingInit => RoutingInv
BY DEF RoutingInit, RoutingInv, Validated, NothingFound, VettedBeforeShown, NoDraft, NoReply, Question

(* A composition without the model's answer shows no text of the model.     *)
LEMMA ComposedWithoutModel ==
  ASSUME NEW w \in Composed({})
  PROVE  w \in {"persona", "fallback"}
BY WinnerFacts DEF Composed

(* A question asked of a source, or refused, leaves the draft's validation. *)
LEMMA AskSteps ==
  ASSUME RoutingInv,
         \/ RefuseRequest \/ AskGoverned \/ AskGeneral \/ AskScenario \/ CheckRun
         \/ AskGraph \/ AskTabular \/ AskModel \/ AskPacket
  PROVE  RoutingInv'
<1> USE DEF RoutingInv
<1>1. question' = question
  BY DEF RefuseRequest, AskGoverned, AskGeneral, AskScenario, CheckRun, AskGraph,
         AskTabular, AskModel, AskPacket, Answer, Drop
<1>2. Validated'
  <2>1. draft' = draft \/ draft'.stage \in {"general", "json"}
    BY DEF RefuseRequest, AskGoverned, AskGeneral, AskScenario, CheckRun, AskGraph,
           AskTabular, AskModel, AskPacket, Answer, Drop
  <2> QED
    BY <1>1, <2>1 DEF Validated, Rejected, CitationErrors
<1>3. NothingFound'
  <2>1. \/ found' = found
        \/ AskScenario /\ question.surface = "public" /\ found' = found \cup {"packet"}
        \/ found' = found \cup {}
        \/ question.run /\ Gathers /\ found' \in {found \cup {"graph"}, found \cup {"tabular"}}
    BY DEF RefuseRequest, AskGoverned, AskGeneral, AskScenario, CheckRun, AskGraph,
           AskTabular, AskModel, AskPacket, Answer, Drop
  <2>2. draft'.stage \in {"general", "generalText"} => draft' = draft \/ ~question.run
    BY DEF RefuseRequest, AskGoverned, AskGeneral, AskScenario, CheckRun, AskGraph,
           AskTabular, AskModel, AskPacket, Answer, Drop
  <2> QED
    BY <1>1, <2>1, <2>2 DEF NothingFound, Gathers
<1>4. VettedBeforeShown'
  <2>1. reply' = NoReply \/ reply'.by # "model"
    <3>1. reply' = reply => reply' = NoReply \/ reply'.by # "model"
      BY DEF RefuseRequest, AskGoverned, AskGeneral, AskScenario, CheckRun, AskGraph,
             AskTabular, AskModel, AskPacket, Asks, Drop, Answer
    <3>2. \/ reply' = reply
          \/ reply' \in {Http("refused"), Http("error")}
          \/ \E by \in {"forced", "scenario", "graph", "tabular"},
                base \in {"forced", "scenario", "graph", "tabular"} :
               reply' = Reply(by, base, "own")
          \/ \E w \in Composed({}) : reply' = Reply(w, "tabular", "own")
      BY DEF RefuseRequest, AskGoverned, AskGeneral, AskScenario, CheckRun, AskGraph,
             AskTabular, AskModel, AskPacket, Answer, Drop
    <3> QED
      BY <3>1, <3>2, ComposedWithoutModel DEF Http, Reply
  <2> QED
    BY <2>1 DEF VettedBeforeShown, NoReply
<1> QED
  BY <1>2, <1>3, <1>4

(* A call of the provider or a check leaves what is shown.                  *)
LEMMA DraftSteps ==
  ASSUME RoutingInv,
         JsonCall \/ TextCall \/ PlainCall \/ Check \/ RepairCall
  PROVE  RoutingInv'
<1> USE DEF RoutingInv
<1>1. /\ question' = question /\ found' = found /\ reply' = reply /\ reply = NoReply
      /\ draft.stage \notin {"general", "generalText"}
  BY DEF JsonCall, TextCall, PlainCall, Check, RepairCall, Calling, Stage
<1>2. Validated' /\ draft'.stage \notin {"general", "generalText"}
  <2>1. CASE JsonCall
    <3>1. CASE \E stage \in {"check", "text"} : \E m, c, t, d \in BOOLEAN :
                 draft' = Draft(stage, m, c, t, d)
      <4>1. PICK stage \in {"check", "text"}, m \in BOOLEAN, c \in BOOLEAN,
                 t \in BOOLEAN, d \in BOOLEAN : draft' = Draft(stage, m, c, t, d)
        BY <3>1
      <4>2. /\ draft' \in Worded({"text", "check", "repair", "final"})
            /\ draft'.stage \in {"check", "text"}
        BY <4>1 DEF Draft, Worded
      <4> QED
        BY <4>2 DEF Validated
    <3>2. CASE draft' = [stage |-> "plain"] \/ draft' = [stage |-> "failed"]
      <4>1. draft'.stage \in {"plain", "failed"}
        BY <3>2
      <4> QED
        BY <4>1 DEF Validated
    <3> QED
      BY <2>1, <3>1, <3>2 DEF JsonCall
  <2>2. CASE TextCall
    <3>1. draft \in Worded({"text", "check", "repair", "final"})
      BY <2>2 DEF TextCall, Stage, Validated
    <3>2. CASE \E c, d \in BOOLEAN :
                 draft' = Draft("check", draft.matched, c, draft.cites, d)
      <4>1. PICK c \in BOOLEAN, d \in BOOLEAN :
              draft' = Draft("check", draft.matched, c, draft.cites, d)
        BY <3>2
      <4>2. draft.matched \in BOOLEAN /\ draft.cites \in BOOLEAN
        BY <3>1 DEF Worded
      <4>3. /\ draft' \in Worded({"text", "check", "repair", "final"})
            /\ draft'.stage = "check"
        BY <4>1, <4>2 DEF Draft, Worded
      <4> QED
        BY <4>3 DEF Validated
    <3>3. CASE draft' = [stage |-> "plain"] \/ draft' = [stage |-> "failed"]
      <4>1. draft'.stage \in {"plain", "failed"}
        BY <3>3
      <4> QED
        BY <4>1 DEF Validated
    <3> QED
      BY <2>2, <3>2, <3>3 DEF TextCall
  <2>3. CASE PlainCall
    <3>1. \/ draft' \in Worded({"text", "check"})
          \/ draft'.stage = "failed"
          \/ /\ draft' \in Worded({"final"}) /\ draft'.claims
             /\ question.surface = "public"
      <4>1. CASE \E c, d \in BOOLEAN : draft' = Draft("check", TRUE, c, FALSE, d)
        BY <4>1 DEF Draft, Worded
      <4>2. CASE /\ question.surface = "public"
                 /\ draft' = [Draft("final", TRUE, TRUE, TRUE, FALSE) EXCEPT !.own = FALSE]
        BY <4>2 DEF Draft, Worded
      <4>3. CASE draft' = [stage |-> "failed"]
        BY <4>3
      <4> QED
        BY <2>3, <4>1, <4>2, <4>3 DEF PlainCall
    <3> QED
      BY <1>1, <3>1 DEF Validated, Worded
  <2>4. CASE Check
    <3>0. PICK c \in BOOLEAN, t \in BOOLEAN :
            \E d \in {Repaired(draft, c, t), DomainBoundary(draft)} :
              draft' = [d EXCEPT !.errors = CitationErrors(d),
                                 !.stage = IF d.claims /\ ~CitationErrors(d) THEN "final"
                                           ELSE "repair"]
      BY <2>4 DEF Check
    <3>1. PICK d \in {Repaired(draft, c, t), DomainBoundary(draft)} :
            draft' = [d EXCEPT !.errors = CitationErrors(d),
                               !.stage = IF d.claims /\ ~CitationErrors(d) THEN "final"
                                         ELSE "repair"]
      BY <3>0
    <3>2. draft \in Worded({"text", "check", "repair", "final"})
      BY <2>4 DEF Check, Stage, Validated
    <3>3. d \in Worded({"text", "check", "repair", "final"})
      BY <3>1, <3>2 DEF Repaired, DomainBoundary, Worded
    <3>4. CitationErrors(d) \in BOOLEAN
      BY <3>3 DEF CitationErrors, Worded
    <3>5. /\ draft' \in Worded({"text", "check", "repair", "final"})
          /\ draft'.errors = CitationErrors(d) /\ draft'.cites = d.cites
          /\ draft'.claims = d.claims
          /\ draft'.stage = IF d.claims /\ ~CitationErrors(d) THEN "final" ELSE "repair"
      BY <3>1, <3>3, <3>4 DEF Worded
    <3> QED
      BY <1>1, <3>3, <3>5 DEF Validated, CitationErrors, Rejected, Worded
  <2>5. CASE RepairCall
    <3>1. draft \in Worded({"text", "check", "repair", "final"})
          /\ draft.errors = CitationErrors(draft)
      BY <2>5 DEF RepairCall, Stage, Validated
    <3>2. CASE draft' = [draft EXCEPT !.stage = "final"]
      BY <1>1, <3>1, <3>2 DEF Validated, CitationErrors, Rejected, Worded
    <3>3. CASE \E m, t, d \in BOOLEAN : /\ t \/ question.surface = "public"
                                       /\ draft' = Draft("final", m, TRUE, t, d)
      BY <1>1, <3>3 DEF Validated, Draft, Rejected, Worded
    <3> QED
      BY <2>5, <3>2, <3>3 DEF RepairCall
  <2> QED
    BY <2>1, <2>2, <2>3, <2>4, <2>5
<1>3. NothingFound'
  BY <1>1, <1>2 DEF NothingFound
<1>4. VettedBeforeShown'
  BY <1>1 DEF VettedBeforeShown, NoReply
<1> QED
  BY <1>2, <1>3, <1>4

(* What the orchestrator shows of a finished draft.                         *)
LEMMA FinalSteps ==
  ASSUME RoutingInv, ModelAnswers
  PROVE  RoutingInv'
<1> USE DEF RoutingInv
<1>1. /\ UNCHANGED <<question, found, draft>> /\ draft.stage = "final"
  BY DEF ModelAnswers, Answer, Stage
<1>2. Validated' /\ NothingFound'
  BY <1>1 DEF Validated, NothingFound, Rejected, CitationErrors
<1>3. reply'.by = "model" => found \subseteq {"packet"}
  <2>1. CASE question.surface # "qa"
    BY <2>1 DEF NothingFound
  <2>2. CASE question.surface = "qa"
    <3>1. PICK w \in Composed(found \cup (IF Matched THEN {"model"} ELSE {})) :
            reply'.by = w
      BY <2>2 DEF ModelAnswers, Answer, Reply
    <3> DEFINE R == found \cup (IF Matched THEN {"model"} ELSE {})
    <3>2. \/ w = Winner(R \cup {"fallback"})
          \/ w = Winner(R \cup {"persona", "fallback"})
      BY <3>1 DEF Composed
    <3>3. w = "model" => "graph" \notin R /\ "tabular" \notin R
      <4> HIDE DEF R
      <4>1. /\ "fallback" \in R \cup {"fallback"}
            /\ "fallback" \in R \cup {"persona", "fallback"}
        OBVIOUS
      <4>2. /\ Winner(R \cup {"fallback"}) = "model" => "graph" \notin R /\ "tabular" \notin R
            /\ Winner(R \cup {"persona", "fallback"}) = "model" =>
                 "graph" \notin R /\ "tabular" \notin R
        BY <4>1, WinnerFacts
      <4> QED
        BY <3>2, <4>2
    <3> QED
      BY <3>1, <3>3 DEF NothingFound
  <2> QED
    BY <2>1, <2>2
<1>4. reply'.by = "model" /\ reply'.text = "answer" => ~Rejected
  BY DEF ModelAnswers, Answer, Reply
<1> QED
  BY <1>1, <1>2, <1>3, <1>4 DEF VettedBeforeShown, Validated

(* A call that fails for good, and general knowledge.                       *)
LEMMA OtherSteps ==
  ASSUME RoutingInv, Unreadable \/ ModelFails \/ GeneralCall
  PROVE  RoutingInv'
<1> USE DEF RoutingInv
<1>1. question' = question /\ found' = found
  BY DEF Unreadable, ModelFails, GeneralCall, Calling, Answer
<1>2. Validated'
  <2>1. draft' = draft \/ draft'.stage = "generalText"
    BY DEF Unreadable, ModelFails, GeneralCall
  <2> QED
    BY <1>1, <2>1 DEF Validated, Rejected, CitationErrors
<1>3. NothingFound'
  <2>1. \/ draft' = draft
        \/ draft'.stage = "generalText" /\ draft.stage \in {"general", "generalText"}
    BY DEF Unreadable, ModelFails, GeneralCall
  <2> QED
    BY <1>1, <2>1 DEF NothingFound
<1>4. VettedBeforeShown'
  <2>1. CASE Unreadable
    BY <2>1 DEF Unreadable, Http, VettedBeforeShown
  <2>2. CASE ModelFails
    <3>1. \/ reply' = Http("error")
          \/ \E w \in Composed({}) : reply' = Reply(w, "tabular", "own")
          \/ reply' = Reply("forced", "tabular", "own")
          \/ reply' \in {Reply("forced", "forced", "own"), Reply("scenario", "forced", "own")}
      BY <2>2 DEF ModelFails, Answer
    <3>2. reply'.by # "model"
      BY <3>1, ComposedWithoutModel DEF Http, Reply
    <3> QED
      BY <3>2 DEF VettedBeforeShown
  <2>3. CASE GeneralCall
    <3>1. found \subseteq {"packet"}
      BY <2>3 DEF GeneralCall, NothingFound
    <3>2. \/ reply' = reply /\ reply = NoReply
          \/ reply' = Http("error")
          \/ reply' = Reply("model", "model", "general")
          \/ \E w \in Composed({}) : reply' = Reply(w, "model", "general")
      BY <2>3 DEF GeneralCall
    <3>3. reply'.by = "model" => reply'.text # "answer"
      BY <3>2, ComposedWithoutModel DEF NoReply, Http, Reply
    <3> QED
      BY <1>1, <3>1, <3>3 DEF VettedBeforeShown
  <2> QED
    BY <2>1, <2>2, <2>3
<1> QED
  BY <1>2, <1>3, <1>4

LEMMA RoutingStep ==
  ASSUME RoutingInv, [RoutingNext]_routingVars
  PROVE  RoutingInv'
<1>1. CASE \/ RefuseRequest \/ AskGoverned \/ AskGeneral \/ AskScenario \/ CheckRun
           \/ AskGraph \/ AskTabular \/ AskModel \/ AskPacket
  BY <1>1, AskSteps
<1>2. CASE JsonCall \/ TextCall \/ PlainCall \/ Check \/ RepairCall
  BY <1>2, DraftSteps
<1>3. CASE ModelAnswers
  BY <1>3, FinalSteps
<1>4. CASE Unreadable \/ ModelFails \/ GeneralCall
  BY <1>4, OtherSteps
<1>5. CASE UNCHANGED routingVars
  BY <1>5 DEF RoutingInv, Validated, NothingFound, VettedBeforeShown, Rejected,
              CitationErrors, routingVars
<1> QED
  BY <1>1, <1>2, <1>3, <1>4, <1>5 DEF RoutingNext

(* On no surface, in no mode and after no sequence of empty, malformed,     *)
(* failed and repaired provider calls is the model's text shown over a      *)
(* graph or tabular result, or as an answer that failed a validation        *)
(* (api.py data_qa, llm_qa.py answer_question).                             *)
THEOREM VettedBeforeShownHolds == RoutingSpec => []VettedBeforeShown
<1>1. RoutingInit => RoutingInv
  BY RoutingInitially
<1>2. RoutingInv /\ [RoutingNext]_routingVars => RoutingInv'
  BY RoutingStep
<1>3. RoutingInv => VettedBeforeShown
  BY DEF RoutingInv
<1> QED
  BY <1>1, <1>2, <1>3, PTL DEF RoutingSpec


----------------------------------------------------------------------------
(* ConversationState                                                        *)

Rows == [Persona -> [version : Nat, threads : SUBSET Message]]

OfPersona(r, threads) == {m \in threads : m.persona = r}

(* Who knows version v of row r, with these threads, knows all its messages *)
(* of persona r; who has saved or loaded it knows the row.                  *)
Knows(w, r, v, threads) ==
  /\ v <= w[r].version
  /\ v = w[r].version => OfPersona(r, w[r].threads) \subseteq threads

AsSaved(w, r, v, threads) ==
  v <= w[r].version /\ (v = w[r].version => w[r].threads = threads)

(* A save of a page, queued or in flight: its snapshot is of one persona,   *)
(* and the page still has it if its scope is the page's.                    *)
Fits(p, s) ==
  /\ s.opened <= p.opens
  /\ \A m \in s.threads : m.persona = s.from
  /\ p.scope # NoScope /\ s.opened = p.scope.opened =>
       /\ s.persona = p.scope.persona
       /\ s.from = s.persona => s.threads \subseteq p.threads

HasAllOf(t, s) ==
  s.opened = t.opened /\ s.from = s.persona /\ t.from = t.persona
    => s.threads \subseteq t.threads

ScopeInv(w, p) ==
  /\ p.of <= p.opens
  /\ p.scope # NoScope =>
       /\ p.scope.opened <= p.opens
       /\ p.of = p.scope.opened => Knows(w, p.scope.persona, p.version, p.threads)

ChainInv(w, p) ==
  \A i \in 1..Len(p.saves) :
    /\ Fits(p, p.saves[i])
    /\ p.scope # NoScope /\ p.of = p.scope.opened /\ p.saves[i].opened = p.of
         /\ p.saves[i].from = p.saves[i].persona
       => Knows(w, p.scope.persona, p.version, p.saves[i].threads)
    /\ \A j \in 1..Len(p.saves) : i < j => HasAllOf(p.saves[j], p.saves[i])
    /\ p.flight # NoScope => HasAllOf(p.saves[i], p.flight.save)

FlightInv(w, p) ==
  p.flight # NoScope =>
    /\ Fits(p, p.flight.save)
    /\ p.flight.answer = "none" /\ p.flight.of = p.flight.save.opened
         /\ p.flight.save.from = p.flight.save.persona
       => Knows(w, p.flight.save.persona, p.flight.version, p.flight.save.threads)
    /\ p.flight.answer = "saved" =>
         AsSaved(w, p.flight.save.persona, p.flight.version, p.flight.save.threads)

LoadInv(w, p) ==
  p.load # NoScope /\ p.load.answered =>
    AsSaved(w, p.load.persona, p.load.version, p.load.threads)

PageInv(w, p) == ScopeInv(w, p) /\ ChainInv(w, p) /\ FlightInv(w, p) /\ LoadInv(w, p)

(* The fields of a page.                                                    *)
LEMMA PageParts ==
  ASSUME NEW p \in Page
  PROVE  /\ p.active \in Persona /\ p.opens \in Nat /\ p.version \in Nat /\ p.of \in Nat
         /\ p.threads \subseteq Message /\ p.saves \in Seq(Save)
         /\ p.scope # NoScope =>
              /\ p.scope \in Scope /\ p.scope.persona \in Persona /\ p.scope.opened \in Nat
         /\ \A i \in 1..Len(p.saves) :
              /\ p.saves[i] \in Save /\ p.saves[i].persona \in Persona
              /\ p.saves[i].opened \in Nat
         /\ p.flight # NoScope =>
              /\ p.flight \in Flight /\ p.flight.save \in Save
              /\ p.flight.save.persona \in Persona /\ p.flight.save.opened \in Nat
              /\ p.flight.version \in Nat /\ p.flight.of \in Nat
         /\ p.load # NoScope =>
              /\ p.load \in Load /\ p.load.persona \in Persona /\ p.load.version \in Nat
<1>1. p.saves \in Seq(Save)
  BY DEF Page
<1>2. \A i \in 1..Len(p.saves) : p.saves[i] \in Save
  BY <1>1
<1> QED
  BY <1>1, <1>2 DEF Page, Scope, Flight, Load, Save

(* A row that is replaced gets a version nobody knows yet.                  *)
LEMMA RowReplaced ==
  ASSUME NEW w \in Rows, NEW x \in Rows,
         \A q \in Persona : x[q] = w[q] \/ x[q].version = w[q].version + 1,
         NEW p \in Page, PageInv(w, p)
  PROVE  PageInv(x, p)
<1>1. \A q \in Persona : \/ x[q] = w[q]
                         \/ x[q].version = w[q].version + 1 /\ w[q].version \in Nat
  BY DEF Rows
<1>2. ASSUME NEW q \in Persona, NEW v \in Nat, NEW S
      PROVE  /\ Knows(w, q, v, S) => Knows(x, q, v, S)
             /\ AsSaved(w, q, v, S) => AsSaved(x, q, v, S)
  BY <1>1 DEF Knows, AsSaved
<1>3. ScopeInv(x, p)
  BY <1>2, PageParts DEF PageInv, ScopeInv
<1>4. ChainInv(x, p)
  BY <1>2, PageParts DEF PageInv, ChainInv
<1>5. FlightInv(x, p)
  BY <1>2, PageParts DEF PageInv, FlightInv
<1>6. LoadInv(x, p)
  BY <1>2, PageParts DEF PageInv, LoadInv
<1> QED
  BY <1>3, <1>4, <1>5, <1>6 DEF PageInv

(* A page that learns messages, changes its persona or its load.            *)
LEMMA PageGrows ==
  ASSUME NEW w \in Rows, NEW p \in Page, NEW q \in Page, PageInv(w, p),
         q.opens = p.opens, q.scope = p.scope, q.version = p.version, q.of = p.of,
         q.saves = p.saves, q.flight = p.flight, p.threads \subseteq q.threads,
         LoadInv(w, q)
  PROVE  PageInv(w, q)
<1>1. ScopeInv(w, q)
  BY DEF PageInv, ScopeInv, Knows
<1>2. ASSUME NEW s, Fits(p, s) PROVE Fits(q, s)
  BY <1>2 DEF Fits
<1>3. ChainInv(w, q)
  BY <1>2 DEF PageInv, ChainInv
<1>4. FlightInv(w, q)
  BY <1>2 DEF PageInv, FlightInv
<1> QED
  BY <1>1, <1>3, <1>4 DEF PageInv

(* saveStoredThreads.                                                       *)
LEMMA SnapshotQueued ==
  ASSUME NEW w \in Rows, NEW p \in Page, PageInv(w, p)
  PROVE  saveStoredThreads(p) \in Page /\ PageInv(w, saveStoredThreads(p))
<1> DEFINE s == [persona |-> p.scope.persona, opened |-> p.scope.opened,
                 from |-> p.active, threads |-> Snapshot(p)]
           q == [p EXCEPT !.scope.queued = Snapshot(p), !.saves = Append(@, s)]
<1>1. CASE ~SaveDue(p)
  BY <1>1 DEF saveStoredThreads
<1>2. CASE SaveDue(p)
  <2>1. p.scope # NoScope /\ saveStoredThreads(p) = q
    BY <1>2 DEF SaveDue, saveStoredThreads
  <2>2. Snapshot(p) \subseteq Message /\ Snapshot(p) = OfPersona(p.active, p.threads)
    BY PageParts DEF Snapshot, OfPersona
  <2>3. /\ s \in Save /\ s.persona = p.scope.persona /\ s.opened = p.scope.opened
        /\ s.from = p.active /\ s.threads = Snapshot(p)
    BY <2>1, <2>2, PageParts DEF Save
  <2> HIDE DEF s
  <2>4. Append(p.saves, s) \in Seq(Save)
    BY <2>3, PageParts
  <2>5. [p.scope EXCEPT !.queued = Snapshot(p)] \in Scope
    BY <2>1, <2>2, PageParts DEF Scope
  <2>6. /\ q \in Page /\ q.opens = p.opens /\ q.version = p.version /\ q.of = p.of
        /\ q.threads = p.threads /\ q.flight = p.flight /\ q.load = p.load
        /\ q.saves = Append(p.saves, s)
        /\ q.scope = [p.scope EXCEPT !.queued = Snapshot(p)]
    BY <2>4, <2>5 DEF Page
  <2>7. q.scope.opened = p.scope.opened /\ q.scope.persona = p.scope.persona
    BY <2>1, <2>6, PageParts DEF Scope
  <2> HIDE DEF q
  <2>8. ScopeInv(w, q) /\ LoadInv(w, q)
    BY <2>1, <2>6, <2>7 DEF PageInv, ScopeInv, LoadInv
  <2>9. ASSUME NEW t, Fits(p, t) PROVE Fits(q, t)
    BY <2>1, <2>6, <2>7, <2>9 DEF Fits
  <2>10. FlightInv(w, q)
    BY <2>6, <2>9 DEF PageInv, FlightInv
  <2>11. Fits(q, s)
    BY <2>1, <2>2, <2>3, <2>6, <2>7 DEF Fits, PageInv, ScopeInv, OfPersona
  <2>12. ASSUME NEW t, Fits(p, t), t.opened = s.opened PROVE HasAllOf(s, t)
    BY <2>1, <2>2, <2>3, <2>12 DEF Fits, HasAllOf, OfPersona
  <2>13. p.of = p.scope.opened /\ s.from = s.persona =>
           Knows(w, p.scope.persona, p.version, s.threads)
    BY <2>1, <2>2, <2>3 DEF PageInv, ScopeInv, Knows, OfPersona
  <2>14. /\ Len(q.saves) = Len(p.saves) + 1 /\ Len(p.saves) \in Nat
         /\ \A i \in 1..Len(p.saves) : q.saves[i] = p.saves[i]
         /\ q.saves[Len(p.saves) + 1] = s
    BY <2>3, <2>6, PageParts
  <2>15. ChainInv(w, q)
    <3> SUFFICES ASSUME NEW i \in 1..Len(q.saves)
                 PROVE  /\ Fits(q, q.saves[i])
                        /\ q.scope # NoScope /\ q.of = q.scope.opened
                             /\ q.saves[i].opened = q.of
                             /\ q.saves[i].from = q.saves[i].persona
                           => Knows(w, q.scope.persona, q.version, q.saves[i].threads)
                        /\ \A j \in 1..Len(q.saves) :
                             i < j => HasAllOf(q.saves[j], q.saves[i])
                        /\ q.flight # NoScope => HasAllOf(q.saves[i], q.flight.save)
      BY DEF ChainInv
    <3>1. CASE i \in 1..Len(p.saves)
      <4>1. q.saves[i] = p.saves[i] /\ Fits(p, p.saves[i])
        BY <2>14, <3>1 DEF PageInv, ChainInv
      <4>2. \A j \in 1..Len(q.saves) : i < j => HasAllOf(q.saves[j], q.saves[i])
        <5>1. HasAllOf(s, p.saves[i])
          BY <4>1, <2>12 DEF HasAllOf
        <5> QED
          BY <2>14, <3>1, <4>1, <5>1 DEF PageInv, ChainInv
      <4> QED
        BY <2>1, <2>6, <2>7, <2>9, <3>1, <4>1, <4>2 DEF PageInv, ChainInv
    <3>2. CASE i = Len(p.saves) + 1
      <4>1. p.flight # NoScope => HasAllOf(s, p.flight.save)
        BY <2>12 DEF PageInv, FlightInv, HasAllOf
      <4> QED
        BY <2>3, <2>6, <2>7, <2>11, <2>13, <2>14, <3>2, <4>1
    <3> QED
      BY <2>14, <3>1, <3>2
  <2> QED
    BY <2>1, <2>6, <2>8, <2>10, <2>15 DEF PageInv
<1> QED
  BY <1>1, <1>2

(* The first save of the chain is sent, with the version of the page, or    *)
(* dropped.                                                                 *)
LEMMA SaveSent ==
  ASSUME NEW w \in Rows, NEW p \in Page, NEW q \in Page, PageInv(w, p),
         p.saves # <<>>, p.flight = NoScope,
         q.opens = p.opens, q.scope = p.scope, q.version = p.version, q.of = p.of,
         q.threads = p.threads, q.load = p.load, q.saves = Tail(p.saves),
         q.flight # NoScope =>
           /\ IsScope(p, Head(p.saves)) /\ q.flight.save = Head(p.saves)
           /\ q.flight.version = p.version /\ q.flight.of = p.of
           /\ q.flight.answer = "none"
  PROVE  PageInv(w, q)
<1> DEFINE n == Len(p.saves)
<1>1. /\ n \in Nat /\ n >= 1 /\ Head(p.saves) = p.saves[1] /\ Len(q.saves) = n - 1
      /\ \A i \in 1..(n - 1) : q.saves[i] = p.saves[i + 1] /\ i + 1 \in 1..n
  BY PageParts
<1> HIDE DEF n
<1>2. ScopeInv(w, q) /\ LoadInv(w, q)
  BY DEF PageInv, ScopeInv, LoadInv
<1>3. ASSUME NEW s PROVE Fits(p, s) <=> Fits(q, s)
  BY DEF Fits
<1>4. ASSUME NEW i \in 1..n
      PROVE  /\ Fits(p, p.saves[i])
             /\ p.scope # NoScope /\ p.of = p.scope.opened /\ p.saves[i].opened = p.of
                  /\ p.saves[i].from = p.saves[i].persona
                => Knows(w, p.scope.persona, p.version, p.saves[i].threads)
             /\ \A j \in 1..n : i < j => HasAllOf(p.saves[j], p.saves[i])
  BY DEF PageInv, ChainInv, n
<1>5. FlightInv(w, q)
  <2>1. 1 \in 1..n
    BY <1>1
  <2>2. q.flight # NoScope => Fits(q, q.flight.save)
    BY <1>1, <1>3, <1>4, <2>1
  <2>3. q.flight # NoScope /\ q.flight.of = q.flight.save.opened
          /\ q.flight.save.from = q.flight.save.persona
          => Knows(w, q.flight.save.persona, q.flight.version, q.flight.save.threads)
    BY <1>1, <1>4, <2>1 DEF IsScope, Fits
  <2> QED
    BY <2>2, <2>3 DEF FlightInv
<1>6. ChainInv(w, q)
  <2> SUFFICES ASSUME NEW i \in 1..(n - 1)
               PROVE  /\ Fits(q, q.saves[i])
                      /\ q.scope # NoScope /\ q.of = q.scope.opened
                           /\ q.saves[i].opened = q.of
                           /\ q.saves[i].from = q.saves[i].persona
                         => Knows(w, q.scope.persona, q.version, q.saves[i].threads)
                      /\ \A j \in 1..(n - 1) : i < j => HasAllOf(q.saves[j], q.saves[i])
                      /\ q.flight # NoScope => HasAllOf(q.saves[i], q.flight.save)
    BY <1>1 DEF ChainInv
  <2>1. q.saves[i] = p.saves[i + 1] /\ i + 1 \in 1..n /\ 1 \in 1..n /\ 1 < i + 1
    BY <1>1
  <2>2. Fits(q, q.saves[i])
    BY <1>3, <1>4, <2>1
  <2>3. \A j \in 1..(n - 1) : i < j => HasAllOf(q.saves[j], q.saves[i])
    <3> TAKE j \in 1..(n - 1)
    <3>1. q.saves[j] = p.saves[j + 1] /\ j + 1 \in 1..n /\ (i < j => i + 1 < j + 1)
      BY <1>1
    <3> QED
      BY <1>4, <2>1, <3>1
  <2>4. q.flight # NoScope => HasAllOf(q.saves[i], q.flight.save)
    BY <1>1, <1>4, <2>1
  <2> QED
    BY <1>4, <2>1, <2>2, <2>3, <2>4
<1> QED
  BY <1>2, <1>5, <1>6 DEF PageInv

(* The answer to a save comes, or none.                                     *)
LEMMA FlightMoves ==
  ASSUME NEW w \in Rows, NEW p \in Page, NEW q \in Page, PageInv(w, p),
         q.opens = p.opens, q.scope = p.scope, q.version = p.version, q.of = p.of,
         q.threads = p.threads, q.load = p.load, q.saves = p.saves,
         p.flight # NoScope, q.flight.save = p.flight.save,
         q.flight.answer # "none",
         q.flight.answer = "saved" =>
           AsSaved(w, p.flight.save.persona, q.flight.version, p.flight.save.threads)
  PROVE  PageInv(w, q)
<1>1. ScopeInv(w, q) /\ LoadInv(w, q)
  BY DEF PageInv, ScopeInv, LoadInv
<1>2. ASSUME NEW s PROVE Fits(p, s) <=> Fits(q, s)
  BY DEF Fits
<1>3. FlightInv(w, q)
  BY <1>2 DEF PageInv, FlightInv
<1>4. ChainInv(w, q)
  BY <1>2 DEF PageInv, ChainInv
<1> QED
  BY <1>1, <1>3, <1>4 DEF PageInv

(* A save is refused or its answer lost.                                    *)
LEMMA SaveDropped ==
  ASSUME NEW w \in Rows, NEW p \in Page, NEW q \in Page, PageInv(w, p),
         q.opens = p.opens, q.version = p.version, q.of = p.of,
         q.threads = p.threads, q.load = p.load, q.saves = p.saves,
         q.flight = NoScope, q.scope # NoScope => p.scope # NoScope,
         q.scope # NoScope =>
           q.scope.opened = p.scope.opened /\ q.scope.persona = p.scope.persona
  PROVE  PageInv(w, q)
<1>1. ScopeInv(w, q) /\ LoadInv(w, q) /\ FlightInv(w, q)
  BY DEF PageInv, ScopeInv, LoadInv, FlightInv
<1>2. ASSUME NEW s, Fits(p, s) PROVE Fits(q, s)
  BY <1>2 DEF Fits
<1>3. ChainInv(w, q)
  BY <1>2 DEF PageInv, ChainInv
<1> QED
  BY <1>1, <1>3 DEF PageInv

(* The row is as the page saved it, so whatever the page saves next has it. *)
LEMMA SaveKept ==
  ASSUME NEW w \in Rows, NEW p \in Page, NEW q \in Page, PageInv(w, p),
         p.flight # NoScope, p.flight.answer = "saved",
         q.opens = p.opens, q.version = p.flight.version, q.of = p.flight.save.opened,
         q.threads = p.threads, q.load = p.load, q.saves = p.saves,
         q.flight = NoScope, q.scope # NoScope => p.scope # NoScope,
         q.scope # NoScope =>
           q.scope.opened = p.scope.opened /\ q.scope.persona = p.scope.persona
  PROVE  PageInv(w, q)
<1> DEFINE s == p.flight.save
<1>1. /\ AsSaved(w, s.persona, q.version, s.threads) /\ Fits(p, s)
      /\ q.of = s.opened
  BY DEF PageInv, FlightInv
<1> HIDE DEF s
<1>2. ASSUME p.scope # NoScope, s.opened = p.scope.opened,
             NEW T, s.from = s.persona => s.threads \subseteq T
      PROVE  Knows(w, p.scope.persona, q.version, T)
  BY <1>1, <1>2 DEF AsSaved, Knows, Fits, OfPersona
<1>3. ScopeInv(w, q)
  <2>1. s.opened <= p.opens
    BY <1>1 DEF Fits
  <2>2. p.scope # NoScope /\ s.opened = p.scope.opened =>
          Knows(w, p.scope.persona, q.version, p.threads)
    <3>1. p.scope # NoScope /\ s.opened = p.scope.opened =>
            (s.from = s.persona => s.threads \subseteq p.threads)
      BY <1>1 DEF Fits
    <3> QED
      BY <1>2, <3>1
  <2> QED
    BY <1>1, <2>1, <2>2 DEF PageInv, ScopeInv
<1>4. LoadInv(w, q) /\ FlightInv(w, q)
  BY DEF PageInv, LoadInv, FlightInv
<1>5. ASSUME NEW t, Fits(p, t) PROVE Fits(q, t)
  BY <1>5 DEF Fits
<1>6. ChainInv(w, q)
  <2> SUFFICES ASSUME NEW i \in 1..Len(p.saves)
               PROVE  /\ Fits(q, p.saves[i])
                      /\ q.scope # NoScope /\ q.of = q.scope.opened
                           /\ p.saves[i].opened = q.of
                           /\ p.saves[i].from = p.saves[i].persona
                         => Knows(w, q.scope.persona, q.version, p.saves[i].threads)
                      /\ \A j \in 1..Len(p.saves) :
                           i < j => HasAllOf(p.saves[j], p.saves[i])
    BY DEF ChainInv
  <2>1. HasAllOf(p.saves[i], s) /\ Fits(p, p.saves[i])
    BY DEF PageInv, ChainInv, s
  <2>2. q.scope # NoScope /\ q.of = q.scope.opened /\ p.saves[i].opened = q.of
          /\ p.saves[i].from = p.saves[i].persona
        => Knows(w, q.scope.persona, q.version, p.saves[i].threads)
    <3> SUFFICES ASSUME q.scope # NoScope, q.of = q.scope.opened,
                        p.saves[i].opened = q.of, p.saves[i].from = p.saves[i].persona
                 PROVE  Knows(w, q.scope.persona, q.version, p.saves[i].threads)
      OBVIOUS
    <3>1. s.from = s.persona => s.threads \subseteq p.saves[i].threads
      BY <1>1, <2>1 DEF HasAllOf
    <3> QED
      BY <1>1, <1>2, <3>1
  <2> QED
    BY <1>5, <2>1, <2>2 DEF PageInv, ChainInv
<1> QED
  BY <1>3, <1>4, <1>6 DEF PageInv

(* A workspace is opened: the saves of the scope before it are behind.      *)
LEMMA ScopeOpened ==
  ASSUME NEW w \in Rows, NEW p \in Page, NEW q \in Page, PageInv(w, p),
         p.load # NoScope, p.load.answered,
         q.opens = p.opens + 1, q.version = p.load.version, q.of = p.opens + 1,
         p.load.threads \subseteq q.threads, q.load = NoScope, q.saves = p.saves,
         q.flight = p.flight,
         q.scope.opened = p.opens + 1, q.scope.persona = p.load.persona
  PROVE  PageInv(w, q)
<1>1. p.opens \in Nat
  BY PageParts
<1>2. AsSaved(w, p.load.persona, p.load.version, p.load.threads)
  BY DEF PageInv, LoadInv
<1>3. ScopeInv(w, q) /\ LoadInv(w, q)
  BY <1>1, <1>2 DEF ScopeInv, LoadInv, AsSaved, Knows, OfPersona
<1>4. ASSUME NEW s, s.opened \in Nat, Fits(p, s)
      PROVE  Fits(q, s) /\ s.opened # p.opens + 1
  BY <1>1, <1>4 DEF Fits
<1>5. FlightInv(w, q)
  BY <1>4, PageParts DEF PageInv, FlightInv
<1>6. ChainInv(w, q)
  BY <1>4, PageParts DEF PageInv, ChainInv
<1> QED
  BY <1>3, <1>5, <1>6 DEF PageInv

(* The inductive invariant of the workspace.                                *)
WorkspaceInv == WorkspaceTypeOK /\ \A d \in Device : PageInv(workspace, page[d])

(* Every page has nothing and knows nothing.                                *)
LEMMA WorkspaceInitially == WorkspaceInit => WorkspaceInv
<1> SUFFICES ASSUME WorkspaceInit PROVE WorkspaceInv
  OBVIOUS
<1>1. PICK r \in Persona : page = [d \in Device |-> NewPage(r)]
  BY DEF WorkspaceInit
<1>2. NewPage(r) \in Page
  BY DEF NewPage, Page
<1>3. PageInv(workspace, NewPage(r))
  BY DEF NewPage, PageInv, ScopeInv, ChainInv, FlightInv, LoadInv
<1>4. IsFiniteSet({})
  BY FS_EmptySet
<1> QED
  BY <1>1, <1>2, <1>3, <1>4 DEF WorkspaceInit, WorkspaceInv, WorkspaceTypeOK

(* One page moves; messages may be new.                                     *)
LEMMA PageStep ==
  ASSUME WorkspaceInv, NEW d \in Device, NEW q \in Page,
         page' = [page EXCEPT ![d] = q], workspace' = workspace,
         typed' \subseteq Message, IsFiniteSet(typed'),
         PageInv(workspace, q)
  PROVE  WorkspaceInv'
<1>1. page' \in [Device -> Page]
  BY DEF WorkspaceInv, WorkspaceTypeOK
<1>2. \A e \in Device : page'[e] = IF e = d THEN q ELSE page[e]
  BY DEF WorkspaceInv, WorkspaceTypeOK
<1>3. \A e \in Device : PageInv(workspace', page'[e])
  BY <1>2 DEF WorkspaceInv
<1>4. WorkspaceTypeOK'
  BY <1>1 DEF WorkspaceInv, WorkspaceTypeOK
<1> QED
  BY <1>3, <1>4 DEF WorkspaceInv

(* A callback that ends with a save.                                        *)
LEMMA UpdateStep ==
  ASSUME WorkspaceInv, NEW d \in Device, NEW q \in Page, PageInv(workspace, q),
         Update(d, q), workspace' = workspace,
         typed' \subseteq Message, IsFiniteSet(typed')
  PROVE  WorkspaceInv'
<1>1. workspace \in Rows
  BY DEF WorkspaceInv, WorkspaceTypeOK, Rows
<1>2. saveStoredThreads(q) \in Page /\ PageInv(workspace, saveStoredThreads(q))
  BY <1>1, SnapshotQueued
<1> QED
  BY <1>2, PageStep DEF Update

(* A message that is new is one more.                                       *)
LEMMA MessageTyped ==
  ASSUME WorkspaceInv, NEW r \in Persona
  PROVE  /\ NewMessage(r) \in Message
         /\ typed \cup {NewMessage(r)} \subseteq Message
         /\ IsFiniteSet(typed \cup {NewMessage(r)})
<1>1. IsFiniteSet(typed) /\ Cardinality(typed) \in Nat
  BY FS_CardinalityType DEF WorkspaceInv, WorkspaceTypeOK
<1>2. NewMessage(r) \in Message
  BY <1>1 DEF NewMessage, Message
<1> QED
  BY <1>1, <1>2, FS_AddElement DEF WorkspaceInv, WorkspaceTypeOK

(* Typing, answers, personas and renderings.                                *)
LEMMA EditSteps ==
  ASSUME WorkspaceInv, NEW d \in Device,
         \/ askAssistant(d) \/ AssistantAnswers(d) \/ Render(d)
         \/ \E r \in Persona : SwitchPersona(d, r)
  PROVE  WorkspaceInv'
<1> DEFINE p == page[d]
<1>1. /\ p \in Page /\ PageInv(workspace, p) /\ workspace \in Rows
      /\ typed \subseteq Message /\ IsFiniteSet(typed)
  BY DEF WorkspaceInv, WorkspaceTypeOK, Rows
<1>2. LoadInv(workspace, p)
  BY <1>1 DEF PageInv
<1>3. ASSUME NEW T \in SUBSET Message, p.threads \subseteq T,
             NEW a \in Persona \cup {NoScope}
      PROVE  /\ [p EXCEPT !.threads = T, !.asked = a] \in Page
             /\ PageInv(workspace, [p EXCEPT !.threads = T, !.asked = a])
  <2> DEFINE q == [p EXCEPT !.threads = T, !.asked = a]
  <2>1. /\ q \in Page /\ q.threads = T
        /\ q.opens = p.opens /\ q.scope = p.scope /\ q.version = p.version /\ q.of = p.of
        /\ q.saves = p.saves /\ q.flight = p.flight /\ q.load = p.load
    BY <1>1, <1>3 DEF Page
  <2> HIDE DEF q, p
  <2>2. LoadInv(workspace, q)
    BY <1>2, <2>1 DEF LoadInv
  <2>3. PageInv(workspace, q)
    BY <1>1, <1>3, <2>1, <2>2, PageGrows
  <2> QED
    BY <2>1, <2>3 DEF q
<1>4. p.threads \subseteq Message /\ p.active \in Persona
  BY <1>1, PageParts
<1>5. CASE askAssistant(d)
  <2> DEFINE m == NewMessage(p.active)
  <2>1. m \in Message /\ typed \cup {m} \subseteq Message /\ IsFiniteSet(typed \cup {m})
    BY <1>4, MessageTyped
  <2>2. /\ Update(d, [p EXCEPT !.threads = p.threads \cup {m}, !.asked = p.active])
        /\ workspace' = workspace /\ typed' = typed \cup {m}
    BY <1>5 DEF askAssistant
  <2> HIDE DEF m, p
  <2> QED
    BY <1>3, <1>4, <2>1, <2>2, UpdateStep
<1>6. CASE AssistantAnswers(d)
  <2> DEFINE m == NewMessage(p.asked)
  <2>1. p.asked # NoScope => p.asked \in Persona
    BY <1>1 DEF Page
  <2>2. CASE \E x \in p.threads : x.persona = p.asked
    <3>1. /\ Update(d, [p EXCEPT !.threads = p.threads \cup {m}, !.asked = NoScope])
          /\ workspace' = workspace /\ typed' = typed \cup {m} /\ p.asked # NoScope
      BY <1>6, <2>2 DEF AssistantAnswers
    <3>2. m \in Message /\ typed \cup {m} \subseteq Message /\ IsFiniteSet(typed \cup {m})
      BY <2>1, <3>1, MessageTyped
    <3> HIDE DEF m, p
    <3> QED
      BY <1>3, <1>4, <3>1, <3>2, UpdateStep
  <2>3. CASE ~\E x \in p.threads : x.persona = p.asked
    <3>1. /\ Update(d, [p EXCEPT !.asked = NoScope])
          /\ workspace' = workspace /\ typed' = typed
      BY <1>6, <2>3 DEF AssistantAnswers
    <3>2. [p EXCEPT !.asked = NoScope] = [p EXCEPT !.threads = p.threads, !.asked = NoScope]
      BY <1>1 DEF Page
    <3> HIDE DEF p
    <3> QED
      BY <1>1, <1>3, <1>4, <3>1, <3>2, UpdateStep
  <2> QED
    BY <2>2, <2>3
<1>7. CASE Render(d)
  BY <1>1, <1>7, UpdateStep DEF Render
<1>8. ASSUME NEW r \in Persona, SwitchPersona(d, r) PROVE WorkspaceInv'
  <2> DEFINE q == [p EXCEPT !.active = r, !.switches = p.switches + 1]
  <2>0. p.switches + 1 \in Nat
    BY <1>1 DEF Page
  <2>1. /\ q \in Page /\ q.threads = p.threads
        /\ q.opens = p.opens /\ q.scope = p.scope /\ q.version = p.version /\ q.of = p.of
        /\ q.saves = p.saves /\ q.flight = p.flight /\ q.load = p.load
    <3> DEFINE n == p.switches + 1
    <3> HIDE DEF n, p
    <3> QED
      BY <1>1, <2>0 DEF Page, n
  <2>2. /\ page' = [page EXCEPT ![d] = q] /\ workspace' = workspace /\ typed' = typed
    BY <1>8 DEF SwitchPersona, WorkspaceInv, WorkspaceTypeOK
  <2> HIDE DEF q, p
  <2>3. LoadInv(workspace, q)
    BY <1>2, <2>1 DEF LoadInv
  <2> QED
    BY <1>1, <2>1, <2>2, <2>3, PageGrows, PageStep
<1> QED
  BY <1>5, <1>6, <1>7, <1>8

(* The chain of saves.                                                      *)
LEMMA SendStep ==
  ASSUME WorkspaceInv, NEW d \in Device, SendSave(d)
  PROVE  WorkspaceInv'
<1> DEFINE p == page[d]
           s == Head(p.saves)
           f == IF IsScope(p, s) /\ ~p.conflict
                THEN [save |-> s, version |-> p.version, of |-> p.of, answer |-> "none"]
                ELSE NoScope
           q == [p EXCEPT !.saves = Tail(@), !.flight = f]
<1>1. /\ p \in Page /\ PageInv(workspace, p) /\ workspace \in Rows
      /\ typed \subseteq Message /\ IsFiniteSet(typed)
  BY DEF WorkspaceInv, WorkspaceTypeOK, Rows
<1>2. /\ p.saves # <<>> /\ p.flight = NoScope
      /\ workspace' = workspace /\ typed' = typed
      /\ page' = [page EXCEPT ![d] = q]
  BY DEF SendSave, WorkspaceInv, WorkspaceTypeOK
<1>3. Tail(p.saves) \in Seq(Save) /\ s \in Save
  BY <1>1, <1>2, PageParts
<1>4. f # NoScope => /\ IsScope(p, s) /\ f.save = s /\ f.version = p.version
                     /\ f.of = p.of /\ f.answer = "none"
  BY DEF f
<1>5. f \in Flight \cup {NoScope}
  BY <1>1, <1>3, PageParts DEF Flight
<1> HIDE DEF f
<1>6. /\ q \in Page /\ q.opens = p.opens /\ q.scope = p.scope /\ q.version = p.version
      /\ q.of = p.of /\ q.threads = p.threads /\ q.load = p.load
      /\ q.saves = Tail(p.saves) /\ q.flight = f
  BY <1>1, <1>3, <1>5 DEF Page
<1> HIDE DEF q, p
<1>7. PageInv(workspace, q)
  BY <1>1, <1>2, <1>4, <1>6, SaveSent DEF s
<1> QED
  BY <1>1, <1>2, <1>6, <1>7, PageStep

(* The compare-and-set: the row is replaced or the save is refused.         *)
LEMMA ServeStep ==
  ASSUME WorkspaceInv, NEW d \in Device, ServeSave(d)
  PROVE  WorkspaceInv'
<1> DEFINE p == page[d]
           f == p.flight
           r == f.save.persona
           row == workspace[r]
<1>1. /\ p \in Page /\ PageInv(workspace, p) /\ workspace \in Rows
      /\ typed' \subseteq Message /\ IsFiniteSet(typed') /\ f # NoScope
  BY DEF WorkspaceInv, WorkspaceTypeOK, Rows, ServeSave
<1>2. /\ f \in Flight /\ f.save \in Save /\ r \in Persona /\ f.version \in Nat
      /\ f.save.threads \in SUBSET Message /\ row.version \in Nat
  BY <1>1, PageParts DEF Save, Rows
<1>3. ASSUME NEW g \in Flight, g.save = f.save
      PROVE  LET q == [p EXCEPT !.flight = g] IN
             /\ q \in Page /\ q.opens = p.opens /\ q.scope = p.scope
             /\ q.version = p.version /\ q.of = p.of /\ q.threads = p.threads
             /\ q.load = p.load /\ q.saves = p.saves /\ q.flight = g
  BY <1>1 DEF Page
<1>4. CASE row.version = f.version
  <2> DEFINE v == row.version + 1
             x == [workspace EXCEPT ![r] = [version |-> v, threads |-> f.save.threads]]
             g == [f EXCEPT !.answer = "saved", !.version = v]
             q == [p EXCEPT !.flight = g]
  <2>0. v \in Nat /\ v = workspace[r].version + 1
    BY <1>2
  <2>1. workspace' = x /\ page' = [page EXCEPT ![d] = q]
    <3>1. /\ workspace' = x
          /\ page' = [page EXCEPT ![d].flight.answer = "saved", ![d].flight.version = v]
      BY <1>4 DEF ServeSave
    <3>2. page \in [Device -> Page]
      BY DEF WorkspaceInv, WorkspaceTypeOK
    <3> HIDE DEF v
    <3>3. page' = [page EXCEPT ![d] = q]
      BY <1>1, <1>2, <3>1, <3>2 DEF Page, Flight
    <3> QED
      BY <3>1, <3>3
  <2>2. x \in Rows /\ x[r].version = v /\ x[r].threads = f.save.threads
    <3> HIDE DEF v, f
    <3> QED
      BY <1>1, <1>2, <2>0 DEF Rows
  <2>3. /\ g \in Flight /\ g.save = f.save /\ g.answer = "saved" /\ g.version = v
    <3> HIDE DEF v, f
    <3> QED
      BY <1>2, <2>0 DEF Flight
  <2>4. \A e \in Device : PageInv(x, page[e])
    <3> TAKE e \in Device
    <3>1. page[e] \in Page /\ PageInv(workspace, page[e])
      BY DEF WorkspaceInv, WorkspaceTypeOK
    <3>2. \A o \in Persona : \/ x[o] = workspace[o]
                              \/ x[o].version = workspace[o].version + 1
      <4> HIDE DEF v, f
      <4> QED
        BY <1>1, <2>0 DEF Rows
    <3> HIDE DEF x
    <3> QED
      BY <1>1, <2>2, <3>1, <3>2, RowReplaced
  <2> HIDE DEF g, x
  <2>5. /\ q \in Page /\ q.opens = p.opens /\ q.scope = p.scope
        /\ q.version = p.version /\ q.of = p.of /\ q.threads = p.threads
        /\ q.load = p.load /\ q.saves = p.saves /\ q.flight = g
    BY <1>3, <2>3
  <2>6. AsSaved(x, r, g.version, f.save.threads)
    BY <1>2, <2>2, <2>3 DEF AsSaved
  <2> HIDE DEF q
  <2>7. PageInv(x, q)
    <3> HIDE DEF p
    <3> QED
      BY <1>1, <2>2, <2>3, <2>4, <2>5, <2>6, FlightMoves DEF p
  <2>8. \A e \in Device : page'[e] = IF e = d THEN q ELSE page[e]
    BY <2>1 DEF WorkspaceInv, WorkspaceTypeOK
  <2>9. page' \in [Device -> Page]
    BY <2>1, <2>5 DEF WorkspaceInv, WorkspaceTypeOK
  <2> QED
    BY <1>1, <2>1, <2>2, <2>4, <2>7, <2>8, <2>9 DEF WorkspaceInv, WorkspaceTypeOK, Rows
<1>5. CASE row.version # f.version
  <2> DEFINE g == [f EXCEPT !.answer = "conflict"]
             q == [p EXCEPT !.flight = g]
  <2>1. workspace' = workspace /\ typed' = typed /\ page' = [page EXCEPT ![d] = q]
    BY <1>5 DEF ServeSave, WorkspaceInv, WorkspaceTypeOK
  <2>2. g \in Flight /\ g.save = f.save /\ g.answer = "conflict"
    BY <1>2 DEF Flight
  <2> HIDE DEF g
  <2>3. /\ q \in Page /\ q.opens = p.opens /\ q.scope = p.scope
        /\ q.version = p.version /\ q.of = p.of /\ q.threads = p.threads
        /\ q.load = p.load /\ q.saves = p.saves /\ q.flight = g
    BY <1>3, <2>2
  <2> HIDE DEF q
  <2>4. PageInv(workspace, q)
    BY <1>1, <2>2, <2>3, FlightMoves
  <2> QED
    BY <1>1, <2>1, <2>3, <2>4, PageStep
<1> QED
  BY <1>4, <1>5

(* The answer to a save, or none.                                           *)
LEMMA AnswerStep ==
  ASSUME WorkspaceInv, NEW d \in Device, SaveAnswered(d) \/ SaveFailed(d)
  PROVE  WorkspaceInv'
<1> DEFINE p == page[d]
           f == p.flight
<1>1. /\ p \in Page /\ PageInv(workspace, p) /\ workspace \in Rows
      /\ typed \subseteq Message /\ IsFiniteSet(typed) /\ f # NoScope
      /\ workspace' = workspace /\ typed' = typed
  BY DEF WorkspaceInv, WorkspaceTypeOK, Rows, SaveAnswered, SaveFailed
<1>2. /\ f \in Flight /\ f.save \in Save /\ f.version \in Nat /\ f.save.opened \in Nat
      /\ f.save.threads \in SUBSET Message
  BY <1>1, PageParts DEF Save
<1>3. CASE SaveAnswered(d)
  <2> DEFINE q == [p EXCEPT !.flight = NoScope, !.version = f.version, !.of = f.save.opened]
             u == IF IsScope(p, f.save) THEN [q EXCEPT !.scope.saved = f.save.threads] ELSE q
  <2>1. f.answer = "saved" /\ page' = [page EXCEPT ![d] = u]
    BY <1>3 DEF SaveAnswered
  <2>2. /\ q \in Page /\ q.opens = p.opens /\ q.scope = p.scope /\ q.version = f.version
        /\ q.of = f.save.opened /\ q.threads = p.threads /\ q.load = p.load
        /\ q.saves = p.saves /\ q.flight = NoScope
    BY <1>1, <1>2 DEF Page
  <2> HIDE DEF q
  <2>3. /\ u \in Page /\ u.opens = p.opens /\ u.version = f.version
        /\ u.of = f.save.opened /\ u.threads = p.threads /\ u.load = p.load
        /\ u.saves = p.saves /\ u.flight = NoScope
        /\ u.scope # NoScope => p.scope # NoScope
        /\ u.scope # NoScope =>
             u.scope.opened = p.scope.opened /\ u.scope.persona = p.scope.persona
    <3>1. CASE IsScope(p, f.save)
      <4>1. p.scope \in Scope
        BY <1>1, <3>1, PageParts DEF IsScope
      <4>2. [p.scope EXCEPT !.saved = f.save.threads] \in Scope
        BY <1>2, <4>1 DEF Scope
      <4>3. u.scope = [p.scope EXCEPT !.saved = f.save.threads]
        BY <2>2, <3>1 DEF Page
      <4> QED
        BY <2>2, <3>1, <4>1, <4>2, <4>3 DEF Page, Scope, IsScope
    <3>2. CASE ~IsScope(p, f.save)
      BY <2>2, <3>2
    <3> QED
      BY <3>1, <3>2
  <2> HIDE DEF u
  <2>4. PageInv(workspace, u)
    BY <1>1, <2>1, <2>3, SaveKept
  <2> QED
    BY <1>1, <2>1, <2>3, <2>4, PageStep
<1>4. CASE SaveFailed(d)
  <2> DEFINE q == [p EXCEPT !.flight = NoScope, !.conflict = @ \/ f.answer = "conflict"]
             u == IF IsScope(p, f.save) THEN [q EXCEPT !.scope.queued = p.scope.saved] ELSE q
  <2>1. page' = [page EXCEPT ![d] = u]
    BY <1>4 DEF SaveFailed
  <2>2. /\ q \in Page /\ q.opens = p.opens /\ q.scope = p.scope /\ q.version = p.version
        /\ q.of = p.of /\ q.threads = p.threads /\ q.load = p.load
        /\ q.saves = p.saves /\ q.flight = NoScope
    BY <1>1, <1>2 DEF Page
  <2> HIDE DEF q
  <2>3. /\ u \in Page /\ u.opens = p.opens /\ u.version = p.version
        /\ u.of = p.of /\ u.threads = p.threads /\ u.load = p.load
        /\ u.saves = p.saves /\ u.flight = NoScope
        /\ u.scope # NoScope => p.scope # NoScope
        /\ u.scope # NoScope =>
             u.scope.opened = p.scope.opened /\ u.scope.persona = p.scope.persona
    <3>1. CASE IsScope(p, f.save)
      <4>1. p.scope \in Scope
        BY <1>1, <3>1, PageParts DEF IsScope
      <4>2. [p.scope EXCEPT !.queued = p.scope.saved] \in Scope
        BY <1>2, <4>1 DEF Scope
      <4>3. u.scope = [p.scope EXCEPT !.queued = p.scope.saved]
        BY <2>2, <3>1 DEF Page
      <4> QED
        BY <2>2, <3>1, <4>1, <4>2, <4>3 DEF Page, Scope, IsScope
    <3>2. CASE ~IsScope(p, f.save)
      BY <2>2, <3>2
    <3> QED
      BY <3>1, <3>2
  <2> HIDE DEF u
  <2>4. PageInv(workspace, u)
    BY <1>1, <2>1, <2>3, SaveDropped
  <2> QED
    BY <1>1, <2>1, <2>3, <2>4, PageStep
<1> QED
  BY <1>3, <1>4

(* Loads and reloads.                                                       *)
LEMMA LoadSteps ==
  ASSUME WorkspaceInv, NEW d \in Device,
         \/ AskLoad(d) \/ ServeLoad(d) \/ LoadAnswered(d)
         \/ LoadRefused(d) \/ LoadLost(d) \/ ReloadPage(d)
  PROVE  WorkspaceInv'
<1> DEFINE p == page[d]
           l == p.load
<1>1. /\ p \in Page /\ PageInv(workspace, p) /\ workspace \in Rows
      /\ typed' \subseteq Message /\ IsFiniteSet(typed')
      /\ workspace' = workspace /\ typed' = typed
  BY DEF WorkspaceInv, WorkspaceTypeOK, Rows, AskLoad, ServeLoad, LoadAnswered,
         LoadRefused, LoadLost, ReloadPage
<1>2. page \in [Device -> Page]
  BY DEF WorkspaceInv, WorkspaceTypeOK
(* Only the load of the page changes.                                       *)
<1>3. ASSUME NEW k \in Load \cup {NoScope},
             k # NoScope /\ k.answered => AsSaved(workspace, k.persona, k.version, k.threads)
      PROVE  /\ [p EXCEPT !.load = k] \in Page
             /\ PageInv(workspace, [p EXCEPT !.load = k])
  <2> DEFINE q == [p EXCEPT !.load = k]
  <2>1. /\ q \in Page /\ q.threads = p.threads
        /\ q.opens = p.opens /\ q.scope = p.scope /\ q.version = p.version /\ q.of = p.of
        /\ q.saves = p.saves /\ q.flight = p.flight /\ q.load = k
    BY <1>1, <1>3 DEF Page
  <2> HIDE DEF q, p
  <2>2. LoadInv(workspace, q)
    BY <1>3, <2>1 DEF LoadInv
  <2>3. PageInv(workspace, q)
    BY <1>1, <2>1, <2>2, PageGrows
  <2> QED
    BY <2>1, <2>3 DEF q
<1>4. CASE AskLoad(d)
  <2> DEFINE k == [persona |-> p.active, answered |-> FALSE, version |-> 0, threads |-> {}]
  <2>1. page' = [page EXCEPT ![d] = [p EXCEPT !.load = k]]
    BY <1>2, <1>4 DEF AskLoad
  <2>2. k \in Load /\ ~k.answered
    BY <1>1, PageParts DEF Load
  <2> HIDE DEF k, p
  <2> QED
    BY <1>1, <1>3, <2>1, <2>2, PageStep
<1>5. CASE ServeLoad(d)
  <2> DEFINE row == workspace[l.persona]
             k == [persona |-> l.persona, answered |-> TRUE,
                   version |-> row.version, threads |-> row.threads]
  <2>1. page' = [page EXCEPT ![d] = [p EXCEPT !.load = k]]
    BY <1>2, <1>5 DEF ServeLoad
  <2>2. l \in Load /\ l.persona \in Persona
    BY <1>1, <1>5, PageParts DEF ServeLoad
  <2>3. row.version \in Nat /\ row.threads \in SUBSET Message
    BY <1>1, <2>2 DEF Rows
  <2>4. k \in Load
    <3> HIDE DEF row, l
    <3> QED
      BY <2>2, <2>3 DEF Load
  <2>5. AsSaved(workspace, k.persona, k.version, k.threads)
    BY <2>2, <2>3 DEF AsSaved
  <2> HIDE DEF k, p
  <2> QED
    BY <1>1, <1>3, <2>1, <2>4, <2>5, PageStep
<1>6. CASE LoadAnswered(d)
  <2> DEFINE T == {m \in p.threads : m.persona # l.persona} \cup l.threads
             n == p.opens + 1
             t == [persona |-> l.persona, opened |-> n,
                   queued |-> l.threads, saved |-> l.threads]
             q == [p EXCEPT !.load = NoScope, !.threads = T, !.version = l.version,
                            !.of = n, !.conflict = FALSE, !.opens = n, !.scope = t]
  <2>1. Update(d, q) /\ l # NoScope /\ l.answered
    BY <1>6 DEF LoadAnswered
  <2>2. /\ l \in Load /\ l.persona \in Persona /\ l.version \in Nat
        /\ l.threads \subseteq Message /\ T \subseteq Message /\ n \in Nat
    BY <1>1, <2>1, PageParts DEF Load
  <2>3. t \in Scope
    <3> HIDE DEF n, l
    <3> QED
      BY <2>2 DEF Scope
  <2>4. /\ t.opened = p.opens + 1 /\ t.persona = l.persona /\ n = p.opens + 1
        /\ l.threads \subseteq T
    OBVIOUS
  <2> HIDE DEF n, t, T
  <2>5. /\ q \in Page /\ q.opens = n /\ q.version = l.version /\ q.of = n
        /\ q.threads = T /\ q.load = NoScope /\ q.saves = p.saves
        /\ q.flight = p.flight /\ q.scope = t
    <3> DEFINE v == l.version
    <3> HIDE DEF v, p
    <3> QED
      BY <1>1, <2>2, <2>3 DEF Page, v
  <2> HIDE DEF q, p
  <2>6. PageInv(workspace, q)
    BY <1>1, <2>1, <2>4, <2>5, ScopeOpened DEF l
  <2> QED
    BY <1>1, <2>1, <2>5, <2>6, UpdateStep
<1>7. CASE LoadRefused(d)
  <2>1. Update(d, [p EXCEPT !.load = NoScope])
    BY <1>7 DEF LoadRefused
  <2> HIDE DEF p
  <2> QED
    BY <1>1, <1>3, <2>1, UpdateStep
<1>8. CASE LoadLost(d)
  <2>1. page' = [page EXCEPT ![d] = [p EXCEPT !.load = NoScope]]
    BY <1>2, <1>8 DEF LoadLost
  <2> HIDE DEF p
  <2> QED
    BY <1>1, <1>3, <2>1, PageStep
<1>9. CASE ReloadPage(d)
  <2> DEFINE q == [NewPage(p.active) EXCEPT !.opens = p.opens, !.switches = p.switches]
  <2>1. page' = [page EXCEPT ![d] = q]
    BY <1>9 DEF ReloadPage
  <2>2. /\ q \in Page /\ q.scope = NoScope /\ q.of = 0 /\ q.opens \in Nat
        /\ q.saves = <<>> /\ q.flight = NoScope /\ q.load = NoScope
    <3>1. p.active \in Persona /\ p.opens \in Nat /\ p.switches \in Nat
      BY <1>1 DEF Page
    <3> DEFINE N == NewPage(p.active)
               o == p.opens
               s == p.switches
    <3>2. /\ N \in Page /\ N.scope = NoScope /\ N.of = 0
          /\ N.saves = <<>> /\ N.flight = NoScope /\ N.load = NoScope
      BY <3>1 DEF NewPage, Page
    <3> HIDE DEF N, o, s
    <3>3. LET u == [N EXCEPT !.opens = o, !.switches = s] IN
          /\ u \in Page /\ u.scope = NoScope /\ u.of = 0 /\ u.opens = o
          /\ u.saves = <<>> /\ u.flight = NoScope /\ u.load = NoScope
      BY <3>1, <3>2 DEF Page, o, s
    <3> QED
      BY <3>1, <3>3 DEF N, o, s
  <2> HIDE DEF q
  <2>3. PageInv(workspace, q)
    BY <2>2 DEF PageInv, ScopeInv, ChainInv, FlightInv, LoadInv
  <2> QED
    BY <1>1, <2>1, <2>2, <2>3, PageStep
<1> QED
  BY <1>4, <1>5, <1>6, <1>7, <1>8, <1>9

(* Every step of the workspace.                                             *)
LEMMA WorkspaceSteps ==
  ASSUME WorkspaceInv, [WorkspaceNext]_workspaceVars
  PROVE  WorkspaceInv'
<1>1. ASSUME UNCHANGED workspaceVars PROVE WorkspaceInv'
  <2>1. workspace' = workspace /\ page' = page /\ typed' = typed
    BY <1>1 DEF workspaceVars
  <2> QED
    BY <2>1 DEF WorkspaceInv, WorkspaceTypeOK
<1> QED
  BY <1>1, EditSteps, SendStep, ServeStep, AnswerStep, LoadSteps DEF WorkspaceNext

(* The compare-and-set protects the row: a step that takes a message of     *)
(* persona r from its row serves a save whose snapshot is another           *)
(* persona's, or whose version was answered in another scope.               *)
THEOREM LostOnlyAcrossScopesHolds == WorkspaceSpec => LostOnlyAcrossScopes
<1> DEFINE Kept ==
      \A r \in Persona : Dropped(r) # {} =>
        \E d \in Device : /\ Served(d, r)
                          /\ \/ page[d].flight.save.from # r
                             \/ page[d].flight.of # page[d].flight.save.opened
<1>1. WorkspaceInit => WorkspaceInv
  BY WorkspaceInitially
<1>2. WorkspaceInv /\ [WorkspaceNext]_workspaceVars => WorkspaceInv'
  BY WorkspaceSteps
<1>3. WorkspaceInv /\ [WorkspaceNext]_workspaceVars => [Kept]_workspaceVars
  <2> SUFFICES ASSUME WorkspaceInv, WorkspaceNext, NEW r \in Persona, Dropped(r) # {}
               PROVE  \E d \in Device : /\ Served(d, r)
                                        /\ \/ page[d].flight.save.from # r
                                           \/ page[d].flight.of # page[d].flight.save.opened
    OBVIOUS
  <2>1. workspace' # workspace
    BY DEF Dropped
  <2>2. PICK d \in Device : ServeSave(d)
    BY <2>1 DEF WorkspaceNext, askAssistant, AssistantAnswers, SwitchPersona, Render,
                ReloadPage, SendSave, SaveAnswered, SaveFailed, AskLoad, ServeLoad,
                LoadAnswered, LoadRefused, LoadLost
  <2> DEFINE p == page[d]
             f == p.flight
             o == f.save.persona
  <2>3. /\ f # NoScope /\ f.answer = "none" /\ workspace[o].version = f.version
        /\ workspace' = [workspace EXCEPT ![o] = [version |-> workspace[o].version + 1,
                                                  threads |-> f.save.threads]]
        /\ page' = [page EXCEPT ![d].flight.answer = "saved",
                                ![d].flight.version = workspace[o].version + 1]
    BY <2>1, <2>2 DEF ServeSave
  <2>4. /\ p \in Page /\ PageInv(workspace, p) /\ workspace \in Rows
        /\ page \in [Device -> Page]
    BY DEF WorkspaceInv, WorkspaceTypeOK, Rows
  <2>5. f \in Flight /\ f.save \in Save /\ o \in Persona /\ f.version \in Nat
    BY <2>3, <2>4, PageParts
  <2>6. o = r
    BY <2>3, <2>4 DEF Dropped, Rows
  <2>7. workspace'[r].threads = f.save.threads
    BY <2>3, <2>4, <2>5, <2>6 DEF Rows
  <2>8. f.save.from # r \/ f.of # f.save.opened
    <3> SUFFICES ASSUME f.save.from = r, f.of = f.save.opened PROVE FALSE
      OBVIOUS
    <3>1. Knows(workspace, r, f.version, f.save.threads)
      BY <2>3, <2>4, <2>6 DEF PageInv, FlightInv
    <3>2. OfPersona(r, workspace[r].threads) \subseteq f.save.threads
      BY <2>3, <2>6, <3>1 DEF Knows
    <3> QED
      BY <2>7, <3>2 DEF Dropped, OfPersona
  <2>9. Served(d, r)
    <3> DEFINE v == workspace[o].version + 1
               g == [f EXCEPT !.answer = "saved", !.version = v]
    <3>1. v \in Nat
      BY <2>4, <2>5 DEF Rows
    <3>2. page'[d].flight = g
      <4> HIDE DEF v
      <4> QED
        BY <2>3, <2>4, <2>5 DEF Page, Flight, v
    <3>3. g \in Flight /\ g.answer = "saved"
      <4> HIDE DEF v, f
      <4> QED
        BY <2>5, <3>1 DEF Flight
    <3> QED
      BY <2>3, <2>6, <3>2, <3>3, NoFlightAssumption DEF Served
  <2> QED
    BY <2>8, <2>9
<1> QED
  BY <1>1, <1>2, <1>3, PTL DEF WorkspaceSpec, LostOnlyAcrossScopes

----------------------------------------------------------------------------
(* RunJobs                                                                  *)

(* A worker has the job, or may still get it.                               *)
CanWork(j) == wpc[j] = "working" \/ sent[j] = "pending" \/ spc[j] = "enqueue"

(* Recorded as failed by its submitter although it was published.           *)
Disowned(j) == spc[j] = "unavailable" /\ sent[j] # "no"

(* Published after the insert, worked on after a delivery; the row of a job *)
(* that can be worked on is active, which is what create_run_job looks at,  *)
(* unless the submitter has disowned the job.                               *)
JobInOrder(j) ==
  /\ spc[j] \in {"new", "enqueue"} => sent[j] = "no"
  /\ wpc[j] # "idle" => sent[j] = "delivered"
  /\ CanWork(j) => status[j] \in Active \/ Disowned(j)

(* Of two submissions of a request that can both be worked on, one is       *)
(* disowned.                                                                *)
OneOwned ==
  \A j, k \in Job :
    RequestOf(k) = RequestOf(j) /\ k # j /\ CanWork(j) /\ CanWork(k)
      => Disowned(j) \/ Disowned(k)

RunInv == TypeOK /\ (\A j \in Job : JobInOrder(j)) /\ OneOwned

----------------------------------------------------------------------------
LEMMA RunInit == Init => RunInv
<1> SUFFICES ASSUME Init PROVE RunInv
  OBVIOUS
<1>1. TypeOK
  BY CrashesAssumption DEF Init, TypeOK, Active, Sent
<1>2. \A j \in Job : ~CanWork(j) /\ JobInOrder(j)
  BY DEF Init, CanWork, JobInOrder
<1>3. QED
  BY <1>1, <1>2 DEF RunInv, OneOwned

(* Every step keeps the types.                                              *)
LEMMA RunTypes == TypeOK /\ [Next]_vars => TypeOK'
<1> SUFFICES ASSUME TypeOK, [Next]_vars PROVE TypeOK'
  OBVIOUS
<1> USE DEF TypeOK, Active, Sent
<1>1. ASSUME NEW j \in Job, Submit(j) PROVE TypeOK'
  <2>1. CASE create_run_job(j)
    BY <2>1 DEF create_run_job, Submitter
  <2>2. CASE RejectDuplicate(j)
    BY <2>2 DEF RejectDuplicate, Submitter
  <2>3. CASE EnqueueReturns(j)
    BY <2>3 DEF EnqueueReturns, Submitter
  <2>4. CASE EnqueueRaises(j)
    BY <2>4 DEF EnqueueRaises, Submitter
  <2>5. CASE ConfirmQueued(j)
    BY <2>5 DEF ConfirmQueued, Submitter, update_run_job
  <2>6. CASE RecordEnqueueFailure(j)
    BY <2>6 DEF RecordEnqueueFailure, Submitter, update_run_job
  <2>7. CASE SubmitterCrash(j)
    BY <2>7, CrashesAssumption DEF SubmitterCrash
  <2>8. CASE CreateUnavailable(j)
    BY <2>8, CrashesAssumption DEF CreateUnavailable, Submitter, NoConnection
  <2>9. CASE ConfirmUnrecorded(j)
    BY <2>9, CrashesAssumption DEF ConfirmUnrecorded, Submitter, NoConnection
  <2>10. CASE EnqueueFailureUnrecorded(j)
    BY <2>10, CrashesAssumption
       DEF EnqueueFailureUnrecorded, Submitter, NoConnection
  <2>11. QED
    BY <1>1, <2>1, <2>2, <2>3, <2>4, <2>5, <2>6, <2>7, <2>8, <2>9, <2>10 DEF Submit
<1>2. ASSUME NEW j \in Job, Work(j) PROVE TypeOK'
  <2>1. CASE Start(j)
    BY <2>1 DEF Start, Deliver, update_run_job
  <2>2. ASSUME NEW outcome \in {"succeeded", "failed"}, Finish(j, outcome)
        PROVE  TypeOK'
    BY <2>2 DEF Finish, update_run_job
  <2>3. CASE WorkerCrash(j)
    BY <2>3, CrashesAssumption DEF WorkerCrash
  <2>4. CASE ScheduleTimeout(j)
    BY <2>4, CrashesAssumption DEF ScheduleTimeout
  <2>5. CASE StartUnrecorded(j)
    BY <2>5, CrashesAssumption DEF StartUnrecorded, Deliver, NoConnection
  <2>6. CASE FinishUnrecorded(j)
    BY <2>6, CrashesAssumption DEF FinishUnrecorded, NoConnection
  <2>7. QED
    BY <1>2, <2>1, <2>2, <2>3, <2>4, <2>5, <2>6 DEF Work
<1>3. CASE UNCHANGED vars
  BY <1>3 DEF vars
<1>4. QED
  BY <1>1, <1>2, <1>3 DEF Next

(* A step of one job leaves the others as they are.                         *)
Elsewhere(j) ==
  \A k \in Job \ {j} :
    /\ status'[k] = status[k] /\ spc'[k] = spc[k]
    /\ sent'[k] = sent[k] /\ wpc'[k] = wpc[k]

LEMMA StepIsLocal ==
  ASSUME TypeOK, NEW j \in Job, Submit(j) \/ Work(j)
  PROVE  Elsewhere(j)
<1> USE DEF TypeOK, Elsewhere
<1>1. CASE create_run_job(j)
  BY <1>1 DEF create_run_job, Submitter
<1>2. CASE RejectDuplicate(j)
  BY <1>2 DEF RejectDuplicate, Submitter
<1>3. CASE EnqueueReturns(j)
  BY <1>3 DEF EnqueueReturns, Submitter
<1>4. CASE EnqueueRaises(j)
  BY <1>4 DEF EnqueueRaises, Submitter
<1>5. CASE ConfirmQueued(j)
  BY <1>5 DEF ConfirmQueued, Submitter, update_run_job
<1>6. CASE RecordEnqueueFailure(j)
  BY <1>6 DEF RecordEnqueueFailure, Submitter, update_run_job
<1>7. CASE SubmitterCrash(j)
  BY <1>7 DEF SubmitterCrash
<1>8. CASE Start(j)
  BY <1>8 DEF Start, Deliver, update_run_job
<1>9. ASSUME NEW outcome \in {"succeeded", "failed"}, Finish(j, outcome)
      PROVE  Elsewhere(j)
  BY <1>9 DEF Finish, update_run_job
<1>10. CASE WorkerCrash(j)
  BY <1>10 DEF WorkerCrash
<1>11. CASE ScheduleTimeout(j)
  BY <1>11 DEF ScheduleTimeout
<1>12. CASE CreateUnavailable(j)
  BY <1>12 DEF CreateUnavailable, Submitter, NoConnection
<1>13. CASE ConfirmUnrecorded(j)
  BY <1>13 DEF ConfirmUnrecorded, Submitter, NoConnection
<1>14. CASE EnqueueFailureUnrecorded(j)
  BY <1>14 DEF EnqueueFailureUnrecorded, Submitter, NoConnection
<1>15. CASE StartUnrecorded(j)
  BY <1>15 DEF StartUnrecorded, Deliver, NoConnection
<1>16. CASE FinishUnrecorded(j)
  BY <1>16 DEF FinishUnrecorded, NoConnection
<1>17. QED
  BY <1>1, <1>2, <1>3, <1>4, <1>5, <1>6, <1>7, <1>8, <1>9, <1>10, <1>11,
     <1>12, <1>13, <1>14, <1>15, <1>16
     DEF Submit, Work

(* The job that steps stays in order and disowned; it becomes one that can  *)
(* be worked on only by the insert, with no sibling active.                 *)
Stepped(j) ==
  /\ JobInOrder(j)'
  /\ Disowned(j) => Disowned(j)'
  /\ CanWork(j)' => \/ CanWork(j)
                    \/ \A k \in Siblings(j) : status[k] \notin Active

LEMMA JobSteps ==
  ASSUME TypeOK, NEW j \in Job, JobInOrder(j), Submit(j) \/ Work(j)
  PROVE  Stepped(j)
<1> USE DEF TypeOK, JobInOrder, CanWork, Disowned, Stepped, Active, Sent
<1>1. CASE create_run_job(j)
  BY <1>1 DEF create_run_job, Submitter
<1>2. CASE RejectDuplicate(j)
  BY <1>2 DEF RejectDuplicate, Submitter
<1>3. CASE EnqueueReturns(j)
  BY <1>3 DEF EnqueueReturns, Submitter
<1>4. CASE EnqueueRaises(j)
  BY <1>4 DEF EnqueueRaises, Submitter
<1>5. CASE ConfirmQueued(j)
  BY <1>5 DEF ConfirmQueued, Submitter, update_run_job
<1>6. CASE RecordEnqueueFailure(j)
  BY <1>6 DEF RecordEnqueueFailure, Submitter, update_run_job
<1>7. CASE SubmitterCrash(j)
  BY <1>7 DEF SubmitterCrash
<1>8. CASE Start(j)
  BY <1>8 DEF Start, Deliver, update_run_job
<1>9. ASSUME NEW outcome \in {"succeeded", "failed"}, Finish(j, outcome)
      PROVE  Stepped(j)
  BY <1>9 DEF Finish, update_run_job
<1>10. CASE WorkerCrash(j)
  BY <1>10 DEF WorkerCrash
<1>11. CASE ScheduleTimeout(j)
  BY <1>11 DEF ScheduleTimeout
<1>12. CASE CreateUnavailable(j)
  BY <1>12 DEF CreateUnavailable, Submitter, NoConnection
<1>13. CASE ConfirmUnrecorded(j)
  BY <1>13 DEF ConfirmUnrecorded, Submitter, NoConnection
<1>14. CASE EnqueueFailureUnrecorded(j)
  BY <1>14 DEF EnqueueFailureUnrecorded, Submitter, NoConnection
<1>15. CASE StartUnrecorded(j)
  BY <1>15 DEF StartUnrecorded, Deliver, NoConnection
<1>16. CASE FinishUnrecorded(j)
  BY <1>16 DEF FinishUnrecorded, NoConnection
<1>17. QED
  BY <1>1, <1>2, <1>3, <1>4, <1>5, <1>6, <1>7, <1>8, <1>9, <1>10, <1>11,
     <1>12, <1>13, <1>14, <1>15, <1>16
     DEF Submit, Work

LEMMA RunStep == RunInv /\ [Next]_vars => RunInv'
<1> SUFFICES ASSUME RunInv, [Next]_vars PROVE RunInv'
  OBVIOUS
<1>1. TypeOK'
  BY RunTypes DEF RunInv
<1>2. CASE UNCHANGED vars
  BY <1>1, <1>2 DEF RunInv, vars, JobInOrder, OneOwned, CanWork, Disowned
<1>3. ASSUME NEW j \in Job, Submit(j) \/ Work(j) PROVE RunInv'
  <2>1. Elsewhere(j) /\ Stepped(j)
    BY <1>3, StepIsLocal, JobSteps DEF RunInv
  <2>2. ASSUME NEW k \in Job, k # j
        PROVE  /\ JobInOrder(k)' /\ (CanWork(k)' = CanWork(k))
               /\ Disowned(k)' = Disowned(k)
    BY <2>1, <2>2 DEF RunInv, Elsewhere, JobInOrder, CanWork, Disowned
  <2>3. ASSUME NEW k \in Job, k # j, RequestOf(k) = RequestOf(j),
               CanWork(j)', CanWork(k)'
        PROVE  Disowned(j)' \/ Disowned(k)'
    <3>1. CanWork(k) /\ (Disowned(k)' = Disowned(k))
      BY <2>2, <2>3
    <3>2. CASE CanWork(j)
      BY <2>1, <2>3, <3>1, <3>2 DEF RunInv, OneOwned, Stepped
    <3>3. CASE \A m \in Siblings(j) : status[m] \notin Active
      BY <2>3, <3>1, <3>3 DEF RunInv, JobInOrder, Siblings
    <3>4. QED
      BY <2>1, <2>3, <3>2, <3>3 DEF Stepped
  <2>4. OneOwned'
    <3> SUFFICES ASSUME NEW m \in Job, NEW k \in Job, RequestOf(k) = RequestOf(m),
                        k # m, CanWork(m)', CanWork(k)'
                 PROVE  Disowned(m)' \/ Disowned(k)'
      BY DEF OneOwned
    <3>1. CASE m # j /\ k # j
      BY <2>2, <3>1 DEF RunInv, OneOwned
    <3>2. CASE m = j \/ k = j
      BY <2>3, <3>2
    <3>3. QED
      BY <3>1, <3>2
  <2>5. QED
    BY <1>1, <2>1, <2>2, <2>4 DEF RunInv, Stepped
<1>4. QED
  BY <1>2, <1>3 DEF Next

(* The types of the submission protocol.                                    *)
THEOREM RunTypeCorrect == Spec => []TypeOK
<1>1. RunInv => TypeOK
  BY DEF RunInv
<1>2. QED
  BY <1>1, RunInit, RunStep, PTL DEF Spec

(* Two workers process one governed input only when the submission of one   *)
(* of them lost Hatchet's answer: every other way to a second worker is     *)
(* closed by the look for an active job under the advisory lock.            *)
THEOREM DuplicatesExplained == Spec => []DuplicateOnlyAfterLostAnswer
<1>1. RunInv => DuplicateOnlyAfterLostAnswer
  BY DEF RunInv, OneOwned, CanWork, Disowned, LostAnswer, Siblings,
         DuplicateOnlyAfterLostAnswer
<1>2. QED
  BY <1>1, RunInit, RunStep, PTL DEF Spec
=============================================================================

-------------------------- MODULE ReviewGateProofs --------------------------
(***************************************************************************)
(* The review gate for any number of reviewers, operators, decisions,      *)
(* releases and crashes: claims exclude, releases are reviewed, and a run  *)
(* whose worker had finished when it was decided keeps its one decision.   *)
(***************************************************************************)
EXTENDS ReviewGate, TLAPS, SequenceTheorems

(* What a sequence looks like after an Append.                              *)
LEMMA Appended ==
  ASSUME NEW S, NEW s \in Seq(S), NEW e \in S
  PROVE  /\ Append(s, e) \in Seq(S)
         /\ Len(Append(s, e)) = Len(s) + 1 /\ Len(s) \in Nat
         /\ \A i \in 1..Len(s) : Append(s, e)[i] = s[i]
         /\ Append(s, e)[Len(s) + 1] = e
         /\ Append(s, e) # <<>>
BY AppendProperties, LenProperties

(* A sequence is empty just when its length is zero.                        *)
LEMMA Emptiness ==
  ASSUME NEW S, NEW s \in Seq(S)
  PROVE  Len(s) \in Nat /\ (s = <<>> <=> Len(s) = 0)
BY EmptySeq, LenProperties, Zenon

----------------------------------------------------------------------------
(* Types.                                                                   *)

LEMMA GateInitTypes == Init => TypeOK
BY BoundsAssumption DEF Init, TypeOK, Stage, Decision

LEMMA WorkerTypes == TypeOK /\ WorkerNext => TypeOK'
<1> SUFFICES ASSUME TypeOK, WorkerNext PROVE TypeOK'
  OBVIOUS
<1> USE DEF TypeOK, Stage, Decision, runRow, reviewer, operator, fault, WorkerStep
<1>1. CASE ReachGate
  <2>1. checkpoints' \in Seq(Stage)
    <3>1. checkpoints' = checkpoints \/ checkpoints' = Append(checkpoints, "awaiting_review")
      BY <1>1 DEF ReachGate, persist_checkpoint
    <3>2. checkpoints \in Seq(Stage) /\ "awaiting_review" \in Stage
      OBVIOUS
    <3> HIDE DEF Stage
    <3>3. Append(checkpoints, "awaiting_review") \in Seq(Stage)
      BY <3>2, Appended, Zenon
    <3>4. QED
      BY <3>1, <3>2, <3>3, Zenon
  <2>2. CASE UNCHANGED fault
    BY <1>1, <2>1, <2>2 DEF ReachGate, persist_checkpoint
  <2>3. CASE NoConnection
    <3>1. lost' = lost + 1 /\ crashes' = crashes /\ crashes + lost < MaxFaults
      BY <2>3 DEF NoConnection
    <3>2. crashes' \in Nat /\ lost' \in Nat /\ crashes' + lost' <= MaxFaults
      BY <3>1, BoundsAssumption
    <3>3. QED
      BY <1>1, <2>1, <3>2 DEF ReachGate, persist_checkpoint
  <2>4. QED
    BY <1>1, <2>2, <2>3 DEF ReachGate
<1>2. CASE WriteSummary \/ SyncSourcesRaises \/ FinalWrite
  BY <1>2 DEF WriteSummary, SyncSourcesRaises, FinalWrite, PendingSummary
<1>3. CASE PersistSummary \/ SyncSources \/ RecordSyncFailure
  BY <1>3, BoundsAssumption
     DEF PersistSummary, SyncSources, RecordSyncFailure, update_run_summary, NoConnection
<1>4. CASE WorkerCrash
  BY <1>4, BoundsAssumption DEF WorkerCrash, Crash
<1>5. QED
  BY <1>1, <1>2, <1>3, <1>4 DEF WorkerNext

LEMMA ReviewerTypes ==
  ASSUME TypeOK, NEW r \in Reviewer, ReviewerNext(r)
  PROVE  TypeOK'
<1> USE DEF TypeOK, Decision, runRow, reviewer, operator, fault
<1>1. CASE claim_pending_review(r) \/ unclaim_pending_review(r)
  BY <1>1 DEF claim_pending_review, unclaim_pending_review
<1>2. ASSUME NEW d \in Decision, OpenDecision(r, d) PROVE TypeOK'
  <2>1. Len(checkpoints) \in Nat
    BY LenProperties
  <2>2. QED
    BY <1>2, <2>1 DEF OpenDecision
<1>3. CASE record_approval(r)
  <2> DEFINE x == [by |-> r, decision |-> ddecision[r],
                   checkpoint |-> dseen[r], early |-> wpc # "done"]
  <2>1. x \in Approval
    BY DEF Approval
  <2>2. approvals' \in Seq(Approval)
    BY <1>3, <2>1, Appended DEF record_approval
  <2>3. QED
    BY <1>3, <2>2 DEF record_approval
<1>4. CASE RefuseDecision(r)
  BY <1>4 DEF RefuseDecision, DecisionDone
<1>5. CASE SyncReviewState(r)
  BY <1>5 DEF SyncReviewState, DecisionDone
<1>6. CASE ReviewerCrash(r)
  BY <1>6, BoundsAssumption DEF ReviewerCrash, DecisionDone, Crash
<1>7. CASE DecisionUnrecorded(r)
  BY <1>7, BoundsAssumption DEF DecisionUnrecorded, NoConnection
<1>8. CASE TouchReviewState(r)
  BY <1>8 DEF TouchReviewState, DecisionDone
<1>9. QED
  BY <1>1, <1>2, <1>3, <1>4, <1>5, <1>6, <1>7, <1>8 DEF ReviewerNext

LEMMA OperatorTypes ==
  ASSUME TypeOK, NEW o \in Operator, OperatorNext(o)
  PROVE  TypeOK'
<1> USE DEF TypeOK, Stage, Decision, runRow, reviewer, operator, fault, OperatorStep, ResumeDone
<1>1. CASE CheckApproval(o)
  BY <1>1 DEF CheckApproval
<1>2. CASE ReadCheckpoint(o)
  <2>1. Len(checkpoints) \in Nat
    BY LenProperties
  <2>2. QED
    BY <1>2, <2>1 DEF ReadCheckpoint
<1>3. CASE RefuseResume(o)
  BY <1>3 DEF RefuseResume
<1>4. CASE WriteDeliverables(o)
  <2>1. receipts' \in Seq(Nat)
    BY <1>4, Appended DEF WriteDeliverables
  <2>2. QED
    BY <1>4, <2>1 DEF WriteDeliverables
<1>5. CASE ReadApprover(o)
  BY <1>5 DEF ReadApprover
<1>6. CASE PersistWriter(o)
  <2>1. checkpoints' \in Seq(Stage)
    <3>1. checkpoints' = checkpoints \/ checkpoints' = Append(checkpoints, "writer")
      BY <1>6 DEF PersistWriter, persist_checkpoint
    <3>2. checkpoints \in Seq(Stage) /\ "writer" \in Stage
      OBVIOUS
    <3> HIDE DEF Stage
    <3>3. Append(checkpoints, "writer") \in Seq(Stage)
      BY <3>2, Appended, Zenon
    <3>4. QED
      BY <3>1, <3>2, <3>3, Zenon
  <2>2. CASE UNCHANGED fault
    BY <1>6, <2>1, <2>2 DEF PersistWriter, persist_checkpoint
  <2>3. CASE NoConnection
    <3>1. lost' = lost + 1 /\ crashes' = crashes /\ crashes + lost < MaxFaults
      BY <2>3 DEF NoConnection
    <3>2. crashes' \in Nat /\ lost' \in Nat /\ crashes' + lost' <= MaxFaults
      BY <3>1, BoundsAssumption
    <3>3. QED
      BY <1>6, <2>1, <3>2 DEF PersistWriter, persist_checkpoint
  <2>4. QED
    BY <1>6, <2>2, <2>3 DEF PersistWriter
<1>7. CASE UpdateSummary(o)
  BY <1>7, BoundsAssumption DEF UpdateSummary, update_run_summary, NoConnection
<1>8. CASE PublishSummary(o)
  BY <1>8 DEF PublishSummary
<1>9. CASE OperatorCrash(o)
  BY <1>9, BoundsAssumption DEF OperatorCrash, Crash
<1>10. CASE ApproverUnread(o)
  BY <1>10, BoundsAssumption DEF ApproverUnread, NoConnection
<1>11. QED
  BY <1>1, <1>2, <1>3, <1>4, <1>5, <1>6, <1>7, <1>8, <1>9, <1>10 DEF OperatorNext

LEMMA GateTypes == TypeOK /\ [Next]_vars => TypeOK'
<1>1. TypeOK /\ UNCHANGED vars => TypeOK'
  BY DEF TypeOK, vars, runRow, reviewer, operator, fault
<1>2. QED
  BY <1>1, WorkerTypes, ReviewerTypes, OperatorTypes DEF Next

----------------------------------------------------------------------------
(* Releases.                                                                *)

SomebodyApproved == \E j \in 1..Len(approvals) : approvals[j].decision = "approved"

IsGate(n) == n \in 1..Len(checkpoints) /\ checkpoints[n] = "awaiting_review"

(* A release under way follows an approval, and the checkpoint it carries   *)
(* is the gate's; there is always a checkpoint to read.                     *)
ReleaseInv ==
  /\ checkpoints # <<>>
  /\ \A o \in Operator : opc[o] # "idle" => SomebodyApproved
  /\ \A o \in Operator : opc[o] = "deliver" => IsGate(oseen[o])
  /\ ReleasesAreReviewed

(* Checkpoints and approvals are only added to.                             *)
LEMMA HistoryGrows ==
  ASSUME TypeOK, [Next]_vars
  PROVE  /\ Len(checkpoints) \in Nat /\ Len(checkpoints') \in Nat
         /\ Len(checkpoints) <= Len(checkpoints')
         /\ \A i \in 1..Len(checkpoints) : checkpoints'[i] = checkpoints[i]
         /\ Len(approvals) \in Nat /\ Len(approvals') \in Nat
         /\ Len(approvals) <= Len(approvals')
         /\ \A i \in 1..Len(approvals) : approvals'[i] = approvals[i]
<1> DEFINE Longer(new, old) ==
      /\ Len(old) \in Nat /\ Len(new) \in Nat /\ Len(old) <= Len(new)
      /\ \A i \in 1..Len(old) : new[i] = old[i]
<1>1. TypeOK'
  BY GateTypes
<1>2. checkpoints' = checkpoints \/ \E s \in Stage : checkpoints' = Append(checkpoints, s)
  BY DEF Next, vars, runRow, reviewer, operator, fault, Stage,
         WorkerNext, ReachGate, WriteSummary, PersistSummary, SyncSources,
         SyncSourcesRaises, RecordSyncFailure, FinalWrite, WorkerCrash,
         ReviewerNext, claim_pending_review, unclaim_pending_review, OpenDecision,
         record_approval, RefuseDecision, DecisionUnrecorded, TouchReviewState,
         SyncReviewState, ReviewerCrash,
         OperatorNext, CheckApproval, ReadCheckpoint, RefuseResume, WriteDeliverables,
         ReadApprover, ApproverUnread, PersistWriter, UpdateSummary, PublishSummary, OperatorCrash,
         persist_checkpoint
<1>3. approvals' = approvals \/ \E r \in Reviewer : record_approval(r)
  BY DEF Next, vars, runRow, reviewer, operator, fault,
         WorkerNext, ReachGate, WriteSummary, PersistSummary, SyncSources,
         SyncSourcesRaises, RecordSyncFailure, FinalWrite, WorkerCrash,
         ReviewerNext, claim_pending_review, unclaim_pending_review, OpenDecision,
         RefuseDecision, DecisionUnrecorded, TouchReviewState,
         SyncReviewState, ReviewerCrash,
         OperatorNext, CheckApproval, ReadCheckpoint, RefuseResume, WriteDeliverables,
         ReadApprover, ApproverUnread, PersistWriter, UpdateSummary, PublishSummary, OperatorCrash
<1>4. Longer(checkpoints', checkpoints)
  BY <1>2, Appended, LenProperties DEF TypeOK
<1>5. Longer(approvals', approvals)
  <2>1. CASE approvals' = approvals
    BY <2>1, LenProperties DEF TypeOK
  <2>2. ASSUME NEW r \in Reviewer, record_approval(r) PROVE Longer(approvals', approvals)
    <3> DEFINE x == [by |-> r, decision |-> ddecision[r],
                     checkpoint |-> dseen[r], early |-> wpc # "done"]
    <3>1. x \in Approval
      BY DEF TypeOK, Approval
    <3>2. approvals' = Append(approvals, x)
      BY <2>2 DEF record_approval
    <3> HIDE DEF x
    <3>3. QED
      BY <3>1, <3>2, Appended DEF TypeOK
  <2>3. QED
    BY <1>3, <2>1, <2>2
<1>6. QED
  BY <1>4, <1>5

LEMMA ReleaseInitially == Init => ReleaseInv
BY DEF Init, ReleaseInv, ReleasesAreReviewed

LEMMA ReleaseStep == TypeOK /\ ReleaseInv /\ [Next]_vars => ReleaseInv'
<1> SUFFICES ASSUME TypeOK, ReleaseInv, [Next]_vars PROVE ReleaseInv'
  OBVIOUS
<1>1. TypeOK'
  BY GateTypes
<1>2. checkpoints' # <<>>
  <2>1. checkpoints \in Seq(Stage) /\ checkpoints' \in Seq(Stage)
    BY <1>1 DEF TypeOK
  <2>2. Len(checkpoints) # 0
    BY <2>1, Emptiness DEF ReleaseInv
  <2>3. Len(checkpoints') # 0
    BY <2>2, HistoryGrows
  <2>4. QED
    BY <2>1, <2>3, Emptiness
<1>3. \A n : IsGate(n) => IsGate(n)'
  BY HistoryGrows DEF IsGate
<1>4. SomebodyApproved => SomebodyApproved'
  BY HistoryGrows DEF SomebodyApproved
<1>5. UNCHANGED receipts => ReleasesAreReviewed'
  <2> HAVE UNCHANGED receipts
  <2>1. ASSUME NEW i \in 1..Len(receipts)
        PROVE  IsGate(receipts[i])' /\ SomebodyApproved'
    <3>1. IsGate(receipts[i]) /\ SomebodyApproved
      BY DEF ReleaseInv, ReleasesAreReviewed, IsGate, SomebodyApproved
    <3>2. QED
      BY <1>4, <3>1, HistoryGrows DEF IsGate
  <2>2. QED
    BY <2>1 DEF ReleasesAreReviewed, IsGate, SomebodyApproved
<1>6. ASSUME NEW p \in Operator, opc[p] = "deliver", oseen'[p] = oseen[p]
       PROVE  IsGate(oseen[p])'
  BY <1>3, <1>6 DEF ReleaseInv, IsGate
<1>7. ASSUME UNCHANGED receipts,
             \A o \in Operator : /\ opc'[o] # "idle" => opc[o] # "idle"
                                 /\ opc'[o] = "deliver" => opc[o] = "deliver"
                                                           /\ oseen'[o] = oseen[o]
      PROVE  ReleaseInv'
  BY <1>2, <1>4, <1>5, <1>6, <1>7 DEF ReleaseInv
<1>8. CASE UNCHANGED <<opc, oseen, receipts>>
  BY <1>7, <1>8
<1>9. ASSUME NEW o \in Operator, OperatorNext(o) PROVE ReleaseInv'
  <2> USE DEF OperatorStep, ResumeDone
  <2>1. CASE CheckApproval(o)
    <3>1. SomebodyApproved /\ receipts' = receipts /\ oseen' = oseen
          /\ opc' = [opc EXCEPT ![o] = "checkpoint"]
      BY <2>1, HistoryGrows DEF CheckApproval, LatestDecision, SomebodyApproved
    <3>2. \A p \in Operator : opc'[p] = "deliver" => opc[p] = "deliver"
      BY <3>1 DEF TypeOK
    <3>3. QED
      BY <1>2, <1>4, <1>5, <1>6, <3>1, <3>2 DEF ReleaseInv
  <2>2. CASE ReadCheckpoint(o)
    <3>1. IsGate(Len(checkpoints))
      <4>1. Len(checkpoints) \in Nat /\ Len(checkpoints) # 0
        BY Emptiness DEF ReleaseInv, TypeOK
      <4>2. QED
        BY <2>2, <4>1 DEF ReadCheckpoint, IsGate
    <3>2. /\ receipts' = receipts /\ opc[o] = "checkpoint"
          /\ opc' = [opc EXCEPT ![o] = "deliver"]
          /\ oseen' = [oseen EXCEPT ![o] = Len(checkpoints)]
      BY <2>2 DEF ReadCheckpoint
    <3>3. SomebodyApproved
      BY <3>2 DEF ReleaseInv
    <3>4. ASSUME NEW p \in Operator, opc'[p] = "deliver" PROVE IsGate(oseen[p])'
      <4>1. CASE p = o
        <5>1. oseen'[p] = Len(checkpoints)
          BY <3>2, <4>1 DEF TypeOK
        <5>2. QED
          BY <1>3, <3>1, <5>1 DEF IsGate
      <4>2. CASE p # o
        <5>1. opc[p] = "deliver" /\ oseen'[p] = oseen[p]
          BY <3>2, <3>4, <4>2 DEF TypeOK
        <5>2. QED
          BY <1>6, <5>1
      <4>3. QED
        BY <4>1, <4>2
    <3>5. QED
      BY <1>2, <1>4, <1>5, <3>2, <3>3, <3>4 DEF ReleaseInv
  <2>3. CASE WriteDeliverables(o)
    <3>1. /\ receipts' = Append(receipts, oseen[o]) /\ opc[o] = "deliver"
          /\ opc' = [opc EXCEPT ![o] = "approver"]
          /\ oseen' = [oseen EXCEPT ![o] = 0]
      BY <2>3 DEF WriteDeliverables
    <3>2. /\ Len(receipts') = Len(receipts) + 1 /\ Len(receipts) \in Nat
          /\ \A i \in 1..Len(receipts) : receipts'[i] = receipts[i]
          /\ receipts'[Len(receipts) + 1] = oseen[o]
      BY <3>1, Appended DEF TypeOK
    <3>3. SomebodyApproved' /\ IsGate(oseen[o])
      BY <1>4, <3>1 DEF ReleaseInv
    <3>4. ASSUME NEW i \in 1..Len(receipts')
          PROVE  receipts'[i] \in 1..Len(checkpoints')
                 /\ checkpoints'[receipts'[i]] = "awaiting_review"
      <4>1. IsGate(receipts'[i])
        <5>1. CASE i = Len(receipts) + 1
          BY <3>2, <3>3, <5>1
        <5>2. CASE i \in 1..Len(receipts)
          BY <3>2, <5>2 DEF ReleaseInv, ReleasesAreReviewed, IsGate
        <5>3. QED
          BY <3>2, <5>1, <5>2
      <4>2. QED
        BY <4>1, HistoryGrows DEF IsGate
    <3>5. ReleasesAreReviewed'
      BY <3>3, <3>4 DEF ReleasesAreReviewed, SomebodyApproved
    <3>6. ASSUME NEW p \in Operator, opc'[p] = "deliver"
          PROVE  IsGate(oseen[p])' /\ opc[p] = "deliver"
      <4>1. opc[p] = "deliver" /\ oseen'[p] = oseen[p]
        BY <3>1, <3>6 DEF TypeOK
      <4>2. IsGate(oseen[p])
        BY <4>1 DEF ReleaseInv
      <4>3. QED
        BY <4>1, <4>2, HistoryGrows DEF IsGate
    <3>7. QED
      BY <1>2, <3>3, <3>5, <3>6 DEF ReleaseInv
  <2>4. CASE \/ RefuseResume(o) \/ ReadApprover(o) \/ ApproverUnread(o)
             \/ PersistWriter(o) \/ UpdateSummary(o) \/ PublishSummary(o) \/ OperatorCrash(o)
    <3>1. PICK to \in {"idle", "persist", "update", "publish"} :
            /\ opc[o] # "idle" /\ UNCHANGED receipts
            /\ opc' = [opc EXCEPT ![o] = to]
            /\ \A p \in Operator \ {o} : oseen'[p] = oseen[p]
      BY <2>4 DEF RefuseResume, ReadApprover, ApproverUnread, PersistWriter, UpdateSummary,
                  PublishSummary, OperatorCrash, TypeOK
    <3>2. QED
      BY <1>7, <3>1 DEF TypeOK
  <2>5. QED
    BY <1>9, <2>1, <2>2, <2>3, <2>4 DEF OperatorNext
<1>10. CASE UNCHANGED vars \/ WorkerNext \/ \E r \in Reviewer : ReviewerNext(r)
  <2>1. UNCHANGED <<opc, oseen, receipts>>
    BY <1>10
       DEF vars, operator,
         WorkerNext, ReachGate, WriteSummary, PersistSummary, SyncSources,
         SyncSourcesRaises, RecordSyncFailure, FinalWrite, WorkerCrash,
         ReviewerNext, claim_pending_review, unclaim_pending_review, OpenDecision,
         record_approval, RefuseDecision, DecisionUnrecorded, TouchReviewState,
         SyncReviewState, ReviewerCrash
  <2>2. QED
    BY <1>8, <2>1
<1>11. QED
  BY <1>9, <1>10 DEF Next

(* The types of the gate's rows and processes.                              *)
THEOREM GateTypeCorrect == Spec => []TypeOK
BY GateInitTypes, GateTypes, PTL DEF Spec

(* Whatever the worker overwrites and however many operators resume:        *)
(* deliverables go out only after somebody approved, from the gate's        *)
(* checkpoint (resume_run).                                                 *)
THEOREM ReleasesAreReviewedHolds == Spec => []ReleasesAreReviewed
<1>1. ReleaseInv => ReleasesAreReviewed
  BY DEF ReleaseInv
<1>2. QED
  BY <1>1, ReleaseInitially, ReleaseStep, GateTypeCorrect, PTL DEF Spec

----------------------------------------------------------------------------
(* Claims.                                                                  *)

(* Approvals are added by record_approval alone, one at a time.             *)
LEMMA OneApproval ==
  ASSUME TypeOK, NEW r \in Reviewer, record_approval(r)
  PROVE  /\ Len(approvals') = Len(approvals) + 1 /\ Len(approvals) \in Nat
         /\ approvals'[Len(approvals')].by = r
         /\ approvals'[Len(approvals')].decision = ddecision[r]
         /\ wpc # "done" => approvals'[Len(approvals')].early = TRUE
<1> DEFINE x == [by |-> r, decision |-> ddecision[r],
                 checkpoint |-> dseen[r], early |-> wpc # "done"]
<1>1. x \in Approval
  BY DEF TypeOK, Approval
<1>2. approvals' = Append(approvals, x)
  BY DEF record_approval
<1>3. /\ x.by = r /\ x.decision = ddecision[r]
      /\ wpc # "done" => x.early = TRUE
  OBVIOUS
<1> HIDE DEF x
<1>4. /\ Len(approvals') = Len(approvals) + 1 /\ Len(approvals) \in Nat
      /\ approvals'[Len(approvals')] = x
  BY <1>1, <1>2, Appended DEF TypeOK
<1> DEFINE y == approvals'[Len(approvals')]
<1>5. y = x
  BY <1>4
<1> HIDE DEF y
<1>6. y.by = r /\ y.decision = ddecision[r] /\ (wpc # "done" => y.early = TRUE)
  BY <1>3, <1>5, Zenon
<1>7. QED
  BY <1>4, <1>6, Zenon DEF y

LEMMA OthersKeepApprovals ==
  ASSUME [Next]_vars, ~\E r \in Reviewer : record_approval(r)
  PROVE  approvals' = approvals
BY DEF Next, vars, runRow, reviewer, operator, fault,
       WorkerNext, ReachGate, WriteSummary, PersistSummary, SyncSources,
       SyncSourcesRaises, RecordSyncFailure, FinalWrite, WorkerCrash,
       ReviewerNext, claim_pending_review, unclaim_pending_review, OpenDecision,
       RefuseDecision, DecisionUnrecorded, TouchReviewState,
         SyncReviewState, ReviewerCrash,
       OperatorNext, CheckApproval, ReadCheckpoint, RefuseResume, WriteDeliverables,
       ReadApprover, ApproverUnread, PersistWriter, UpdateSummary, PublishSummary, OperatorCrash

(* No reviewer takes another's claim, and only the claimant decides, except *)
(* for the roles that need no claim (claim_pending_review, record_approval).*)
THEOREM ClaimsExcludeHolds == Spec => ClaimsExclude
<1> DEFINE Exclusive ==
      /\ claimed # None => claimed' \in {claimed, None}
      /\ \A i \in 1..Len(approvals') :
           i > Len(approvals) /\ approvals'[i].by \notin Unclaimed
             => claimed = approvals'[i].by
<1>1. ASSUME TypeOK, [Next]_vars PROVE Exclusive
  <2>1. claimed # None => claimed' \in {claimed, None}
    BY <1>1
       DEF Next, vars, runRow, reviewer, operator, fault, update_run_summary, persist_checkpoint,
         WorkerNext, ReachGate, WriteSummary, PersistSummary, SyncSources,
         SyncSourcesRaises, RecordSyncFailure, FinalWrite, WorkerCrash,
         ReviewerNext, claim_pending_review, unclaim_pending_review, OpenDecision,
         record_approval, RefuseDecision, DecisionUnrecorded, TouchReviewState,
         SyncReviewState, ReviewerCrash,
         OperatorNext, CheckApproval, ReadCheckpoint, RefuseResume, WriteDeliverables,
         ReadApprover, ApproverUnread, PersistWriter, UpdateSummary, PublishSummary, OperatorCrash
  <2>2. ASSUME NEW i \in 1..Len(approvals'), i > Len(approvals),
               approvals'[i].by \notin Unclaimed
        PROVE  claimed = approvals'[i].by
    <3>1. CASE \E r \in Reviewer : record_approval(r)
      <4>1. PICK r \in Reviewer : record_approval(r)
        BY <3>1
      <4>2. i = Len(approvals') /\ approvals'[i].by = r
        <5>1. /\ Len(approvals') = Len(approvals) + 1 /\ Len(approvals) \in Nat
              /\ approvals'[Len(approvals')].by = r
          BY <1>1, <4>1, OneApproval
        <5>2. QED
          BY <2>2, <5>1
      <4>3. MayDecide(r)
        BY <4>1 DEF record_approval
      <4>4. QED
        BY <2>2, <4>2, <4>3 DEF MayDecide
    <3>2. CASE ~\E r \in Reviewer : record_approval(r)
      BY <1>1, <2>2, <3>2, OthersKeepApprovals, LenProperties DEF TypeOK
    <3>3. QED
      BY <3>1, <3>2
  <2>3. QED
    BY <2>1, <2>2
<1>2. QED
  BY <1>1, GateTypeCorrect, PTL DEF Spec, ClaimsExclude

----------------------------------------------------------------------------
(* The gate, apart from decisions taken while the worker was still at work. *)

(* Before the decision nothing is released and nobody resumes the writer.   *)
AwaitingDecision ==
  /\ receipts = <<>>
  /\ status \in {"running", "awaiting_review"}
  /\ \A o \in Operator : opc[o] = "idle"
  /\ \A r \in Reviewer : dpc[r] # "sync"

(* The approver of x, or null since a read of it found no connection.       *)
Carries(by, x) == by = x.by \/ (unread # {} /\ by = None)

(* After it the worker is done, so the row is changed by operators only,    *)
(* who were let in by an approval and carry its approver back.              *)
Decided(x) ==
  /\ Len(approvals) = 1
  /\ wpc = "done"
  /\ claimed = None
  /\ \A r \in Reviewer : dpc[r] = "sync" => ddecision[r] = x.decision
  /\ x.decision = "rejected" =>
       /\ status = "rejected" /\ receipts = <<>>
       /\ \A o \in Operator : opc[o] = "idle"
  /\ x.decision = "approved" =>
       /\ status \in {"approved", "completed"}
       /\ Carries(approved_by, x)
       /\ \A o \in Operator : opc[o] \in {"persist", "update"} => Carries(oby[o], x)

(* Without a crash the worker leaves a summary behind, and the decision is  *)
(* in it, or its reviewer is about to put it there.                         *)
Carried ==
  crashes = 0 =>
    /\ wpc \notin {"pipeline", "gate"} => summary.status # "absent"
    /\ approvals # <<>> => \/ summary.approval = approvals[1].decision
                           \/ \E r \in Reviewer : dpc[r] = "sync"

GateInv ==
  NoEarlyDecision =>
    /\ approvals = <<>> => AwaitingDecision
    /\ approvals # <<>> => Decided(approvals[1])
    /\ Carried

LEMMA GateInitially == Init => GateInv
BY DEF Init, GateInv, AwaitingDecision, Carried

(* Every early decision stays in the history.                               *)
LEMMA EarlyStays ==
  ASSUME TypeOK, [Next]_vars, NoEarlyDecision'
  PROVE  NoEarlyDecision
BY HistoryGrows DEF NoEarlyDecision

LEMMA FirstDecision ==
  ASSUME TypeOK, approvals # <<>>
  PROVE  approvals[1].decision \in Decision
<1>1. Len(approvals) \in Nat /\ Len(approvals) # 0
  BY LenProperties, EmptySeq DEF TypeOK
<1>2. approvals[1] \in Approval
  BY <1>1, ElementOfSeq DEF TypeOK
<1>3. QED
  BY <1>2 DEF Approval

LEMMA GateRecords ==
  ASSUME TypeOK, GateInv, NoEarlyDecision, NoEarlyDecision',
         NEW r \in Reviewer, record_approval(r)
  PROVE  GateInv'
<1>1. approvals = <<>>
  <2> SUFFICES ASSUME approvals # <<>> PROVE FALSE
    OBVIOUS
  <2>1. Decided(approvals[1]) /\ status = "awaiting_review"
    BY DEF GateInv, record_approval, MayDecide
  <2>2. approvals[1].decision \in Decision
    BY FirstDecision
  <2>3. QED
    BY <2>1, <2>2 DEF Decided, Decision
<1>2. /\ Len(approvals') = 1
      /\ approvals'[1].by = r /\ approvals'[1].decision = ddecision[r]
      /\ wpc # "done" => approvals'[1].early = TRUE
  <2>1. Len(approvals) = 0
    BY <1>1, EmptySeq
  <2>2. Len(approvals') = 1
    <3>1. Len(approvals') = Len(approvals) + 1
      BY OneApproval, Zenon
    <3>2. QED
      BY <2>1, <3>1
  <2>3. /\ approvals'[Len(approvals')].by = r
        /\ approvals'[Len(approvals')].decision = ddecision[r]
        /\ wpc # "done" => approvals'[Len(approvals')].early = TRUE
    BY OneApproval, Zenon
  <2>4. QED
    BY <2>2, <2>3, Zenon
<1>3. wpc = "done" /\ AwaitingDecision /\ approvals' # <<>>
  <2>1. ~approvals'[1].early
    BY <1>2 DEF NoEarlyDecision
  <2>2. approvals' # <<>>
    <3>1. Len(approvals') = 1
      BY <1>2, Zenon
    <3>2. Len(<<>>) = 0
      BY EmptySeq, Zenon
    <3>3. QED
      BY <3>1, <3>2
  <2>3. wpc = "done"
    <3> SUFFICES ASSUME wpc # "done" PROVE FALSE
      OBVIOUS
    <3>1. approvals'[1].early = TRUE
      BY <1>2, Zenon
    <3>2. QED
      BY <2>1, <3>1
  <2>4. QED
    BY <1>1, <2>2, <2>3 DEF GateInv
<1>4. Decided(approvals[1])'
  BY <1>2, <1>3 DEF Decided, Carries, AwaitingDecision, record_approval, TypeOK, Decision, operator
<1>5. Carried'
  BY <1>3 DEF GateInv, Carried, record_approval, TypeOK, fault
<1>6. QED
  BY <1>3, <1>4, <1>5 DEF GateInv

LEMMA GateWorks ==
  ASSUME TypeOK, GateInv, NoEarlyDecision, WorkerNext
  PROVE  GateInv'
<1>1. wpc # "done" /\ UNCHANGED <<approvals, receipts, reviewer, operator>>
  BY DEF WorkerNext, WorkerStep, ReachGate, WriteSummary, PersistSummary, SyncSources,
         SyncSourcesRaises, RecordSyncFailure, FinalWrite, WorkerCrash
<1>2. approvals = <<>> /\ AwaitingDecision
  BY <1>1 DEF GateInv, Decided
<1>3. AwaitingDecision'
  BY <1>1, <1>2
     DEF AwaitingDecision, reviewer, operator, runRow, persist_checkpoint,
         update_run_summary, WorkerNext, ReachGate, WriteSummary, PersistSummary,
         SyncSources, SyncSourcesRaises, RecordSyncFailure, FinalWrite, WorkerCrash
<1>4. Carried'
  <2>1. CASE WorkerCrash
    BY <2>1 DEF WorkerCrash, Crash, Carried, TypeOK
  <2>2. CASE ~WorkerCrash
    BY <1>1, <1>2, <2>2
       DEF GateInv, Carried, WorkerNext, WorkerStep, ReachGate, WriteSummary,
           PersistSummary, SyncSources, SyncSourcesRaises, RecordSyncFailure,
           FinalWrite, PendingSummary, TypeOK, NoConnection, fault
  <2>3. QED
    BY <2>1, <2>2
<1>5. QED
  BY <1>1, <1>2, <1>3, <1>4 DEF GateInv

LEMMA GateReviews ==
  ASSUME TypeOK, GateInv, NoEarlyDecision, NEW r \in Reviewer,
         ReviewerNext(r), ~record_approval(r)
  PROVE  GateInv'
<1> USE DEF GateInv, AwaitingDecision, Decided, Carries, Carried, TypeOK, Decision,
            runRow, reviewer, operator, fault, DecisionDone
<1>1. CASE claim_pending_review(r)
  <2>1. approvals = <<>>
    <3>1. approvals # <<>> => approvals[1].decision \in Decision
      BY FirstDecision
    <3>2. QED
      BY <1>1, <3>1 DEF claim_pending_review
  <2>2. QED
    BY <1>1, <2>1 DEF claim_pending_review
<1>2. CASE unclaim_pending_review(r)
  BY <1>2 DEF unclaim_pending_review
<1>3. ASSUME NEW d \in Decision, OpenDecision(r, d) PROVE GateInv'
  BY <1>3 DEF OpenDecision
<1>4. CASE RefuseDecision(r)
  BY <1>4 DEF RefuseDecision
<1>5. CASE SyncReviewState(r)
  BY <1>5 DEF SyncReviewState
<1>6. CASE ReviewerCrash(r)
  BY <1>6 DEF ReviewerCrash, Crash
<1>7. CASE DecisionUnrecorded(r)
  BY <1>7 DEF DecisionUnrecorded, NoConnection
<1>8. CASE TouchReviewState(r)
  BY <1>8 DEF TouchReviewState
<1>9. QED
  BY <1>1, <1>2, <1>3, <1>4, <1>5, <1>6, <1>7, <1>8 DEF ReviewerNext

LEMMA GateResumes ==
  ASSUME TypeOK, GateInv, NoEarlyDecision, NEW o \in Operator, OperatorNext(o)
  PROVE  GateInv'
<1> USE DEF TypeOK, Decision, runRow, reviewer, operator, fault, OperatorStep, ResumeDone
<1> DEFINE x == approvals[1]
<1>1. approvals' = approvals /\ UNCHANGED <<claimed, wpc, reviewer>>
  BY DEF OperatorNext, CheckApproval, ReadCheckpoint, RefuseResume, WriteDeliverables,
         ReadApprover, ApproverUnread, PersistWriter, UpdateSummary, PublishSummary, OperatorCrash
<1>2. /\ approvals # <<>> /\ Decided(x) /\ x.decision = "approved"
  <2>1. approvals # <<>> => x.decision \in Decision
    BY FirstDecision
  <2>2. CASE CheckApproval(o)
    BY <2>1, <2>2 DEF CheckApproval, LatestDecision, GateInv, Decided
  <2>3. CASE opc[o] # "idle"
    BY <2>1, <2>3 DEF GateInv, AwaitingDecision, Decided
  <2>4. QED
    BY <2>2, <2>3
       DEF OperatorNext, ReadCheckpoint, RefuseResume, WriteDeliverables,
           ReadApprover, ApproverUnread, PersistWriter, UpdateSummary, PublishSummary, OperatorCrash
<1>3. Decided(approvals[1])'
  <2>1. CASE \/ CheckApproval(o) \/ ReadCheckpoint(o) \/ RefuseResume(o)
             \/ WriteDeliverables(o) \/ PublishSummary(o) \/ OperatorCrash(o)
    <3>1. PICK to \in {"checkpoint", "deliver", "idle", "approver"} :
            /\ opc' = [opc EXCEPT ![o] = to] /\ UNCHANGED <<status, approved_by, unread>>
            /\ \A p \in Operator \ {o} : oby'[p] = oby[p]
      BY <2>1 DEF CheckApproval, ReadCheckpoint, RefuseResume,
                  WriteDeliverables, PublishSummary, OperatorCrash
    <3>2. QED
      BY <1>1, <1>2, <3>1 DEF Decided, Carries
  <2>2. CASE ReadApprover(o)
    BY <1>1, <1>2, <2>2 DEF Decided, Carries, ReadApprover
  <2>3. CASE PersistWriter(o)
    BY <1>1, <1>2, <2>3 DEF Decided, Carries, PersistWriter, persist_checkpoint
  <2>4. CASE UpdateSummary(o)
    BY <1>1, <1>2, <2>4 DEF Decided, Carries, UpdateSummary, update_run_summary
  <2>5. CASE ApproverUnread(o)
    BY <1>1, <1>2, <2>5 DEF Decided, Carries, ApproverUnread
  <2>6. QED
    BY <2>1, <2>2, <2>3, <2>4, <2>5 DEF OperatorNext
<1>4. Carried'
  <2>1. CASE PublishSummary(o)
    BY <1>1, <1>2, <2>1 DEF PublishSummary, GateInv, Carried
  <2>2. CASE OperatorCrash(o)
    BY <1>1, <1>2, <2>2 DEF OperatorCrash, Crash, GateInv, Carried, TypeOK
  <2>3. CASE UNCHANGED <<summary, crashes>>
    BY <1>1, <2>3 DEF GateInv, Carried
  <2>4. QED
    BY <2>1, <2>2, <2>3
       DEF OperatorNext, CheckApproval, ReadCheckpoint, RefuseResume, WriteDeliverables,
           ReadApprover, ApproverUnread, PersistWriter, UpdateSummary, NoConnection
<1>5. QED
  BY <1>1, <1>2, <1>3, <1>4 DEF GateInv

LEMMA GateStep == TypeOK /\ GateInv /\ [Next]_vars => GateInv'
<1> SUFFICES ASSUME TypeOK, GateInv, [Next]_vars, NoEarlyDecision' PROVE GateInv'
  BY DEF GateInv
<1>1. NoEarlyDecision
  BY EarlyStays
<1>2. CASE UNCHANGED vars
  BY <1>1, <1>2 DEF vars, runRow, reviewer, operator, fault, GateInv, AwaitingDecision, Decided,
                    Carries, Carried
<1>3. QED
  BY <1>1, <1>2, GateRecords, GateWorks, GateReviews, GateResumes DEF Next

LEMMA GateInvHolds == Spec => []GateInv
BY GateInitially, GateStep, GateTypeCorrect, PTL DEF Spec

(* A run decided after its worker was done keeps that one decision, its     *)
(* approver and its row through any interleaving of claims, late decisions, *)
(* resumes and crashes (record_approval, resume_reviewed_run).              *)
THEOREM GateHonouredHolds == Spec => []GateHonoured
<1>1. ASSUME GateInv, NoEarlyDecision
      PROVE  /\ Len(approvals) <= 1
             /\ approvals = <<>> => receipts = <<>> /\ status \in {"running", "awaiting_review"}
             /\ approvals # <<>> => Decided(approvals[1])
  <2>1. CASE approvals = <<>>
    BY <1>1, <2>1, EmptySeq DEF GateInv, AwaitingDecision
  <2>2. CASE approvals # <<>>
    <3>1. Decided(approvals[1])
      BY <1>1, <2>2 DEF GateInv
    <3>2. Len(approvals) <= 1
      BY <3>1 DEF Decided
    <3>3. QED
      BY <2>2, <3>1, <3>2
  <2>3. QED
    BY <2>1, <2>2
<1>2. GateInv => GateHonoured
  BY <1>1 DEF GateHonoured, Decided, Carries
<1>3. QED
  BY <1>2, GateInvHolds, PTL

(* And without a crash the file the executive pages read says so when all   *)
(* is quiet (_sync_run_summary_review_state, resume_reviewed_run).          *)
THEOREM SummaryCarriesDecisionHolds == Spec => []SummaryCarriesDecision
<1>1. GateInv => SummaryCarriesDecision
  BY DEF GateInv, Decided, Carried, SummaryCarriesDecision, LatestDecision
<1>2. QED
  BY <1>1, GateInvHolds, PTL
=============================================================================

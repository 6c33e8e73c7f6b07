--------------------------- MODULE FindingReview ---------------------------
(***************************************************************************)
(* The findings of one run (workflow.py, agents/finance_agents.py,         *)
(* quality.py): drafted by the analyst, marked by the fail-closed evidence *)
(* policy, challenged and answered in rounds, locked by the auditor, held  *)
(* at the review gate when the run is governed, and written into the case  *)
(* file, while the source files can still be edited.                       *)
(***************************************************************************)
EXTENDS Integers, FiniteSets

CONSTANTS
  Finding,      \* the findings the detectors produced
  Minimum,      \* minimum_challenged_findings
  MaxRounds     \* max_rounds

ASSUME FindingAssumption ==
  /\ IsFiniteSet(Finding)
  /\ Minimum \in Nat
  /\ MaxRounds \in Nat \ {0}

(* What the auditor asks about: fewer than three citations; a recoverable   *)
(* amount above the leakage, or without its calculation.                    *)
Flaw == {"citations", "calculation"}

Confidence == {"HIGH", "MEDIUM", "LOW"}

FindingStage == {"ingest", "select", "respond", "verify", "audited",
          "awaiting_review", "approved", "resuming", "writer", "failed"}

VARIABLES
  pipeline,      \* FindingStage: where the run stands
  governed,   \* requires_human_review (and stop_before_writer)
  partial,    \* run_mode "partial": evidence roles may be missing
  flaws,      \* per finding: what is wrong with the draft itself
  disk,       \* findings whose evidence the source files carry
  bundle,     \* findings whose evidence the loaded bundle resolves
  drafted,    \* findings whose evidence resolved when they were drafted
  status,     \* Finding.status
  confidence, \* Finding.confidence
  asked,      \* challenges of the current round
  log,        \* audit events: [round, action, finding]
  round,      \* round_no
  gate,       \* confidences in the checkpoint the reviewer reads
  casefile    \* findings written, with their confidence

reviewVars == <<pipeline, governed, partial, flaws, disk, bundle, drafted, status,
                confidence, asked, log, round, gate, casefile>>

Entry == [round : 1..MaxRounds, finding : Finding,
          action : {"challenge", "response", "lock", "block", "max_rounds"}]

FindingTypeOK ==
  /\ pipeline \in FindingStage
  /\ governed \in BOOLEAN /\ partial \in BOOLEAN
  /\ flaws \in [Finding -> SUBSET Flaw]
  /\ disk \subseteq Finding /\ bundle \subseteq Finding /\ drafted \subseteq Finding
  /\ status \in [Finding -> {"draft", "challenged", "blocked", "locked"}]
  /\ confidence \in [Finding -> Confidence]
  /\ asked \subseteq Finding
  /\ log \subseteq Entry
  /\ round \in 1..(MaxRounds + 1)
  /\ gate \in [Finding -> Confidence]
  /\ casefile \subseteq Finding \X Confidence

(* The detectors' drafts.  A finding with fewer than three citations has    *)
(* fewer than three that resolve.                                           *)
FindingInit ==
  /\ pipeline = "ingest"
  /\ governed \in BOOLEAN /\ partial \in BOOLEAN
  /\ flaws \in [Finding -> SUBSET Flaw]
  /\ disk \in SUBSET {f \in Finding : "citations" \notin flaws[f]}
  /\ bundle = disk
  /\ drafted = {}
  /\ status = [f \in Finding |-> "draft"]
  /\ confidence \in [Finding -> Confidence]
  /\ asked = {} /\ log = {} /\ round = 1
  /\ gate = confidence
  /\ casefile = {}

----------------------------------------------------------------------------
(* The evidence policy.                                                     *)

(* assess_finding_evidence: three citations must resolve in the bundle, by  *)
(* manifest, source hash and locator, and OCR evidence must be verified.    *)
Publishable(f) == f \in bundle

(* apply_fail_closed_evidence_policy.                                       *)
apply_fail_closed_evidence_policy(was, believed) ==
  /\ status' = [f \in Finding |-> IF Publishable(f) THEN was[f] ELSE "blocked"]
  /\ confidence' =
       [f \in Finding |-> IF Publishable(f) THEN believed[f] ELSE "LOW"]

(* The source files are edited: a cited file's hash is no longer the one    *)
(* the citation carries.                                                    *)
EditSource(f) ==
  /\ f \in disk
  /\ pipeline # "writer"
  /\ disk' = disk \ {f}
  /\ UNCHANGED <<pipeline, governed, partial, flaws, bundle, drafted, status,
                 confidence, asked, log, round, gate, casefile>>

----------------------------------------------------------------------------
(* ingest and analyst.                                                      *)

draft_findings ==
  /\ pipeline = "ingest"
  /\ drafted' = bundle
  /\ apply_fail_closed_evidence_policy(status, confidence)
  /\ pipeline' = "select"
  /\ UNCHANGED <<governed, partial, flaws, disk, bundle, asked, log, round,
                 gate, casefile>>

----------------------------------------------------------------------------
(* auditor: run_review_rounds.                                              *)

Challenged == {e.finding : e \in {x \in log : x.action = "challenge"}}

HasIssues(f) == flaws[f] # {} \/ status[f] = "blocked"

IsWeak(f) == confidence[f] # "HIGH" \/ HasIssues(f)

Open == {f \in Finding : status[f] # "locked" /\ f \notin Challenged}

Least(a, b) == IF a <= b THEN a ELSE b

(* The sample that fills the round up to the minimum, weak findings first   *)
(* (between equals the amounts and the identifiers decide).                 *)
Samples(flawed) ==
  LET rest == Open \ flawed
      wanted == Minimum - Cardinality(Challenged \cup flawed)
  IN {s \in SUBSET rest :
        /\ Cardinality(s) = (IF wanted <= 0 THEN 0
                             ELSE Least(wanted, Cardinality(rest)))
        /\ \A f \in s, g \in rest \ s : IsWeak(g) => IsWeak(f)}

(* Mutant: the round stops at the minimum also for findings with issues.    *)
RoundChallenges_CAPPED ==
  {s \in SUBSET Open : /\ Cardinality(s) = Least(Cardinality(Open),
                            IF Minimum > Cardinality(Challenged)
                              THEN Minimum - Cardinality(Challenged) ELSE 0)}

(* _select_round_challenges: everything with an issue, once, and a sample.  *)
RoundChallenges ==
  LET flawed == {f \in Open : HasIssues(f)}
  IN {flawed \cup s : s \in Samples(flawed)}

Log(action, findings) ==
  log' = log \cup [round : {round}, action : {action}, finding : findings]

Challenge ==
  /\ pipeline = "select"
  /\ round <= MaxRounds
  /\ \E c \in RoundChallenges :
       /\ c # {}
       /\ asked' = c
       /\ status' = [f \in Finding |-> IF f \in c THEN "challenged" ELSE status[f]]
       /\ Log("challenge", c)
  /\ pipeline' = "respond"
  /\ UNCHANGED <<governed, partial, flaws, disk, bundle, drafted, confidence,
                 round, gate, casefile>>

Downgraded(c) == IF c = "HIGH" THEN "MEDIUM" ELSE "LOW"

(* respond_to_challenges: was_blocked is read after the auditor has set the *)
(* status to challenged.                                                    *)
respond_to_challenges ==
  /\ pipeline = "respond"
  /\ confidence' = [f \in Finding |-> IF f \in asked /\ flaws[f] # {}
                                        THEN Downgraded(confidence[f])
                                        ELSE confidence[f]]
  /\ status' = [f \in Finding |-> IF f \in asked /\ status[f] # "blocked"
                                    THEN "draft" ELSE status[f]]
  /\ Log("response", asked)
  /\ asked' = {}
  /\ round' = round + 1
  /\ pipeline' = "select"
  /\ UNCHANGED <<governed, partial, flaws, disk, bundle, drafted, gate, casefile>>

(* _lock_ready_findings, in the round nothing is left to ask.               *)
LockReady ==
  /\ pipeline = "select"
  /\ round <= MaxRounds
  /\ RoundChallenges = {{}}
  /\ LET held == {f \in Finding : status[f] = "blocked"}
         ready == {f \in Finding : status[f] # "locked"} \ held
     IN /\ status' = [f \in Finding |-> IF f \in ready THEN "locked" ELSE status[f]]
        /\ log' = log
             \cup [round : {round}, action : {"lock"}, finding : ready]
             \cup [round : {round}, action : {"block"}, finding : held]
             \cup [round : {MaxRounds}, action : {"max_rounds"}, finding : held]
  /\ pipeline' = "verify"
  /\ UNCHANGED <<governed, partial, flaws, disk, bundle, drafted, confidence,
                 asked, round, gate, casefile>>

(* verify_acceptance_coverage: the run fails when too few were challenged.  *)
verify_acceptance_coverage ==
  /\ pipeline = "verify"
  /\ pipeline' = IF Cardinality(Challenged) >= Least(Minimum, Cardinality(Finding))
                THEN "audited" ELSE "failed"
  /\ UNCHANGED <<governed, partial, flaws, disk, bundle, drafted, status,
                 confidence, asked, log, round, gate, casefile>>

----------------------------------------------------------------------------
(* The gate, the resume and the writer.                                     *)

(* _should_enter_review_gate: the findings go into the checkpoint.          *)
EnterGate ==
  /\ pipeline = "audited" /\ governed
  /\ gate' = confidence
  /\ pipeline' = "awaiting_review"
  /\ UNCHANGED <<governed, partial, flaws, disk, bundle, drafted, status,
                 confidence, asked, log, round, casefile>>

(* The reviewer's decision: module ReviewGate.                              *)
ApproveFindings ==
  /\ pipeline = "awaiting_review"
  /\ pipeline' = "approved"
  /\ UNCHANGED <<governed, partial, flaws, disk, bundle, drafted, status,
                 confidence, asked, log, round, gate, casefile>>

(* resume_reviewed_run: the findings come from the checkpoint, the bundle   *)
(* is loaded again.                                                         *)
ReloadBundle ==
  /\ pipeline = "approved"
  /\ bundle' = disk
  /\ pipeline' = "resuming"
  /\ UNCHANGED <<governed, partial, flaws, disk, drafted, status, confidence,
                 asked, log, round, gate, casefile>>

(* Mutant: the status the auditor left decides what is withheld.            *)
write_all_BY_STATUS ==
  /\ pipeline = "resuming" \/ (pipeline = "audited" /\ ~governed)
  /\ LET blocked == {f \in Finding : status[f] = "blocked"}
     IN IF blocked # {} /\ ~partial
          THEN /\ pipeline' = IF governed THEN "approved" ELSE "failed"
               /\ UNCHANGED <<status, confidence, casefile>>
          ELSE /\ pipeline' = "writer"
               /\ casefile' = {<<f, confidence[f]>> : f \in Finding \ blocked}
               /\ UNCHANGED <<status, confidence>>
  /\ UNCHANGED <<governed, partial, flaws, disk, bundle, drafted, asked, log,
                 round, gate>>

(* write_all: the policy once more; a full run refuses weak evidence, a     *)
(* partial one withholds it.  A resume that fails can be tried again, from  *)
(* the same checkpoint.                                                     *)
write_all ==
  /\ pipeline = "resuming" \/ (pipeline = "audited" /\ ~governed)
  /\ LET blocked == {f \in Finding : ~Publishable(f)}
     IN IF blocked # {} /\ ~partial
          THEN /\ pipeline' = IF governed THEN "approved" ELSE "failed"
               /\ UNCHANGED <<status, confidence, casefile>>
          ELSE /\ pipeline' = "writer"
               /\ apply_fail_closed_evidence_policy(status, confidence)
               /\ casefile' = {<<f, confidence[f]>> : f \in Finding \ blocked}
  /\ UNCHANGED <<governed, partial, flaws, disk, bundle, drafted, asked, log,
                 round, gate>>

FindingNext ==
  \/ draft_findings
  \/ Challenge
  \/ respond_to_challenges
  \/ LockReady
  \/ verify_acceptance_coverage
  \/ EnterGate
  \/ ApproveFindings
  \/ ReloadBundle
  \/ write_all
  \/ \E f \in Finding : EditSource(f)

FindingSpec == FindingInit /\ [][FindingNext]_reviewVars

----------------------------------------------------------------------------
(* Properties.                                                              *)

Audited == pipeline \notin {"ingest", "select", "respond", "verify"}

(* The audit rounds always reach their own acceptance check: after them no  *)
(* finding with an issue, in itself or in its evidence, went unchallenged,  *)
(* at least the minimum was challenged, and each challenge has an answer    *)
(* in its round (run_review_rounds never raises); and no finding is locked  *)
(* before the last answer or asked after its lock                           *)
(* (test_finance_audit_runs_ping_pong_rounds_and_locks_findings).           *)
WeakAreChallenged ==
  /\ Audited =>
       /\ \A f \in Finding :
            (flaws[f] # {} \/ f \notin drafted) => f \in Challenged
       /\ Cardinality(Challenged) >= Least(Minimum, Cardinality(Finding))
       /\ \A e \in log : e.action = "challenge" =>
            [e EXCEPT !.action = "response"] \in log
  /\ \A e, x \in log :
       e.action = "lock" /\ x.action \in {"challenge", "response"}
         => e.round > x.round

(* Whatever the rounds made of a finding's status, and whatever was edited  *)
(* while the run waited for its reviewer, the case file holds only findings *)
(* whose evidence the writer's own bundle resolves, all of them in a full   *)
(* run, and with the confidence the reviewer saw.                           *)
PublishedIsEvidenced ==
  pipeline = "writer" =>
    /\ \A f \in Finding : (\E c \in Confidence : <<f, c>> \in casefile) <=> f \in bundle
    /\ ~partial => bundle = Finding
    /\ governed => \A f \in bundle : <<f, gate[f]>> \in casefile

(* What _lock_ready_findings says of a blocked finding: it remains blocked. *)
BlockedStaysBlocked ==
  \A f \in Finding : pipeline # "ingest" /\ f \notin drafted => status[f] # "locked"

============================================================================

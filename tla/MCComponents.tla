---------------------------- MODULE MCComponents ----------------------------
(* The components that keep one record, file or protocol each, checked side *)
(* by side: a behaviour picks one of them and runs its next-state relation, *)
(* the others stay where they start. One instance, one run, no interleaving *)
(* of components that share no state.                                       *)
EXTENDS ConversationState, DecisionLifecycle, BoardMemory, ExecutiveDecisions,
        InferenceAudit, ToolEffects, AgentHandoffs, FindingReview, SourcePacks,
        Projections, LocalRuns, ReviewFiles, RecoveryLedger, TwinRecords,
        TwinMessaging, AnswerRouting

CONSTANTS m1, m2, m3, m4, m5, m6, m7, approve, old, new, observation,
          group_manager, cfo, ceo, margin_q2

VARIABLE component

Component ==
  {"workspace", "decisions", "board", "executive", "audit", "effects",
   "handoffs", "findings", "packs", "projections", "local", "vault",
   "ledger", "twins", "messages", "answers"}

allVars ==
  <<component, workspaceVars, decisionVars, boardVars, executiveVars, auditVars,
    effectVars, handoffVars, reviewVars, packVars, projectionVars, localVars,
    vaultVars, rows, recordVars, twinVars, routingVars>>

(* Three twins in one line of escalation; the cfo owns the KPI with a gap.   *)
Owners == (margin_q2 :> cfo)
Escalation == (group_manager :> cfo) @@ (cfo :> ceo) @@ (ceo :> Human)

(* Where a component with several initial states rests when another runs.   *)
WorkspaceIdle ==
  /\ workspace = [p \in Persona |-> [version |-> 0, threads |-> {}]]
  /\ page = [x \in Device |-> NewPage(NoScope)]
  /\ typed = {}

HandoffIdle == gap = {} /\ HandoffInit

FindingIdle ==
  /\ governed = FALSE /\ partial = FALSE
  /\ flaws = [x \in Finding |-> {}] /\ disk = {}
  /\ confidence = [x \in Finding |-> "LOW"]
  /\ pipeline = "ingest" /\ bundle = {} /\ drafted = {}
  /\ status = [x \in Finding |-> "draft"]
  /\ asked = {} /\ log = {} /\ round = 1 /\ gate = confidence /\ casefile = {}

PackIdle ==
  /\ fits = [x \in File |-> [at |-> "historic"]] /\ work = NoContext
  /\ overrides = {} /\ unreadable = FALSE /\ confirmed = {} /\ readings = {}
  /\ dataset = [r \in Root |-> {}] /\ context = [r \in Root |-> NoContext]

(* Fits that differ in what nothing reads stand for one another: the period *)
(* of a file that is not current, the columns of one that is historic.      *)
PackFits ==
  /\ PackInit
  /\ \A x \in File : fits[x].at # "current" => fits[x].period = 1
  /\ \A x \in File : fits[x].at = "historic" => fits[x].exact

ProjectionIdle ==
  /\ graph = [nodes |-> {}, edges |-> {}] /\ graphStore = graph
  /\ persisted = FALSE /\ points = FALSE /\ chunks = {} /\ finish = "artifacts"
  /\ ready = {}

RoutingIdle ==
  /\ question = [surface |-> "qa", mode |-> "auto", enabled |-> FALSE, run |-> FALSE]
  /\ RoutingInit

Init ==
  /\ component \in Component
  /\ IF component = "workspace" THEN WorkspaceInit ELSE WorkspaceIdle
  /\ IF component = "handoffs" THEN HandoffInit ELSE HandoffIdle
  /\ IF component = "findings" THEN FindingInit ELSE FindingIdle
  /\ IF component = "packs" THEN PackFits ELSE PackIdle
  /\ IF component = "projections" THEN ProjectionInit ELSE ProjectionIdle
  /\ IF component = "answers" THEN RoutingInit ELSE RoutingIdle
  /\ DecisionInit /\ BoardInit /\ ExecutiveInit /\ AuditInit /\ EffectInit
  /\ LocalInit /\ VaultInit /\ LedgerInit /\ TwinInit
  /\ RecordsInit /\ (component # "twins" => hatchet = FALSE)

(* The variables of every component but one are unchanged.                    *)
Only(name) ==
  /\ component = name /\ component' = name
  /\ name # "workspace" => UNCHANGED workspaceVars
  /\ name # "decisions" => UNCHANGED decisionVars
  /\ name # "board" => UNCHANGED boardVars
  /\ name # "executive" => UNCHANGED executiveVars
  /\ name # "audit" => UNCHANGED auditVars
  /\ name # "effects" => UNCHANGED effectVars
  /\ name # "handoffs" => UNCHANGED handoffVars
  /\ name # "findings" => UNCHANGED reviewVars
  /\ name # "packs" => UNCHANGED packVars
  /\ name # "projections" => UNCHANGED projectionVars
  /\ name # "local" => UNCHANGED localVars
  /\ name # "vault" => UNCHANGED vaultVars
  /\ name # "ledger" => UNCHANGED rows
  /\ name # "twins" => UNCHANGED recordVars
  /\ name # "messages" => UNCHANGED twinVars
  /\ name # "answers" => UNCHANGED routingVars

Next ==
  \/ Only("workspace") /\ WorkspaceNext
  \/ Only("decisions") /\ DecisionNext
  \/ Only("board") /\ BoardNext
  \/ Only("executive") /\ ExecutiveNext
  \/ Only("audit") /\ AuditNext
  \/ Only("effects") /\ EffectNext
  \/ Only("handoffs") /\ HandoffNext
  \/ Only("findings") /\ FindingNext
  \/ Only("packs") /\ PackNext
  \/ Only("projections") /\ ProjectionNext
  \/ Only("local") /\ LocalNext
  \/ Only("vault") /\ VaultNext
  \/ Only("ledger") /\ LedgerNext
  \/ Only("twins") /\ RecordsNext
  \/ Only("messages") /\ TwinNext
  \/ Only("answers") /\ RoutingNext

Spec == Init /\ [][Next]_allVars

Symmetry ==
  Permutations({m1, m2}) \cup Permutations({m3, m4})
    \cup Permutations({m5, m6})
=============================================================================

--------------------------- MODULE PipelineProofs ---------------------------
(***************************************************************************)
(* Proofs about the components a governed run goes through: the handoffs   *)
(* its tasks create, the source pack it reads, the review of its findings, *)
(* the stores it is projected into, the vault of reviewed files and the    *)
(* directories of a run without a database, for any number of tasks,       *)
(* files, findings, requests, uploads and runs.                            *)
(***************************************************************************)
EXTENDS AgentHandoffs, Projections, SourcePacks, ReviewFiles, LocalRuns,
        FindingReview, TLAPS, SequenceTheorems, FiniteSetTheorems, WellFoundedInduction

(* Every non-empty set of natural numbers has a least member.               *)
LEMMA LeastExists ==
  ASSUME NEW T \in SUBSET Nat, T # {}
  PROVE  Min(T) \in T /\ \A y \in T : Min(T) <= y
<1> DEFINE R == {ss \in Nat \X Nat : ss[1] < ss[2]}
<1>1. OpToRel(<, Nat) = R
  BY DEF OpToRel
<1>2. PICK x \in T : \A y \in T : ~(<<y, x>> \in R)
  <2> HIDE DEF R
  <2> QED
    BY <1>1, NatLessThanWellFounded, WFMin, Zenon
<1>3. \A y \in T : x <= y
  <2> TAKE y \in T
  <2>1. x \in Nat /\ y \in Nat
    OBVIOUS
  <2>2. y < x => <<y, x>> \in R
    <3> HAVE y < x
    <3>1. <<y, x>> \in Nat \X Nat /\ <<y, x>>[1] < <<y, x>>[2]
      BY <2>1
    <3> QED
      BY <3>1, Zenon
  <2>3. ~(y < x)
    <3> HIDE DEF R
    <3> QED
      BY <1>2, <2>2, Zenon
  <2>4. QED
    BY <2>1, <2>3
<1>4. QED
  BY <1>3, Zenon DEF Min

(* A finite set has an element of the highest rank.                         *)
LEMMA HighestExists ==
  ASSUME NEW S, IsFiniteSet(S), S # {}, NEW rank \in [S -> Int]
  PROVE  \E x \in S : \A y \in S : rank[y] <= rank[x]
<1> DEFINE Peaked(s) == \E x \in s : \A y \in s : rank[y] <= rank[x]
           T == {n \in Nat : \E s \in SUBSET S :
                   s # {} /\ Cardinality(s) = n /\ ~Peaked(s)}
<1>1. SUFFICES T = {}
  <2>1. Cardinality(S) \in Nat /\ S \in SUBSET S
    BY FS_CardinalityType
  <2> QED
    BY <1>1, <2>1
<1>2. SUFFICES ASSUME T # {} PROVE FALSE
  OBVIOUS
<1>3. PICK n \in T : \A k \in T : n <= k
  <2>1. T \in SUBSET Nat
    OBVIOUS
  <2> HIDE DEF T
  <2> QED
    BY <1>2, <2>1, LeastExists
<1>4. PICK s \in SUBSET S : s # {} /\ Cardinality(s) = n /\ ~Peaked(s)
  BY <1>3
<1>5. PICK x \in s : TRUE
  BY <1>4
<1> DEFINE rest == s \ {x}
<1>6. IsFiniteSet(s) /\ IsFiniteSet(rest) /\ rest \in SUBSET S
  BY FS_Subset
<1>7. Cardinality(rest) = n - 1 /\ Cardinality(rest) \in Nat
  <2>1. Cardinality(s \ {x}) = IF x \in s THEN Cardinality(s) - 1 ELSE Cardinality(s)
    BY <1>6, FS_RemoveElement, Zenon
  <2> QED
    BY <1>4, <1>5, <1>6, <2>1, FS_CardinalityType
<1>8. rest = {} \/ Peaked(rest)
  <2>1. n - 1 \notin T
    BY <1>3
  <2> QED
    BY <1>6, <1>7, <2>1
<1>9. CASE rest = {}
  <2>1. s = {x}
    BY <1>5, <1>9
  <2>2. rank[x] <= rank[x]
    BY <1>5
  <2> QED
    BY <1>4, <2>1, <2>2
<1>10. CASE Peaked(rest)
  <2>1. PICK m \in rest : \A y \in rest : rank[y] <= rank[m]
    BY <1>10
  <2>2. rank[x] \in Int /\ rank[m] \in Int /\ \A y \in s : rank[y] \in Int
    BY <1>5, <2>1
  <2>3. CASE rank[x] <= rank[m]
    BY <1>4, <2>1, <2>3
  <2>4. CASE rank[m] <= rank[x]
    <3>1. \A y \in s : rank[y] <= rank[x]
      BY <2>1, <2>2, <2>4
    <3> QED
      BY <1>4, <1>5, <3>1
  <2> QED
    BY <2>2, <2>3, <2>4
<1> QED
  BY <1>8, <1>9, <1>10

----------------------------------------------------------------------------
(* AgentHandoffs                                                            *)

Proposing == {"recorded", "budgeted", "created", "queued", "linked"}

(* A success stands once it is recorded, unless it found no connection, and *)
(* a worker creates, queues and links the child in this order.              *)
ProposedInOrder ==
  \A s \in Source :
    /\ proposer[s] \in Proposing => source[s] = "succeeded" \/ s \in unrecorded
    /\ child[s] # "none" => source[s] = "succeeded" \/ s \in unrecorded
    /\ proposer[s] = "created" => child[s] # "none"
    /\ proposer[s] \in {"queued", "linked"} => child[s] \notin {"none", "proposed"}
    /\ handoff[s] # "none" => child[s] \notin {"none", "proposed"}

HandoffInv == HandoffTypeOK /\ ProposedInOrder

LEMMA HandoffInitially == HandoffInit => HandoffInv
BY DEF HandoffInit, HandoffInv, HandoffTypeOK, ProposedInOrder, Proposing, TaskState

LEMMA HandoffStep == HandoffInv /\ [HandoffNext]_handoffVars => HandoffInv'
<1> SUFFICES ASSUME HandoffInv, [HandoffNext]_handoffVars
             PROVE  HandoffInv'
  OBVIOUS
<1> USE DEF HandoffInv, HandoffTypeOK, ProposedInOrder, Proposing, TaskState,
            HandoffAt, handoffRows
<1>1. CASE UNCHANGED handoffVars
  BY <1>1 DEF handoffVars
<1>2. ASSUME NEW s \in Source,
             \/ ClaimSource(s) \/ FailSource(s) \/ RecordSuccess(s)
             \/ RefusedSuccess(s) \/ RecordSuccessUnrecorded(s) \/ TimeOutSource(s)
      PROVE  HandoffInv'
  BY <1>2 DEF ClaimSource, FailSource, RecordSuccess, RefusedSuccess,
              RecordSuccessUnrecorded, TimeOutSource
<1>3. ASSUME NEW s \in Source, CheckBudget(s)
      PROVE  HandoffInv'
  BY <1>3 DEF CheckBudget
<1>4. ASSUME NEW s \in Source, CreateChild(s)
      PROVE  HandoffInv'
  BY <1>4 DEF CreateChild
<1>5. ASSUME NEW s \in Source, QueueChild(s)
      PROVE  HandoffInv'
  BY <1>5 DEF QueueChild
<1>6. ASSUME NEW s \in Source, create_handoff(s) \/ AcceptHandoff(s) \/ AcceptSkipped(s)
      PROVE  HandoffInv'
  BY <1>6 DEF create_handoff, AcceptHandoff, AcceptSkipped
<1>7. ASSUME NEW s \in Source, WorkerDies(s)
      PROVE  HandoffInv'
  BY <1>7 DEF WorkerDies
<1>8. ASSUME NEW s \in Source, ClaimChild(s) \/ SettleChild(s)
      PROVE  HandoffInv'
  BY <1>8 DEF ClaimChild, SettleChild
<1> QED
  BY <1>1, <1>2, <1>3, <1>4, <1>5, <1>6, <1>7, <1>8 DEF HandoffNext, HandoffProgress

LEMMA HandoffInvHolds == HandoffSpec => []HandoffInv
BY HandoffInitially, HandoffStep, PTL DEF HandoffSpec

(* Only a task whose success stands, or found no connection, hands work on, *)
(* never one whose success was refused because the reconciler had timed it  *)
(* out under its worker (_create_proposed_handoffs).                        *)
THEOREM StartsAfterSourceHolds == HandoffSpec => []StartsAfterSource
<1>1. HandoffInv => StartsAfterSource
  BY DEF HandoffInv, ProposedInOrder, StartsAfterSource
<1> QED
  BY <1>1, HandoffInvHolds, PTL

(* A handoff row names a child that is queued or further, wherever the      *)
(* worker that creates them dies.                                           *)
THEOREM HandoffNamesRunnableChildHolds == HandoffSpec => []HandoffNamesRunnableChild
<1>1. HandoffInv => HandoffNamesRunnableChild
  BY DEF HandoffInv, ProposedInOrder, HandoffNamesRunnableChild
<1> QED
  BY <1>1, HandoffInvHolds, PTL

----------------------------------------------------------------------------
(* Projections                                                              *)

(* The graph store is empty until the run is in Postgres and the guardrails *)
(* have passed, and the run goes on only past all of a graph or none.       *)
ProjectedInOrder ==
  /\ finish = "persisted" => persisted
  /\ graphStore.nodes \subseteq graph.nodes /\ graphStore.edges \subseteq graph.edges
  /\ finish \in {"artifacts", "persisted", "unpersisted", "relations", "nodes"}
       => graphStore.nodes = {}
  /\ finish \in {"relations", "nodes", "upsert"} => persisted
  /\ graphStore.nodes # {} => persisted
  /\ finish \in {"graph", "findings", "sources", "completed"} =>
       \/ graphStore.nodes = {}
       \/ /\ graphStore.nodes = graph.nodes
          /\ graphStore.edges = Anchored(graph)
  /\ finish \in {"sources", "completed"} => chunks \in {{}, Chunk}

ProjectionInv == ProjectionTypeOK /\ ProjectedInOrder

LEMMA ProjectionInitially == ProjectionInit => ProjectionInv
<1> SUFFICES ASSUME ProjectionInit PROVE ProjectionInv
  OBVIOUS
<1>1. graph \in GraphOf /\ graphStore \in GraphOf
  BY DEF ProjectionInit, build_knowledge_graph, GraphOf
<1>2. ProjectionTypeOK
  BY <1>1 DEF ProjectionInit, ProjectionTypeOK, Finish
<1>3. ProjectedInOrder
  BY <1>1 DEF ProjectionInit, ProjectedInOrder, GraphOf
<1> QED
  BY <1>2, <1>3 DEF ProjectionInv

LEMMA ProjectionStep ==
  ProjectionInv /\ [ProjectionNext]_projectionVars => ProjectionInv'
<1> SUFFICES ASSUME ProjectionInv, [ProjectionNext]_projectionVars
             PROVE  ProjectionInv'
  OBVIOUS
<1> USE DEF ProjectionInv, ProjectionTypeOK, ProjectedInOrder, GraphOf, Finish
<1>1. CASE UNCHANGED projectionVars
  BY <1>1 DEF projectionVars, Anchored
<1>2. CASE _persist_run_summary_best_effort
  <2>1. /\ finish = "artifacts" /\ finish' \in {"persisted", "unpersisted"}
        /\ finish' = "persisted" => persisted'
        /\ persisted' \in BOOLEAN /\ graphStore.nodes = {}
        /\ UNCHANGED <<graph, graphStore, points, chunks, ready>>
    BY <1>2 DEF _persist_run_summary_best_effort
  <2> QED
    BY <2>1
<1>3. CASE PassGuardrails \/ SkipGraph
  <2>1. /\ graphStore.nodes = {} /\ finish' \in {"relations", "graph"}
        /\ finish' = "relations" => persisted
        /\ UNCHANGED <<graph, persisted, graphStore, points, chunks, ready>>
    <3>1. CASE PassGuardrails
      BY <3>1 DEF PassGuardrails
    <3>2. CASE SkipGraph
      BY <3>2 DEF SkipGraph
    <3> QED
      BY <1>3, <3>1, <3>2
  <2> QED
    BY <2>1
<1>4. CASE DeleteRelations
  <2>1. /\ graphStore'.nodes = graphStore.nodes /\ graphStore'.edges = {}
        /\ graphStore' \in GraphOf
    BY <1>4 DEF DeleteRelations
  <2> QED
    BY <1>4, <2>1 DEF DeleteRelations
<1>5. CASE DeleteNodes
  BY <1>5 DEF DeleteNodes
<1>6. CASE _upsert_node
  BY <1>6 DEF _upsert_node
<1>7. CASE _upsert_edge
  BY <1>7 DEF _upsert_edge, Anchored
<1>8. CASE GraphSynced
  BY <1>8 DEF GraphSynced, Anchored
<1>9. CASE sync_findings_vector_store
  BY <1>9 DEF sync_findings_vector_store, Anchored
<1>10. CASE IndexBatch \/ SourcesIndexed \/ RunFinished
  BY <1>10 DEF IndexBatch, SourcesIndexed, RunFinished, Anchored
<1>11. CASE StoreFails \/ ProcessDies
  BY <1>11 DEF StoreFails, ProcessDies
<1>12. CASE graph_status_for_run
  BY <1>12 DEF graph_status_for_run, Anchored
<1> QED
  BY <1>1, <1>2, <1>3, <1>4, <1>5, <1>6, <1>7, <1>8, <1>9, <1>10, <1>11, <1>12
     DEF ProjectionNext

(* Neo4j holds part of the run's graph at most and nothing that Postgres    *)
(* does not have; a completed run has left no half of a graph or index      *)
(* behind (sync_knowledge_graph behind _projection_guardrails).             *)
THEOREM ProjectionFollowsPostgresHolds ==
  ProjectionSpec => []ProjectionFollowsPostgres
<1>1. ProjectionInv => ProjectionFollowsPostgres
  BY DEF ProjectionInv, ProjectedInOrder, ProjectionFollowsPostgres
<1> QED
  BY <1>1, ProjectionInitially, ProjectionStep, PTL DEF ProjectionSpec

----------------------------------------------------------------------------
(* ReviewFiles                                                              *)

(* An upload beyond the rename has its file in the vault and its own id on  *)
(* the entry it carries.                                                    *)
UploadsStored ==
  \A u \in Upload :
    /\ upload[u].pc \in {"stored", "stamped", "loaded", "listed"} => u \in vault
    /\ upload[u].pc \in {"stamped", "loaded"} =>
         upload[u].entry \in FileEntry /\ upload[u].entry.id = u

(* One upload at most is between its read and its write of the manifest,    *)
(* and it has read what it will replace.                                    *)
OneWriter ==
  \A u \in Upload : upload[u].pc = "loaded" =>
    /\ \A v \in Upload : upload[v].pc = "loaded" => u = v
    /\ upload[u].items \in Seq(FileEntry)
    /\ \A e \in ToSet(upload[u].items) : e.id \in vault
    /\ misreads = 0 => upload[u].items = manifest

ManifestStored == \A e \in ToSet(manifest) \cup shown : e.id \in vault

VaultInv ==
  /\ VaultTypeOK
  /\ UploadsStored
  /\ OneWriter
  /\ ManifestStored
  /\ LostOnlyToMisread

LEMMA AppendToSet ==
  ASSUME NEW D, NEW s \in Seq(D), NEW d \in D
  PROVE  ToSet(Append(s, d)) = ToSet(s) \cup {d}
<1>1. /\ DOMAIN Append(s, d) = DOMAIN s \cup {Len(s) + 1}
      /\ \A i \in DOMAIN s : Append(s, d)[i] = s[i]
      /\ Append(s, d)[Len(s) + 1] = d
  OBVIOUS
<1> QED
  BY <1>1, Zenon DEF ToSet

LEMMA RegistryOfManifest == _uploaded_registry \subseteq ToSet(manifest)
<1>1. \A n \in FileName : LatestOf(n) \subseteq ToSet(manifest)
  BY DEF LatestOf, ToSet
<1> QED
  BY <1>1 DEF _uploaded_registry

LEMMA VaultInitially == VaultInit => VaultInv
<1> SUFFICES ASSUME VaultInit PROVE VaultInv
  OBVIOUS
<1>1. VaultTypeOK
  BY VaultAssumption DEF VaultInit, VaultTypeOK, Uploading
<1>2. ToSet(manifest) = {}
  BY DEF VaultInit, ToSet
<1> QED
  BY <1>1, <1>2 DEF VaultInit, VaultInv, UploadsStored, OneWriter,
     ManifestStored, LostOnlyToMisread

(* What one upload does to itself: only its own record changes.             *)
LEMMA UploadMoves ==
  ASSUME VaultTypeOK, NEW u \in Upload, NEW r \in Uploading,
         upload' = [upload EXCEPT ![u] = r]
  PROVE  /\ upload' \in [Upload -> Uploading]
         /\ upload'[u] = r
         /\ \A v \in Upload \ {u} : upload'[v] = upload[v]
BY Zenon DEF VaultTypeOK

(* Steps that leave the vault and the manifest alone, and start no read.    *)
LEMMA QuietUpload ==
  ASSUME VaultInv, NEW u \in Upload, NEW r \in Uploading,
         upload' = [upload EXCEPT ![u] = r],
         UNCHANGED <<vault, manifest, shown, misreads, time>>,
         r.pc \in {"writing", "over", "stamped"},
         r.pc = "stamped" => u \in vault /\ r.entry \in FileEntry /\ r.entry.id = u
  PROVE  VaultInv'
<1>1. /\ upload' \in [Upload -> Uploading]
      /\ upload'[u] = r
      /\ \A v \in Upload \ {u} : upload'[v] = upload[v]
  BY UploadMoves DEF VaultInv
<1>2. VaultTypeOK'
  BY <1>1 DEF VaultInv, VaultTypeOK
<1>3. UploadsStored'
  BY <1>1 DEF VaultInv, UploadsStored
<1>4. OneWriter'
  BY <1>1 DEF VaultInv, OneWriter
<1>5. ManifestStored'
  BY DEF VaultInv, ManifestStored
<1>6. LostOnlyToMisread'
  BY <1>1 DEF VaultInv, LostOnlyToMisread
<1> QED
  BY <1>2, <1>3, <1>4, <1>5, <1>6 DEF VaultInv

(* A read of the manifest, or one that fails and counts as empty.           *)
LEMMA ReadUpload ==
  ASSUME VaultInv, NEW u \in Upload, NEW s \in Seq(FileEntry),
         upload[u].pc = "stamped",
         \A v \in Upload : upload[v].pc # "loaded",
         upload' = [upload EXCEPT ![u] =
                      [pc |-> "loaded", entry |-> upload[u].entry, items |-> s]],
         \A e \in ToSet(s) : e.id \in vault,
         misreads' \in 0..MaxMisreads, misreads' = 0 => misreads = 0 /\ s = manifest,
         UNCHANGED <<vault, manifest, shown, time>>
  PROVE  VaultInv'
<1> DEFINE r == [pc |-> "loaded", entry |-> upload[u].entry, items |-> s]
<1>0. upload[u].entry \in FileEntry /\ upload[u].entry.id = u /\ u \in vault
  BY DEF VaultInv, UploadsStored
<1>1. r \in Uploading /\ r.pc = "loaded" /\ r.items = s /\ r.entry = upload[u].entry
  BY <1>0 DEF Uploading
<1>2. /\ upload' \in [Upload -> Uploading]
      /\ upload'[u] = r
      /\ \A v \in Upload \ {u} : upload'[v] = upload[v]
  BY <1>1, UploadMoves DEF VaultInv
<1> HIDE DEF r
<1>3. VaultTypeOK'
  BY <1>2 DEF VaultInv, VaultTypeOK
<1>4. UploadsStored'
  BY <1>0, <1>1, <1>2 DEF VaultInv, UploadsStored
<1>5. OneWriter'
  <2>1. \A v \in Upload : upload'[v].pc = "loaded" => v = u
    BY <1>2
  <2>2. /\ upload'[u].items \in Seq(FileEntry)
        /\ \A e \in ToSet(upload'[u].items) : e.id \in vault'
        /\ misreads' = 0 => upload'[u].items = manifest'
    BY <1>1, <1>2
  <2> QED
    BY <2>1, <2>2 DEF OneWriter
<1>6. ManifestStored'
  BY DEF VaultInv, ManifestStored
<1>7. LostOnlyToMisread'
  BY <1>1, <1>2 DEF VaultInv, LostOnlyToMisread
<1> QED
  BY <1>3, <1>4, <1>5, <1>6, <1>7 DEF VaultInv

LEMMA WriteUpload ==
  ASSUME VaultInv, NEW u \in Upload, _save_tenant_manifest(u)
  PROVE  VaultInv'
<1> DEFINE r == [pc |-> "listed"]
<1>1. r \in Uploading /\ r.pc = "listed"
  BY DEF Uploading
<1>2. /\ upload' \in [Upload -> Uploading]
      /\ upload'[u] = r
      /\ \A v \in Upload \ {u} : upload'[v] = upload[v]
  BY <1>1, UploadMoves DEF VaultInv, _save_tenant_manifest
<1> HIDE DEF r
<1>3. /\ upload[u].pc = "loaded" /\ u \in vault
      /\ upload[u].entry \in FileEntry /\ upload[u].entry.id = u
      /\ upload[u].items \in Seq(FileEntry)
      /\ \A e \in ToSet(upload[u].items) : e.id \in vault
      /\ misreads = 0 => upload[u].items = manifest
      /\ \A v \in Upload \ {u} : upload[v].pc # "loaded"
  BY DEF VaultInv, UploadsStored, OneWriter, _save_tenant_manifest
<1>4. /\ manifest' = Append(upload[u].items, upload[u].entry)
      /\ UNCHANGED <<vault, shown, misreads, time>>
  BY DEF _save_tenant_manifest
<1>5. /\ manifest' \in Seq(FileEntry)
      /\ ToSet(manifest') = ToSet(upload[u].items) \cup {upload[u].entry}
  BY <1>3, <1>4, AppendToSet
<1>6. VaultTypeOK'
  BY <1>2, <1>4, <1>5 DEF VaultInv, VaultTypeOK
<1>7. UploadsStored'
  BY <1>1, <1>2, <1>3, <1>4 DEF VaultInv, UploadsStored
<1>8. OneWriter'
  BY <1>1, <1>2, <1>3 DEF OneWriter
<1>9. ManifestStored'
  BY <1>3, <1>4, <1>5 DEF VaultInv, ManifestStored
<1>10. LostOnlyToMisread'
  <2> SUFFICES ASSUME misreads' = 0, NEW v \in Upload, upload'[v].pc = "listed"
               PROVE  \E e \in ToSet(manifest') : e.id = v
    BY DEF LostOnlyToMisread
  <2>1. CASE v = u
    BY <2>1, <1>3, <1>5
  <2>2. CASE v # u
    <3>1. upload[v].pc = "listed" /\ misreads = 0
      BY <2>2, <1>2, <1>4
    <3>2. PICK e \in ToSet(manifest) : e.id = v
      BY <3>1 DEF VaultInv, LostOnlyToMisread
    <3> QED
      BY <3>1, <3>2, <1>3, <1>5
  <2> QED
    BY <2>1, <2>2
<1> QED
  BY <1>6, <1>7, <1>8, <1>9, <1>10 DEF VaultInv

LEMMA StoreUpload ==
  ASSUME VaultInv, NEW u \in Upload, StoreFile(u)
  PROVE  VaultInv'
<1> DEFINE r == [pc |-> "stored"]
<1>1. r \in Uploading /\ r.pc = "stored"
  BY DEF Uploading
<1>2. /\ upload' \in [Upload -> Uploading]
      /\ upload'[u] = r
      /\ \A v \in Upload \ {u} : upload'[v] = upload[v]
  BY <1>1, UploadMoves DEF VaultInv, StoreFile
<1> HIDE DEF r
<1>3. vault' = vault \cup {u} /\ UNCHANGED <<manifest, shown, misreads, time>>
  BY DEF StoreFile
<1>4. VaultTypeOK'
  BY <1>2, <1>3 DEF VaultInv, VaultTypeOK
<1>5. UploadsStored'
  BY <1>1, <1>2, <1>3 DEF VaultInv, UploadsStored
<1>6. OneWriter'
  BY <1>1, <1>2, <1>3 DEF VaultInv, OneWriter
<1>7. ManifestStored'
  BY <1>3 DEF VaultInv, ManifestStored
<1>8. LostOnlyToMisread'
  BY <1>1, <1>2, <1>3 DEF VaultInv, LostOnlyToMisread
<1> QED
  BY <1>4, <1>5, <1>6, <1>7, <1>8 DEF VaultInv

LEMMA StopUploads ==
  ASSUME VaultInv, StopServer
  PROVE  VaultInv'
<1>1. \A u \in Upload : /\ upload'[u] \in Uploading
                        /\ upload'[u] = upload[u] \/ upload'[u].pc = "over"
                        /\ upload'[u].pc \in {"new", "listed", "over"}
  BY DEF StopServer, VaultInv, VaultTypeOK, Uploading
<1>2. UNCHANGED <<vault, manifest, shown, misreads, time>>
  BY DEF StopServer
<1>3. VaultTypeOK'
  BY <1>1, <1>2 DEF VaultInv, VaultTypeOK, StopServer
<1>4. UploadsStored' /\ OneWriter' /\ ManifestStored' /\ LostOnlyToMisread'
  BY <1>1, <1>2 DEF VaultInv, UploadsStored, OneWriter, ManifestStored,
     LostOnlyToMisread
<1> QED
  BY <1>3, <1>4 DEF VaultInv

LEMMA VaultStep == VaultInv /\ [VaultNext]_vaultVars => VaultInv'
<1> SUFFICES ASSUME VaultInv, [VaultNext]_vaultVars PROVE VaultInv'
  OBVIOUS
<1>1. CASE UNCHANGED vaultVars
  BY <1>1 DEF vaultVars, VaultInv, VaultTypeOK, UploadsStored, OneWriter,
     ManifestStored, LostOnlyToMisread
<1>2. ASSUME NEW u \in Upload, StartUpload(u) \/ RejectUpload(u) PROVE VaultInv'
  <2>1. \A x \in {"writing", "over"} : [pc |-> x] \in Uploading
    BY DEF Uploading
  <2> QED
    BY <1>2, <2>1, QuietUpload DEF StartUpload, RejectUpload
<1>3. ASSUME NEW u \in Upload, StoreFile(u) PROVE VaultInv'
  BY <1>3, StoreUpload
<1>4. ASSUME NEW u \in Upload, NEW n \in FileName, StampEntry(u, n) PROVE VaultInv'
  <2> DEFINE entry == [id |-> u, name |-> n, at |-> time]
             r     == [pc |-> "stamped", entry |-> entry]
  <2>1. entry \in FileEntry /\ entry.id = u
    BY DEF FileEntry, VaultInv, VaultTypeOK
  <2>2. r \in Uploading /\ r.pc = "stamped" /\ r.entry = entry
    BY <2>1 DEF Uploading
  <2>3. /\ u \in vault /\ upload' = [upload EXCEPT ![u] = r]
        /\ UNCHANGED <<vault, manifest, shown, misreads, time>>
    BY <1>4 DEF StampEntry, VaultInv, UploadsStored
  <2> HIDE DEF r, entry
  <2> QED
    BY <2>1, <2>2, <2>3, QuietUpload
<1>5. ASSUME NEW u \in Upload, LoadManifest(u) PROVE VaultInv'
  <2>1. manifest \in Seq(FileEntry) /\ \A e \in ToSet(manifest) : e.id \in vault
    BY DEF VaultInv, VaultTypeOK, ManifestStored
  <2>2. misreads' = misreads /\ misreads \in 0..MaxMisreads
    BY <1>5 DEF LoadManifest, VaultInv, VaultTypeOK
  <2> QED
    BY <1>5, <2>1, <2>2, ReadUpload DEF LoadManifest
<1>6. ASSUME NEW u \in Upload, MisreadManifest(u) PROVE VaultInv'
  <2>1. <<>> \in Seq(FileEntry) /\ ToSet(<<>>) = {}
    BY DEF ToSet
  <2>2. misreads' \in 0..MaxMisreads /\ misreads' # 0
    BY <1>6, VaultAssumption DEF MisreadManifest, VaultInv, VaultTypeOK
  <2> QED
    BY <1>6, <2>1, <2>2, ReadUpload DEF MisreadManifest
<1>7. ASSUME NEW u \in Upload, _save_tenant_manifest(u) PROVE VaultInv'
  BY <1>7, WriteUpload
<1>8. CASE StopServer
  BY <1>8, StopUploads
<1>9. CASE TickClock
  <2>1. time' \in 0..MaxStamp
    BY <1>9, VaultAssumption DEF TickClock, VaultInv, VaultTypeOK
  <2> QED
    BY <1>9, <2>1 DEF TickClock, VaultInv, VaultTypeOK, UploadsStored, OneWriter,
       ManifestStored, LostOnlyToMisread
<1>10. CASE build_review_file_registry
  <2>1. shown' \subseteq shown \cup ToSet(manifest)
    BY <1>10, RegistryOfManifest DEF build_review_file_registry
  <2>2. ToSet(manifest) \subseteq FileEntry
    BY DEF ToSet, VaultInv, VaultTypeOK
  <2> QED
    BY <1>10, <2>1, <2>2 DEF build_review_file_registry, VaultInv, VaultTypeOK,
       UploadsStored, OneWriter, ManifestStored, LostOnlyToMisread
<1> QED
  BY <1>1, <1>2, <1>3, <1>4, <1>5, <1>6, <1>7, <1>8, <1>9, <1>10 DEF VaultNext

LEMMA VaultInvHolds == VaultSpec => []VaultInv
BY VaultInitially, VaultStep, PTL DEF VaultSpec

(* An upload that was answered is in the manifest, however uploads of one   *)
(* process interleave, unless a read of the manifest failed                 *)
(* (save_review_file_upload under _VAULT_LOCK).                          *)
THEOREM LostOnlyToMisreadHolds == VaultSpec => []LostOnlyToMisread
<1>1. VaultInv => LostOnlyToMisread
  BY DEF VaultInv
<1> QED
  BY <1>1, VaultInvHolds, PTL

(* Every entry of the manifest, and every entry that was ever listed, has   *)
(* its whole file in the vault, wherever the server stopped.                *)
THEOREM ListedIsStoredHolds == VaultSpec => []ListedIsStored
<1>1. VaultInv => ListedIsStored
  BY DEF VaultInv, ManifestStored, ListedIsStored
<1> QED
  BY <1>1, VaultInvHolds, PTL

----------------------------------------------------------------------------
(* SourcePacks                                                              *)

Roles(files) == {fits[f].role : f \in files}

(* A run that found "full" in its context, or no context, loads strictly,   *)
(* and what it has loaded resolves every role.                              *)
StrictlyRead ==
  \A q \in Request :
    /\ work[q].pc = "lenient" => work[q].reading.mode = "partial"
    /\ work[q].pc = "derive" /\ work[q].reading.mode = "full" =>
         Roles(work[q].reading.files) = Role

PackInv == PackTypeOK /\ StrictlyRead /\ FullRunsAreComplete

LEMMA PackOperators ==
  ASSUME PackTypeOK
  PROVE  /\ LoadOverrides \subseteq File
         /\ \A seen : Selected(seen) \subseteq File /\ Available(seen) \subseteq Role
         /\ \A q \in Request : RootOf(q) \in Root
<1>1. LoadOverrides \subseteq File
  BY DEF PackTypeOK, LoadOverrides
<1>2. ASSUME NEW seen
      PROVE  Selected(seen) \subseteq File /\ Available(seen) \subseteq Role
  <2>1. \A r : _run_model_role_inventory(seen, r) \subseteq File
    BY DEF _run_model_role_inventory, _role_inventory, Current
  <2> QED
    BY <2>1 DEF Selected, Available
<1> QED
  BY <1>1, <1>2 DEF RootOf, Root

(* A step of request q changes no other request's record.                   *)
OneMoves(q) ==
  /\ DOMAIN work' = Request
  /\ work'[q] \in Work
  /\ \A p \in Request \ {q} : work'[p] = work[p]

LEMMA OneMovesTyped ==
  ASSUME PackTypeOK, NEW q \in Request, OneMoves(q), fits' = fits,
         overrides' \subseteq File, unreadable' \in BOOLEAN, confirmed' \subseteq File,
         dataset' \in [Root -> SUBSET File],
         context' \in [Root -> RunContext \cup {NoContext}],
         readings' \subseteq Reading,
         work' = [p \in DOMAIN work' |-> work'[p]]
  PROVE  PackTypeOK'
BY DEF PackTypeOK, OneMoves

(* The steps in which request q touches nothing a run has read.             *)
LEMMA PackQuiet ==
  ASSUME PackInv, PackTypeOK', NEW q \in Request, OneMoves(q),
         UNCHANGED <<fits, readings>>,
         work'[q].pc \notin {"lenient", "derive"}
  PROVE  PackInv'
<1>1. StrictlyRead'
  BY DEF PackInv, StrictlyRead, Roles, OneMoves
<1>2. FullRunsAreComplete'
  BY DEF PackInv, FullRunsAreComplete
<1> QED
  BY <1>1, <1>2 DEF PackInv

LEMMA FreshTyped == Fresh \in Work
<1>1. Nothing \in Reading
  BY DEF Nothing, Reading, Mode
<1> QED
  BY <1>1 DEF Fresh, Work, Operation

(* What Go does to the record of its request.                               *)
LEMMA GoTo ==
  ASSUME PackTypeOK, NEW q \in Request,
         NEW pc \in {"fill", "checked", "reload", "write", "empty", "copy", "open",
                     "strict", "over"},
         Go(q, pc)
  PROVE  /\ OneMoves(q) /\ work' = [p \in DOMAIN work' |-> work'[p]]
         /\ work'[q].pc = pc
         /\ pc # "over" => work'[q].seen = work[q].seen
<1> DEFINE old == IF pc = "over" THEN Fresh ELSE work[q]
<1>1. old \in Work /\ work \in [Request -> Work]
  BY FreshTyped DEF PackTypeOK
<1>2. work' = [work EXCEPT ![q] = [old EXCEPT !.pc = pc]]
  BY DEF Go
<1>3. pc # "over" => old = work[q]
  OBVIOUS
<1> HIDE DEF old
<1>4. /\ [old EXCEPT !.pc = pc] \in Work
      /\ [old EXCEPT !.pc = pc].pc = pc /\ [old EXCEPT !.pc = pc].seen = old.seen
  BY <1>1 DEF Work
<1>5. work'[q] = [old EXCEPT !.pc = pc]
  BY <1>1, <1>2
<1> QED
  BY <1>1, <1>2, <1>3, <1>4, <1>5 DEF OneMoves

LEMMA PackInitially == PackInit => PackInv
<1> SUFFICES ASSUME PackInit PROVE PackInv
  OBVIOUS
<1>2. work = [q \in Request |-> Fresh]
  BY DEF PackInit
<1>3. work \in [Request -> Work]
  BY <1>2, FreshTyped
<1>4. PackTypeOK
  BY <1>3 DEF PackInit, PackTypeOK
<1>5. StrictlyRead /\ FullRunsAreComplete
  BY <1>2 DEF PackInit, StrictlyRead, FullRunsAreComplete, Fresh
<1> QED
  BY <1>4, <1>5 DEF PackInv

(* Every action of a request but the loads and the derivation.              *)
LEMMA PackQuietSteps ==
  ASSUME PackInv, NEW q \in Request,
         \/ \E op \in Operation, fs \in SUBSET File, b \in BOOLEAN : BeginRequest(q, op, fs, b)
         \/ ClearNormalized(q) \/ CopyNormalized(q) \/ _payload_for(q)
         \/ RequestFails(q)
         \/ ReloadOverrides(q) \/ TruncateOverrides(q) \/ WriteOverrides(q)
         \/ PassGate(q) \/ ClearPartial(q) \/ CopyPartial(q) \/ FinishPartial(q)
         \/ _write_source_pack_run_context(q)
  PROVE  PackInv'
<1> DEFINE Rest ==
      /\ fits' = fits /\ readings' = readings
      /\ overrides' \subseteq File /\ unreadable' \in BOOLEAN
      /\ confirmed' \subseteq File
      /\ dataset' \in [Root -> SUBSET File]
      /\ context' \in [Root -> RunContext \cup {NoContext}]
      /\ work' = [p \in DOMAIN work' |-> work'[p]]
    Quiet == Rest /\ OneMoves(q) /\ work'[q].pc \notin {"lenient", "derive"}
<1>0. /\ PackTypeOK /\ work[q] \in Work
      /\ DOMAIN work[q] = {"pc", "op", "file", "partial", "told", "seen", "left", "reading"}
  BY DEF PackInv, PackTypeOK, Work
<1> USE DEF OneMoves, PackTypeOK, Work, At
<1>1. ASSUME NEW op \in Operation, NEW fs \in SUBSET File, NEW b \in BOOLEAN,
             BeginRequest(q, op, fs, b)
      PROVE  Quiet
  BY <1>0, <1>1, PackOperators DEF BeginRequest
<1>2. ASSUME ClearNormalized(q) PROVE Quiet
  BY <1>0, <1>2, PackOperators DEF ClearNormalized
<1>3. ASSUME CopyNormalized(q) PROVE Quiet
  <2>1. PICK f \in File :
          /\ work' = [work EXCEPT ![q].left = @ \ {f}]
          /\ dataset' = [dataset EXCEPT !["normalized"] = @ \cup {f}]
          /\ UNCHANGED <<fits, overrides, unreadable, confirmed, context, readings>>
    BY <1>0, <1>3 DEF CopyNormalized
  <2>2. dataset' \in [Root -> SUBSET File]
    BY <1>0, <2>1 DEF Root
  <2>3. /\ OneMoves(q) /\ work'[q].pc = work[q].pc
        /\ work' = [p \in DOMAIN work' |-> work'[p]]
    BY <1>0, <2>1
  <2> QED
    BY <1>0, <1>3, <2>1, <2>2, <2>3 DEF CopyNormalized
<1>4. ASSUME _payload_for(q) PROVE Quiet
  <2> DEFINE next == CASE work[q].op = "validate" \/ work[q].told -> "over"
                       [] work[q].op = "confirm"  -> "reload"
                       [] OTHER                   -> "checked"
  <2>0. next \in {"over", "reload", "checked"}
    OBVIOUS
  <2>1. Go(q, next)
    BY <1>4 DEF _payload_for
  <2> HIDE DEF next
  <2>2. OneMoves(q) /\ work'[q].pc = next /\ work' = [p \in DOMAIN work' |-> work'[p]]
    BY <1>0, <2>0, <2>1, GoTo
  <2>3. Rest
    BY <1>0, <1>4, <2>2 DEF _payload_for
  <2> QED
    BY <2>0, <2>2, <2>3
<1>5. ASSUME RequestFails(q) PROVE Quiet
  BY <1>0, <1>5, GoTo DEF RequestFails
<1>6. ASSUME ReloadOverrides(q) PROVE Quiet
  BY <1>0, <1>6, PackOperators DEF ReloadOverrides
<1>7. ASSUME TruncateOverrides(q) PROVE Quiet
  BY <1>0, <1>7, GoTo DEF TruncateOverrides
<1>8. ASSUME WriteOverrides(q) PROVE Quiet
  BY <1>0, <1>8 DEF WriteOverrides
<1>9. ASSUME PassGate(q) PROVE Quiet
  BY <1>0, <1>9, GoTo DEF PassGate
<1>10. ASSUME ClearPartial(q) PROVE Quiet
  BY <1>0, <1>10 DEF ClearPartial, Root
<1>11. ASSUME CopyPartial(q) PROVE Quiet
  <2>1. PICK f \in File :
          /\ work' = [work EXCEPT ![q].left = @ \ {f}]
          /\ dataset' = [dataset EXCEPT !["partial"] = @ \cup {f}]
          /\ UNCHANGED <<fits, overrides, unreadable, confirmed, context, readings>>
    BY <1>0, <1>11 DEF CopyPartial
  <2>2. dataset' \in [Root -> SUBSET File]
    BY <1>0, <2>1 DEF Root
  <2>3. /\ OneMoves(q) /\ work'[q].pc = work[q].pc
        /\ work' = [p \in DOMAIN work' |-> work'[p]]
    BY <1>0, <2>1
  <2> QED
    BY <1>0, <1>11, <2>1, <2>2, <2>3 DEF CopyPartial
<1>12. ASSUME FinishPartial(q) PROVE Quiet
  BY <1>0, <1>12, GoTo DEF FinishPartial
<1>13. ASSUME _write_source_pack_run_context(q) PROVE Quiet
  BY <1>0, <1>13, PackOperators, GoTo
     DEF _write_source_pack_run_context, RunContext, Mode
<1>14. Quiet
  BY <1>1, <1>2, <1>3, <1>4, <1>5, <1>6, <1>7, <1>8, <1>9, <1>10, <1>11, <1>12, <1>13
<1>15. PackTypeOK'
  BY <1>0, <1>14, OneMovesTyped
<1> QED
  BY <1>14, <1>15, PackQuiet

LEMMA PackLoads ==
  ASSUME PackInv, NEW q \in Request, _load_run_metadata(q)
  PROVE  PackInv'
<1> DEFINE c == Claimed(context[RootOf(q)])
<1>0. PackTypeOK /\ work[q] \in Work /\ RootOf(q) \in Root
  BY PackOperators DEF PackInv, PackTypeOK
<1>1. c \in RunContext
  BY <1>0 DEF PackTypeOK, Claimed, RunContext, Mode
<1>2. /\ OneMoves(q)
      /\ work'[q].pc = IF c.mode = "partial" THEN "lenient" ELSE "read"
      /\ work'[q].reading.mode = c.mode
      /\ work' = [p \in DOMAIN work' |-> work'[p]]
  <2>1. work' = [work EXCEPT
          ![q].pc = IF c.mode = "partial" THEN "lenient" ELSE "read",
          ![q].reading.mode = c.mode, ![q].reading.claims = c.claims]
    BY DEF _load_run_metadata
  <2>2. work[q].reading \in Reading
    BY <1>0 DEF Work
  <2>3. c.mode \in Mode /\ c.claims \subseteq Role
    BY <1>1 DEF RunContext
  <2> HIDE DEF c
  <2>4. /\ DOMAIN work' = Request
        /\ \A p \in Request \ {q} : work'[p] = work[p]
        /\ work' = [p \in DOMAIN work' |-> work'[p]]
    <3>1. DOMAIN work = Request
      BY <1>0 DEF PackTypeOK
    <3>2. DOMAIN work' = Request
      BY <2>1, <3>1
    <3>3. \A p \in Request \ {q} : work'[p] = work[p]
      BY <2>1, <3>1
    <3>4. work' = [p \in DOMAIN work' |-> work'[p]]
      BY <2>1
    <3> QED
      BY <3>2, <3>3, <3>4
  <2> DEFINE read == [work[q].reading EXCEPT !.mode = c.mode, !.claims = c.claims]
             pc   == IF c.mode = "partial" THEN "lenient" ELSE "read"
  <2>5. read \in Reading /\ read.mode = c.mode
    BY <2>2, <2>3 DEF Reading
  <2>6. work'[q] = [work[q] EXCEPT !.pc = pc, !.reading = read]
    BY <1>0, <2>1 DEF PackTypeOK, Work
  <2> HIDE DEF read
  <2>7. work'[q] \in Work /\ work'[q].pc = pc /\ work'[q].reading = read
    BY <1>0, <2>5, <2>6 DEF Work
  <2> QED
    BY <2>4, <2>5, <2>7 DEF OneMoves
<1> HIDE DEF c
<1>3. UNCHANGED <<fits, overrides, unreadable, confirmed, dataset, context, readings>>
  BY DEF _load_run_metadata
<1>4. PackTypeOK'
  BY <1>0, <1>2, <1>3, OneMovesTyped DEF PackTypeOK
<1>5. StrictlyRead'
  BY <1>2, <1>3 DEF PackInv, StrictlyRead, OneMoves, Roles
<1>6. FullRunsAreComplete'
  BY <1>3 DEF PackInv, FullRunsAreComplete
<1> QED
  BY <1>4, <1>5, <1>6 DEF PackInv

LEMMA PackReads ==
  ASSUME PackInv, NEW q \in Request, load_dataset(q)
  PROVE  PackInv'
<1> DEFINE files == dataset[RootOf(q)]
<1>0. /\ PackTypeOK /\ work[q] \in Work /\ files \subseteq File
      /\ work[q].reading \in Reading
  BY PackOperators DEF PackInv, PackTypeOK, Work
<1>1. /\ work[q].pc = "lenient" => work[q].reading.mode = "partial"
      /\ work[q].pc # "lenient" => Roles(files) = Role
  BY DEF load_dataset, At, PackInv, StrictlyRead, Present, Roles
<1>2. /\ OneMoves(q) /\ work'[q].pc = "derive"
      /\ work'[q].reading.mode = work[q].reading.mode
      /\ work'[q].reading.files = files
      /\ work' = [p \in DOMAIN work' |-> work'[p]]
  <2>1. work' = [work EXCEPT ![q].pc = "derive", ![q].reading.files = files]
    BY DEF load_dataset
  <2> HIDE DEF files
  <2>2. /\ DOMAIN work' = Request
        /\ \A p \in Request \ {q} : work'[p] = work[p]
        /\ work' = [p \in DOMAIN work' |-> work'[p]]
    <3>1. DOMAIN work = Request
      BY <1>0 DEF PackTypeOK
    <3>2. DOMAIN work' = Request
      BY <2>1, <3>1
    <3>3. \A p \in Request \ {q} : work'[p] = work[p]
      BY <2>1, <3>1
    <3>4. work' = [p \in DOMAIN work' |-> work'[p]]
      BY <2>1
    <3> QED
      BY <3>2, <3>3, <3>4
  <2> DEFINE read == [work[q].reading EXCEPT !.files = files]
  <2>3. read \in Reading /\ read.files = files /\ read.mode = work[q].reading.mode
    BY <1>0 DEF Reading
  <2>4. work'[q] = [work[q] EXCEPT !.pc = "derive", !.reading = read]
    BY <1>0, <2>1 DEF PackTypeOK, Work
  <2> HIDE DEF read
  <2>5. work'[q] \in Work /\ work'[q].pc = "derive" /\ work'[q].reading = read
    BY <1>0, <2>3, <2>4 DEF Work
  <2> QED
    BY <2>2, <2>3, <2>5 DEF OneMoves
<1> HIDE DEF files
<1>3. UNCHANGED <<fits, overrides, unreadable, confirmed, dataset, context, readings>>
  BY DEF load_dataset
<1>4. PackTypeOK'
  BY <1>0, <1>2, <1>3, OneMovesTyped DEF PackTypeOK
<1>5. StrictlyRead'
  BY <1>1, <1>2, <1>3 DEF PackInv, StrictlyRead, OneMoves, Roles
<1>6. FullRunsAreComplete'
  BY <1>3 DEF PackInv, FullRunsAreComplete
<1> QED
  BY <1>4, <1>5, <1>6 DEF PackInv

LEMMA PackDerives ==
  ASSUME PackInv, NEW q \in Request, derive_source_finance_kpis(q)
  PROVE  PackInv'
<1> DEFINE reading == [work[q].reading EXCEPT !.later = dataset[RootOf(q)]]
<1>0. /\ PackTypeOK /\ work[q] \in Work /\ work[q].reading \in Reading
      /\ dataset[RootOf(q)] \subseteq File
  BY PackOperators DEF PackInv, PackTypeOK, Work
<1>1. /\ reading \in Reading /\ reading.mode = work[q].reading.mode
      /\ reading.files = work[q].reading.files
  BY <1>0 DEF Reading
<1>2. /\ readings' = readings \cup {reading}
      /\ UNCHANGED <<fits, overrides, unreadable, confirmed, dataset, context>>
  BY DEF derive_source_finance_kpis
<1> HIDE DEF reading
<1>3. /\ OneMoves(q) /\ work'[q].pc = "over"
      /\ work' = [p \in DOMAIN work' |-> work'[p]]
  BY <1>0, GoTo DEF derive_source_finance_kpis
<1>4. PackTypeOK'
  BY <1>0, <1>1, <1>2, <1>3, OneMovesTyped DEF PackTypeOK
<1>5. StrictlyRead'
  BY <1>2, <1>3 DEF PackInv, StrictlyRead, OneMoves, Roles
<1>6. reading.mode = "full" => Roles(reading.files) = Role
  BY <1>1 DEF derive_source_finance_kpis, At, PackInv, StrictlyRead
<1>7. FullRunsAreComplete'
  BY <1>2, <1>6 DEF PackInv, FullRunsAreComplete, Roles
<1> QED
  BY <1>4, <1>5, <1>7 DEF PackInv

LEMMA PackStep == PackInv /\ [PackNext]_packVars => PackInv'
<1> SUFFICES ASSUME PackInv, [PackNext]_packVars PROVE PackInv'
  OBVIOUS
<1>1. CASE UNCHANGED packVars
  BY <1>1 DEF packVars, PackInv, PackTypeOK, StrictlyRead, Roles, FullRunsAreComplete
<1>2. CASE PackNext
  <2> PICK q \in Request :
        \/ \E op \in Operation, fs \in SUBSET File, b \in BOOLEAN : BeginRequest(q, op, fs, b)
        \/ ClearNormalized(q) \/ CopyNormalized(q) \/ _payload_for(q)
        \/ RequestFails(q)
        \/ ReloadOverrides(q) \/ TruncateOverrides(q) \/ WriteOverrides(q)
        \/ PassGate(q) \/ ClearPartial(q) \/ CopyPartial(q) \/ FinishPartial(q)
        \/ _write_source_pack_run_context(q) \/ _load_run_metadata(q)
        \/ load_dataset(q) \/ derive_source_finance_kpis(q)
    BY <1>2 DEF PackNext, Operation
  <2> QED
    BY PackQuietSteps, PackLoads, PackReads, PackDerives
<1> QED
  BY <1>1, <1>2

(* However requests delete and rebuild the roots of one pack under each     *)
(* other's runs, a run that recorded "full" has loaded a file of every      *)
(* required role (_load_run_metadata, load_dataset).                        *)
THEOREM FullRunsAreCompleteHolds == PackSpec => []FullRunsAreComplete
<1>1. PackInv => FullRunsAreComplete
  BY DEF PackInv
<1> QED
  BY <1>1, PackInitially, PackStep, PTL DEF PackSpec

LeftOutRight(claims) ==
  \A f \in Current : \/ fits[f].role \in claims
                     \/ Duplicated(fits[f].role) \/ Shadowed(fits[f].role)

(* What passed the gate, what contexts claim and what runs have read of it. *)
ClaimsInv ==
  /\ \A q \in Request : /\ work[q].pc \in {"empty", "copy", "open"} =>
                             _unconfirmed_roles(work[q].seen) = {}
                        /\ work[q].pc \in {"read", "lenient", "derive"} =>
                             LeftOutRight(work[q].reading.claims)
  /\ \A r \in Root : context[r] # NoContext => LeftOutRight(context[r].claims)
  /\ \A r \in readings : LeftOutRight(r.claims)

(* A role with a current file whose mapping needs no confirmation, or has   *)
(* it, is available, or two of its most recent files claim it; one whose    *)
(* current files all need it is trusted for a restricted file.              *)
LEMMA AvailableOrNot ==
  ASSUME PackTypeOK, NEW seen, _unconfirmed_roles(seen) = {}
  PROVE  LeftOutRight(Available(seen))
<1> SUFFICES ASSUME NEW f \in Current, fits[f].role \notin Available(seen),
                    ~Shadowed(fits[f].role)
             PROVE  Duplicated(fits[f].role)
  BY DEF LeftOutRight
<1> DEFINE r == fits[f].role
           fs == _role_inventory(seen, r)
           rank == [g \in fs |-> fits[g].period]
           top == _run_model_role_inventory(seen, r)
<1>1. fits \in [File -> Fit] /\ IsFiniteSet(File) /\ Period \subseteq Int
  BY PackAssumption DEF PackTypeOK
<1>2. r \in Role /\ fs \subseteq File /\ fs \subseteq Current
      /\ \A g \in fs : fits[g].role = r
  BY <1>1 DEF _role_inventory, Current, Fit
<1>3. fs # {}
  <2> SUFFICES ASSUME fs = {} PROVE FALSE
    OBVIOUS
  <2>1. \A g \in Current : fits[g].role = r => g \notin Classified(seen) /\ ~fits[g].exact
    BY DEF _role_inventory, Classified, Current
  <2>2. PICK g \in Classified(seen) : fits[g].at # "historic" /\ fits[g].role = r
    BY <2>1 DEF _unconfirmed_roles
  <2>3. g \in File /\ fits[g].at = "restricted"
    BY <1>1, <2>1, <2>2 DEF Classified, Current, Fit, Disposition
  <2> QED
    BY <2>1, <2>2, <2>3 DEF Shadowed
<1>4. rank \in [fs -> Int]
  BY <1>1, <1>2 DEF Fit
<1>5. IsFiniteSet(fs)
  BY <1>1, <1>2, FS_Subset
<1>6. PICK g \in fs : \A h \in fs : rank[h] <= rank[g]
  <2> HIDE DEF fs, rank
  <2> QED
    BY <1>3, <1>4, <1>5, HighestExists
<1>7. top = {k \in fs : \A h \in fs : fits[h].period <= fits[k].period}
  BY DEF _run_model_role_inventory
<1>8. g \in top
  BY <1>6, <1>7
<1>9. \E h \in top : h # g
  <2>1. Cardinality(top) # 1
    BY <1>2 DEF Available
  <2>2. top # {g}
    <3>1. Cardinality({g}) = 1
      BY FS_Singleton
    <3> HIDE DEF top
    <3> QED
      BY <2>1, <3>1
  <2> HIDE DEF top
  <2> QED
    BY <1>8, <2>2
<1>10. PICK h \in top : h # g
  BY <1>9
<1>11. h \in fs /\ fits[h].period <= fits[g].period /\ fits[g].period <= fits[h].period
  BY <1>7, <1>8, <1>10
<1>12. fits[h].period \in Int /\ fits[g].period \in Int
  BY <1>1, <1>2, <1>11 DEF Fit
<1>13. fits[h].period = fits[g].period
  BY <1>11, <1>12
<1> QED
  BY <1>2, <1>6, <1>10, <1>11, <1>13 DEF Duplicated

LEMMA ClaimsKept ==
  ASSUME ClaimsInv, NEW q \in Request, fits' = fits,
         \A p \in Request \ {q} : work'[p] = work[p],
         work[q]'.pc \in {"empty", "copy", "open"} => _unconfirmed_roles(work[q]'.seen) = {},
         work[q]'.pc \in {"read", "lenient", "derive"} => LeftOutRight(work[q]'.reading.claims),
         \A r \in Root : context[r]' # NoContext =>
           context[r]' = context[r] \/ LeftOutRight(context[r]'.claims),
         \A r \in readings' : r \in readings \/ LeftOutRight(r.claims)
  PROVE  ClaimsInv'
<1>1. ASSUME NEW claims, LeftOutRight(claims) PROVE LeftOutRight(claims)'
  BY <1>1 DEF LeftOutRight, Duplicated, Shadowed, Current
<1>2. \A seen : _unconfirmed_roles(seen) = {} => _unconfirmed_roles(seen)' = {}
  BY DEF _unconfirmed_roles, Classified, Current
<1>3. ASSUME NEW p \in Request
      PROVE  /\ work'[p].pc \in {"empty", "copy", "open"} =>
                  _unconfirmed_roles(work[p].seen)' = {}
             /\ work'[p].pc \in {"read", "lenient", "derive"} =>
                  LeftOutRight(work[p].reading.claims)'
  <2>1. /\ work'[p].pc \in {"empty", "copy", "open"} => _unconfirmed_roles(work'[p].seen) = {}
        /\ work'[p].pc \in {"read", "lenient", "derive"} =>
             LeftOutRight(work'[p].reading.claims)
    <3>1. CASE p = q
      BY <3>1
    <3>2. CASE p # q
      BY <3>2 DEF ClaimsInv
    <3> QED
      BY <3>1, <3>2
  <2> QED
    BY <2>1 DEF LeftOutRight, Duplicated, Shadowed, Current, _unconfirmed_roles, Classified
<1>4. ASSUME NEW r \in Root, context'[r] # NoContext PROVE LeftOutRight(context[r].claims)'
  <2>1. LeftOutRight(context'[r].claims)
    BY <1>4 DEF ClaimsInv
  <2> QED
    BY <2>1 DEF LeftOutRight, Duplicated, Shadowed, Current
<1>5. ASSUME NEW r \in readings' PROVE LeftOutRight(r.claims)'
  BY <1>1, <1>5 DEF ClaimsInv
<1> QED
  BY <1>3, <1>4, <1>5 DEF ClaimsInv

LEMMA ClaimsStep ==
  ASSUME PackInv, ClaimsInv, [PackNext]_packVars
  PROVE  ClaimsInv'
<1>0. PackTypeOK
  BY DEF PackInv
<1>1. CASE UNCHANGED packVars
  BY <1>1 DEF packVars, ClaimsInv, LeftOutRight, Duplicated, Shadowed, Current, _unconfirmed_roles, Classified
<1>2. CASE PackNext
  <2> PICK q \in Request :
        \/ \E op \in Operation, fs \in SUBSET File, b \in BOOLEAN : BeginRequest(q, op, fs, b)
        \/ ClearNormalized(q) \/ CopyNormalized(q) \/ _payload_for(q)
        \/ RequestFails(q)
        \/ ReloadOverrides(q) \/ TruncateOverrides(q) \/ WriteOverrides(q)
        \/ PassGate(q) \/ ClearPartial(q) \/ CopyPartial(q) \/ FinishPartial(q)
        \/ _write_source_pack_run_context(q) \/ _load_run_metadata(q)
        \/ load_dataset(q) \/ derive_source_finance_kpis(q)
    BY <1>2 DEF PackNext, Operation
  <2>0. /\ work \in [Request -> Work] /\ context \in [Root -> RunContext \cup {NoContext}]
        /\ work[q] \in Work /\ RootOf(q) \in Root
        /\ work[q].pc \in {"empty", "copy", "open"} => _unconfirmed_roles(work[q].seen) = {}
        /\ work[q].pc \in {"read", "lenient", "derive"} => LeftOutRight(work[q].reading.claims)
    BY <1>0, PackOperators DEF PackTypeOK, ClaimsInv
  <2> USE DEF Work, At, OneMoves
  <2>1. CASE \/ \E op \in Operation, fs \in SUBSET File, b \in BOOLEAN : BeginRequest(q, op, fs, b)
             \/ CopyNormalized(q) \/ _payload_for(q) \/ RequestFails(q)
             \/ ReloadOverrides(q) \/ TruncateOverrides(q) \/ WriteOverrides(q)
    <3> DEFINE Before == {"clear", "fill", "checked", "reload", "truncate", "write", "over"}
               Early == /\ fits' = fits /\ context' = context /\ readings' = readings
                        /\ \A p \in Request \ {q} : work'[p] = work[p]
                        /\ work'[q].pc \in Before
    <3>1. ASSUME NEW op \in Operation, NEW fs \in SUBSET File, NEW b \in BOOLEAN,
                 BeginRequest(q, op, fs, b)
          PROVE  Early
      BY <2>0, <3>1 DEF BeginRequest
    <3>2. ASSUME CopyNormalized(q) PROVE Early
      BY <2>0, <3>2 DEF CopyNormalized
    <3>3. ASSUME _payload_for(q) PROVE Early
      <4> DEFINE next == CASE work[q].op = "validate" \/ work[q].told -> "over"
                           [] work[q].op = "confirm"  -> "reload"
                           [] OTHER                   -> "checked"
      <4>1. next \in {"over", "reload", "checked"}
        OBVIOUS
      <4>2. Go(q, next)
        BY <3>3 DEF _payload_for
      <4> HIDE DEF next
      <4>3. OneMoves(q) /\ work'[q].pc = next
        BY <1>0, <4>1, <4>2, GoTo
      <4> QED
        BY <3>3, <4>1, <4>3 DEF _payload_for
    <3>4. ASSUME RequestFails(q) \/ ReloadOverrides(q) \/ TruncateOverrides(q) \/ WriteOverrides(q) PROVE Early
      BY <1>0, <2>0, <3>4, GoTo DEF RequestFails, ReloadOverrides, TruncateOverrides, WriteOverrides
    <3>5. Early
      BY <2>1, <3>1, <3>2, <3>3, <3>4
    <3> QED
      BY <3>5, ClaimsKept
  <2>2. CASE ClearNormalized(q)
    <3>1. /\ fits' = fits /\ readings' = readings
          /\ context' = [context EXCEPT !["normalized"] = NoContext]
          /\ \A p \in Request \ {q} : work'[p] = work[p]
          /\ work'[q].pc = "fill"
      BY <2>0, <2>2 DEF ClearNormalized
    <3>2. \A r \in Root : context'[r] # NoContext => context'[r] = context[r]
      BY <2>0, <3>1
    <3> QED
      BY <3>1, <3>2, ClaimsKept
  <2>3. CASE PassGate(q)
    <3>1. /\ fits' = fits /\ context' = context /\ readings' = readings
          /\ \A p \in Request \ {q} : work'[p] = work[p]
          /\ work'[q].pc \in {"empty", "open", "over"}
          /\ work'[q].pc # "over" => work'[q].seen = work[q].seen
          /\ _unconfirmed_roles(work[q].seen) = {}
      BY <1>0, <2>0, <2>3, GoTo DEF PassGate
    <3> QED
      BY <3>1, ClaimsKept
  <2>4. CASE ClearPartial(q)
    <3>1. /\ fits' = fits /\ readings' = readings
          /\ context' = [context EXCEPT !["partial"] = NoContext]
          /\ \A p \in Request \ {q} : work'[p] = work[p]
          /\ work'[q].pc = "copy" /\ work'[q].seen = work[q].seen
          /\ work[q].pc = "empty"
      BY <2>0, <2>4 DEF ClearPartial
    <3>2. \A r \in Root : context'[r] # NoContext => context'[r] = context[r]
      BY <2>0, <3>1
    <3> QED
      BY <2>0, <3>1, <3>2, ClaimsKept
  <2>5. CASE CopyPartial(q) \/ FinishPartial(q)
    <3>1. /\ fits' = fits /\ context' = context /\ readings' = readings
          /\ \A p \in Request \ {q} : work'[p] = work[p]
          /\ work'[q].pc \in {"copy", "open", "over"}
          /\ work'[q].pc # "over" => work'[q].seen = work[q].seen
          /\ work[q].pc = "copy"
      BY <1>0, <2>0, <2>5, GoTo DEF CopyPartial, FinishPartial
    <3> QED
      BY <2>0, <3>1, ClaimsKept
  <2>6. CASE _write_source_pack_run_context(q)
    <3> DEFINE c == [mode |-> IF Partial(q) THEN "partial" ELSE "full",
                     claims |-> Available(work[q].seen)]
    <3>1. /\ fits' = fits /\ readings' = readings
          /\ context' = [context EXCEPT ![RootOf(q)] = c]
          /\ \A p \in Request \ {q} : work'[p] = work[p]
          /\ work'[q].pc = "strict" /\ work[q].pc = "open"
      BY <1>0, <2>0, <2>6, GoTo DEF _write_source_pack_run_context
    <3>2. LeftOutRight(c.claims)
      BY <1>0, <2>0, <3>1, AvailableOrNot
    <3> HIDE DEF c
    <3>3. \A r \in Root : context'[r] = context[r] \/ context'[r] = c
      BY <2>0, <3>1
    <3> QED
      BY <3>1, <3>2, <3>3, ClaimsKept
  <2>7. CASE _load_run_metadata(q)
    <3> DEFINE c == Claimed(context[RootOf(q)])
               pc == IF c.mode = "partial" THEN "lenient" ELSE "read"
    <3>1. LeftOutRight(c.claims)
      <4>1. LeftOutRight(Role)
        BY <1>0 DEF LeftOutRight, PackTypeOK, Current, Fit
      <4>2. context[RootOf(q)] # NoContext => LeftOutRight(context[RootOf(q)].claims)
        BY <2>0 DEF ClaimsInv
      <4> QED
        BY <4>1, <4>2 DEF Claimed
    <3> HIDE DEF c
    <3>2. /\ fits' = fits /\ context' = context /\ readings' = readings
          /\ work' = [work EXCEPT ![q].pc = pc, ![q].reading.mode = c.mode,
                                  ![q].reading.claims = c.claims]
      BY <2>7 DEF _load_run_metadata, c
    <3> HIDE DEF pc
    <3> DEFINE read == [work[q].reading EXCEPT !.mode = c.mode, !.claims = c.claims]
    <3>3. read.claims = c.claims
      <4>1. work[q].reading \in Reading
        BY <2>0
      <4> QED
        BY <4>1 DEF Reading
    <3>4. work'[q] = [work[q] EXCEPT !.pc = pc, !.reading = read]
      BY <2>0, <3>2
    <3> HIDE DEF read
    <3>5. work'[q].reading = read /\ work'[q].pc = pc
      BY <2>0, <3>4
    <3>6. \A p \in Request \ {q} : work'[p] = work[p]
      BY <2>0, <3>2
    <3>7. pc \in {"lenient", "read"}
      BY DEF pc
    <3> QED
      BY <3>1, <3>2, <3>3, <3>5, <3>6, <3>7, ClaimsKept
  <2>8. CASE load_dataset(q)
    <3> DEFINE read == [work[q].reading EXCEPT !.files = dataset[RootOf(q)]]
    <3>1. /\ fits' = fits /\ context' = context /\ readings' = readings
          /\ work[q].pc \in {"read", "lenient"}
          /\ work' = [work EXCEPT ![q].pc = "derive", ![q].reading = read]
      BY <2>8 DEF load_dataset
    <3>2. read.claims = work[q].reading.claims
      <4>1. work[q].reading \in Reading
        BY <2>0
      <4> QED
        BY <4>1 DEF Reading
    <3> HIDE DEF read
    <3>3. work'[q].pc = "derive" /\ work'[q].reading = read
          /\ \A p \in Request \ {q} : work'[p] = work[p]
      BY <2>0, <3>1
    <3> QED
      BY <2>0, <3>1, <3>2, <3>3, ClaimsKept
  <2>9. CASE derive_source_finance_kpis(q)
    <3> DEFINE read == [work[q].reading EXCEPT !.later = dataset[RootOf(q)]]
    <3>1. /\ fits' = fits /\ context' = context
          /\ work[q].pc = "derive"
          /\ readings' = readings \cup {read}
          /\ Go(q, "over")
      BY <2>9 DEF derive_source_finance_kpis
    <3>2. read.claims = work[q].reading.claims
      <4>1. work[q].reading \in Reading
        BY <2>0
      <4> QED
        BY <4>1 DEF Reading
    <3> HIDE DEF read
    <3>3. work'[q].pc = "over" /\ \A p \in Request \ {q} : work'[p] = work[p]
      BY <1>0, <3>1, GoTo
    <3> QED
      BY <2>0, <3>1, <3>2, <3>3, ClaimsKept
  <2> QED
    BY <2>1, <2>2, <2>3, <2>4, <2>5, <2>6, <2>7, <2>8, <2>9
<1> QED
  BY <1>1, <1>2

(* A role that a current file fits is left out of a governed run only       *)
(* because two files of one period claim it or because a restricted file is *)
(* trusted for it, whatever other requests do to the overrides, the roots   *)
(* and the contexts meanwhile (resolve_source_pack_for_run,                 *)
(* _unconfirmed_roles, build_task_readiness).                               *)
THEOREM LeftOutForCauseHolds == PackSpec => []LeftOutForCause
<1>1. PackInit => ClaimsInv
  <2> SUFFICES ASSUME PackInit PROVE ClaimsInv
    OBVIOUS
  <2>1. \A q \in Request : work[q].pc = "new"
    BY DEF PackInit, Fresh
  <2> QED
    BY <2>1 DEF PackInit, ClaimsInv
<1>2. ClaimsInv => LeftOutForCause
  BY DEF ClaimsInv, LeftOutRight, LeftOutForCause
<1>3. PackInv /\ ClaimsInv /\ [PackNext]_packVars => PackInv' /\ ClaimsInv'
  BY PackStep, ClaimsStep
<1> QED
  BY <1>1, <1>2, <1>3, PackInitially, PTL DEF PackSpec

----------------------------------------------------------------------------
(* LocalRuns                                                                *)

(* The directories that exist were allocated, each to a run.                *)
Allocated == {r \in LocalRun : step[r] # "new"}

(* Fewer runs than names: allocate_run_dir always finds a free one.         *)
LEMMA FreeName ==
  ASSUME dirs \subseteq {dir[r] : r \in Allocated}
  PROVE  Min(Dir \ dirs) \in Dir
<1> DEFINE Named == {dir[r] : r \in Allocated}
<1>1. /\ IsFiniteSet(Allocated)
      /\ Cardinality(Allocated) <= Cardinality(LocalRun)
      /\ Cardinality(Allocated) \in Nat
      /\ Cardinality(LocalRun) \in Nat
  <2>1. Allocated \in SUBSET LocalRun
    BY DEF Allocated
  <2>2. QED
    BY <2>1, LocalAssumption, FS_Subset, FS_CardinalityType, Zenon
<1>2. IsFiniteSet(Named) /\ Cardinality(Named) <= Cardinality(Allocated)
  <2> DEFINE f == [r \in Allocated |-> dir[r]]
  <2>1. f \in Surjection(Allocated, Named)
    BY Zenon DEF Surjection
  <2>2. QED
    BY <1>1, <2>1, FS_Surjection, Zenon
<1>3. IsFiniteSet(dirs) /\ Cardinality(dirs) <= Cardinality(Named)
  <2>1. dirs \in SUBSET Named
    OBVIOUS
  <2>2. QED
    BY <1>2, <2>1, FS_Subset, Zenon
<1>4. Cardinality(Dir) = Cardinality(LocalRun) + 1
  <2> DEFINE n == Cardinality(LocalRun)
  <2>1. 0 \in Int /\ n \in Int
    BY <1>1
  <2> HIDE DEF n
  <2>2. Cardinality(0..n) = IF 0 > n THEN 0 ELSE n - 0 + 1
    BY <2>1, FS_Interval, Zenon
  <2>3. n \in Nat
    BY <1>1 DEF n
  <2>4. Cardinality(0..n) = n + 1
    BY <2>2, <2>3
  <2>5. QED
    BY <2>4 DEF n, Dir
<1>5. ~(Dir \subseteq dirs)
  <2> SUFFICES ASSUME Dir \subseteq dirs PROVE FALSE
    OBVIOUS
  <2>1. Dir \in SUBSET dirs
    OBVIOUS
  <2>2. Cardinality(Dir) <= Cardinality(dirs)
    BY <1>3, <2>1, FS_Subset, Zenon
  <2>3. Cardinality(Named) \in Nat /\ Cardinality(dirs) \in Nat
    BY <1>2, <1>3, FS_CardinalityType, Zenon
  <2>4. QED
    BY <1>1, <1>2, <1>3, <1>4, <2>2, <2>3
<1>6. (Dir \ dirs) \in SUBSET Nat /\ Dir \ dirs # {}
  BY <1>1, <1>5 DEF Dir
<1>7. QED
  BY <1>6, LeastExists, Zenon

Made == {"working", "saved", "latest", "attached", "rewriting", "done"}

(* A run past mkdir has a directory nobody else can be given.               *)
DirInv ==
  /\ dirs \subseteq Dir
  /\ dir \in [LocalRun -> Dir \cup {NoDir}]
  /\ step \in [LocalRun -> {"new", "named", "refused", "crashed"} \cup Made]
  /\ dirs \subseteq {dir[r] : r \in Allocated}
  /\ \A r \in LocalRun : step[r] # "new" => dir[r] \in Dir
  /\ \A r \in LocalRun : step[r] \in Made => dir[r] \in dirs
  /\ OwnDirectory

LEMMA DirInitially == LocalInit => DirInv
BY DEF LocalInit, DirInv, Allocated, Made, OwnDirectory

(* The steps of a run after mkdir, and a crash.                             *)
LEMMA DirQuiet ==
  ASSUME DirInv, UNCHANGED <<dirs, dir>>,
         step' \in [LocalRun -> {"new", "named", "refused", "crashed"} \cup Made],
         \A r \in LocalRun : /\ step[r] = "new" <=> step'[r] = "new"
                             /\ step'[r] \in Made => step[r] \in Made
  PROVE  DirInv'
<1>1. Allocated' = Allocated
  BY DEF Allocated, DirInv
<1>2. dirs' \subseteq {dir'[r] : r \in Allocated'}
  BY <1>1 DEF DirInv
<1>3. OwnDirectory'
  BY DEF DirInv, OwnDirectory, Made
<1>4. QED
  BY <1>2, <1>3 DEF DirInv

LEMMA DirStep == DirInv /\ [LocalNext]_localVars => DirInv'
<1> SUFFICES ASSUME DirInv, [LocalNext]_localVars PROVE DirInv'
  OBVIOUS
<1>1. CASE UNCHANGED <<dirs, dir, step>>
  BY <1>1, DirQuiet DEF DirInv
<1>2. ASSUME NEW r \in LocalRun, allocate_run_dir(r) PROVE DirInv'
  <2>1. dir' = [dir EXCEPT ![r] = Min(Dir \ dirs)] /\ dir'[r] \in Dir
    BY <1>2, FreeName DEF allocate_run_dir, DirInv
  <2>2. /\ step[r] = "new" /\ step' = [step EXCEPT ![r] = "named"]
        /\ dirs' = dirs
    BY <1>2 DEF allocate_run_dir
  <2>3. dirs' \subseteq {dir'[q] : q \in Allocated'}
    <3>1. ASSUME NEW d \in dirs PROVE \E q \in Allocated' : dir'[q] = d
      <4>1. PICK q \in LocalRun : step[q] # "new" /\ dir[q] = d
        BY DEF DirInv, Allocated
      <4>2. QED
        BY <2>1, <2>2, <4>1 DEF DirInv, Allocated
    <3>2. QED
      BY <2>2, <3>1
  <2>4. OwnDirectory'
    BY <2>1, <2>2 DEF DirInv, OwnDirectory, Made
  <2>5. QED
    BY <2>1, <2>2, <2>3, <2>4 DEF DirInv, Made
<1>3. ASSUME NEW r \in LocalRun, MakeDirectory(r) PROVE DirInv'
  <2>1. /\ step[r] = "named" /\ dir' = dir /\ dirs' = dirs \cup {dir[r]}
        /\ step' = [step EXCEPT ![r] = IF dir[r] \in dirs THEN "refused" ELSE "working"]
    BY <1>3 DEF MakeDirectory
  <2>2. Allocated' = Allocated /\ r \in Allocated
    BY <2>1 DEF DirInv, Allocated, Made
  <2>3. OwnDirectory'
    BY <2>1 DEF DirInv, OwnDirectory, Made
  <2>4. dirs' \subseteq {dir'[q] : q \in Allocated'}
    BY <2>1, <2>2 DEF DirInv
  <2>5. QED
    BY <2>1, <2>3, <2>4 DEF DirInv, Made
<1>4. ASSUME NEW r \in LocalRun,
             \/ SaveSummary(r) \/ PublishPointer(r) \/ AttachCheckpoint(r) \/ SyncFails(r)
             \/ OpenSummary(r) \/ RewriteSummary(r)
      PROVE  DirInv'
  <2>1. PICK to \in Made : /\ UNCHANGED <<dirs, dir>> /\ step[r] \in Made
                           /\ step' = [step EXCEPT ![r] = to]
    BY <1>4 DEF SaveSummary, PublishPointer, AttachCheckpoint, SyncFails, OpenSummary,
                RewriteSummary, Made
  <2>2. QED
    BY <2>1, DirQuiet DEF DirInv, Made
<1>5. CASE CrashServer
  BY <1>5, DirQuiet DEF CrashServer, DirInv, Made
<1>6. QED
  BY <1>1, <1>2, <1>3, <1>4, <1>5
     DEF LocalNext, localVars, Claim, Unclaim, Decide, Handle, CheckApproved,
         ReadLocalCheckpoint, RefuseRelease, PointTo, OpenFile, WriteFile

LEMMA DirInvHolds == LocalSpec => []DirInv
BY DirInitially, DirStep, PTL DEF LocalSpec

(* mkdir(exist_ok=False) after the look for a free name: any number of      *)
(* submissions may choose one name, and one of them gets it                 *)
(* (allocate_run_dir, run_poc).                                             *)
THEOREM OwnDirectoryHolds == LocalSpec => []OwnDirectory
<1>1. DirInv => OwnDirectory
  BY DEF DirInv
<1> QED
  BY <1>1, DirInvHolds, PTL

Reviewed(r) == \E y \in recorded : y.run = r /\ y.decision = "approved"

Writing == {"writing", "pointed", "torn"}

(* A summary says approved only of a run somebody approved, in its file and *)
(* in the request that copies it; the decision itself is not there yet.     *)
Honest(d) ==
  file[d] # NoSummary =>
    /\ dir[file[d].run] \in Dir
    /\ file[d].decision = "approved" => Reviewed(file[d].run)

HonestHandler(a) ==
  /\ handler[a].pc = "approved" => Reviewed(handler[a].run)
  /\ handler[a].pc \in Writing =>
       /\ dir[handler[a].write.run] \in Dir
       /\ handler[a].what # "decide" /\ handler[a].write.decision = "approved"
            => Reviewed(handler[a].write.run)

FileTypes ==
  /\ file \in [Dir -> Summary \cup {NoSummary}]
  /\ pointer \in Dir \cup {NoDir}
  /\ handler \in [Actor -> Handler]
  /\ recorded \subseteq [run : LocalRun, decision : Decision]
  /\ released \subseteq [run : LocalRun, checkpoint : BOOLEAN]

FileInv ==
  /\ FileTypes
  /\ \A d \in Dir : Honest(d)
  /\ \A a \in Actor : HonestHandler(a)
  /\ ReleaseWasApproved

LEMMA FileInitially == LocalInit => FileInv
BY DEF LocalInit, FileInv, FileTypes, Honest, HonestHandler, ReleaseWasApproved,
       NoHandler, Handler, Writing

(* What holds of a run's review and of its directory goes on to hold.       *)
LEMMA LocalGrows ==
  ASSUME DirInv, FileInv, LocalNext
  PROVE  /\ recorded \subseteq recorded'
         /\ \A r \in LocalRun : dir[r] \in Dir => dir'[r] \in Dir
<1>1. recorded \subseteq recorded'
  BY DEF LocalNext, allocate_run_dir, MakeDirectory, SaveSummary, PublishPointer,
         AttachCheckpoint, SyncFails, OpenSummary, RewriteSummary, CrashServer,
         Claim, Unclaim, Decide, Handle, CheckApproved,
         ReadLocalCheckpoint, RefuseRelease, PointTo, OpenFile, WriteFile
<1>2. ASSUME NEW r \in LocalRun, allocate_run_dir(r)
      PROVE  \A q \in LocalRun : dir[q] \in Dir => dir'[q] \in Dir
  BY <1>2, FreeName DEF allocate_run_dir, DirInv
<1>3. (\E r \in LocalRun : allocate_run_dir(r)) \/ UNCHANGED dir
  BY DEF LocalNext, MakeDirectory, SaveSummary, PublishPointer,
         AttachCheckpoint, SyncFails, OpenSummary, RewriteSummary, CrashServer,
         Claim, Unclaim, Decide, Handle, CheckApproved,
         ReadLocalCheckpoint, RefuseRelease, PointTo, OpenFile, WriteFile
<1>4. QED
  BY <1>1, <1>2, <1>3

(* What a request holds, by how far it has come.                            *)
LEMMA HandlerParts ==
  ASSUME NEW h \in Handler
  PROVE  /\ h.pc \in {"idle", "approved"} \cup Writing
         /\ h.pc = "approved" => h.run \in LocalRun
         /\ h.pc \in Writing =>
              /\ h \in [pc : Writing, what : {"claim", "decide", "release"},
                        path : Dir, read : Decision, write : Summary]
BY DEF Handler, NoHandler, Writing

(* What a reader of the pointer finds.                                      *)
LEMMA LatestParts ==
  ASSUME FileInv, Readable
  PROVE  /\ pointer \in Dir /\ Latest \in Summary
         /\ dir[Latest.run] \in Dir
         /\ Latest.decision = "approved" => Reviewed(Latest.run)
BY DEF FileInv, FileTypes, Honest, Readable, Latest

(* One request moves on, to an honest record; one file is replaced, by an   *)
(* honest summary; or one run is released that was approved.                *)
LEMMA FileMoves ==
  ASSUME DirInv, FileInv, LocalNext, FileTypes',
         \A a \in Actor : handler'[a] = handler[a] \/ HonestHandler(a)',
         \A d \in Dir : file'[d] = file[d] \/ Honest(d)',
         \A x \in released' : x \in released \/ Reviewed(x.run)'
  PROVE  FileInv'
<1>1. ASSUME NEW r \in LocalRun PROVE Reviewed(r) => Reviewed(r)'
  BY LocalGrows DEF Reviewed
<1>2. ASSUME NEW d \in Dir PROVE Honest(d)'
  BY <1>1, LocalGrows DEF FileInv, FileTypes, Honest, Summary
<1>3. ASSUME NEW a \in Actor PROVE HonestHandler(a)'
  <2>1. CASE handler'[a] = handler[a]
    <3>1. /\ handler[a].pc = "approved" => handler[a].run \in LocalRun
          /\ handler[a].pc \in Writing => handler[a].write.run \in LocalRun
      BY HandlerParts DEF FileInv, FileTypes, Summary
    <3>2. HonestHandler(a)
      BY DEF FileInv
    <3>3. QED
      BY <1>1, <2>1, <3>1, <3>2, LocalGrows DEF HonestHandler
  <2>2. QED
    BY <2>1
<1>4. ReleaseWasApproved'
  BY <1>1 DEF FileInv, FileTypes, ReleaseWasApproved, Reviewed
<1>5. QED
  BY <1>2, <1>3, <1>4 DEF FileInv

(* The steps of runs.                                                       *)
LEMMA RunFileSteps ==
  ASSUME DirInv, FileInv, LocalNext, NEW r \in LocalRun,
         \/ allocate_run_dir(r) \/ MakeDirectory(r) \/ SaveSummary(r)
         \/ PublishPointer(r) \/ AttachCheckpoint(r) \/ SyncFails(r)
         \/ OpenSummary(r) \/ RewriteSummary(r)
  PROVE  FileInv'
<1>1. CASE UNCHANGED <<file, pointer, handler, recorded, released>>
  BY <1>1, FileMoves DEF FileInv, FileTypes
<1>2. CASE PublishPointer(r) \/ AttachCheckpoint(r)
  <2>1. pointer' = dir[r] /\ dir[r] \in Dir /\ UNCHANGED <<file, handler, recorded, released>>
    BY <1>2 DEF PublishPointer, AttachCheckpoint, DirInv
  <2>2. QED
    BY <2>1, FileMoves DEF FileInv, FileTypes
<1>3. CASE SaveSummary(r) \/ RewriteSummary(r)
  <2>1. file' = [file EXCEPT ![dir[r]] = Pending(r)]
    BY <1>3 DEF SaveSummary, RewriteSummary
  <2>2. /\ step[r] # "new" /\ dir[r] \in Dir /\ dir' = dir
        /\ UNCHANGED <<pointer, handler, recorded, released>>
    BY <1>3 DEF SaveSummary, RewriteSummary, DirInv
  <2>3. Pending(r) \in Summary /\ Pending(r).run = r /\ Pending(r).decision = "pending"
    BY DEF Pending, Summary, Decision
  <2>4. ASSUME NEW d \in Dir PROVE file'[d] = file[d] \/ Honest(d)'
    <3> HIDE DEF Pending
    <3> QED
      BY <2>1, <2>2, <2>3 DEF FileInv, FileTypes, Honest
  <2>5. FileTypes'
    <3> HIDE DEF Pending
    <3> QED
      BY <2>1, <2>2, <2>3 DEF FileInv, FileTypes
  <2>6. QED
    BY <2>2, <2>4, <2>5, FileMoves
<1>4. QED
  BY <1>1, <1>2, <1>3 DEF allocate_run_dir, MakeDirectory, SyncFails, OpenSummary

(* Requests that read the latest summary and will write what they make of   *)
(* it.                                                                      *)
LEMMA HandleSteps ==
  ASSUME DirInv, FileInv, LocalNext, NEW a \in Actor, Readable,
         NEW what \in {"claim", "decide", "release"}, NEW new \in Summary,
         new.run = Latest.run,
         what # "decide" => new.decision = Latest.decision,
         Handle(a, what, new)
  PROVE  FileInv'
<1> DEFINE h == [pc |-> "writing", what |-> what, path |-> pointer,
                 read |-> Latest.decision, write |-> new]
<1>1. /\ h.pc \in Writing /\ h.pc # "approved" /\ h.write = new /\ h.what = what
      /\ h \in Handler
  BY LatestParts DEF Handler, Summary, Writing
<1>2. /\ handler' = [handler EXCEPT ![a] = h]
      /\ UNCHANGED <<dir, file, pointer, recorded, released>>
  BY DEF Handle
<1> HIDE DEF h
<1>3. HonestHandler(a)'
  BY <1>1, <1>2, LatestParts DEF FileInv, FileTypes, HonestHandler, Reviewed
<1>4. FileTypes'
  BY <1>1, <1>2 DEF FileInv, FileTypes
<1>5. QED
  BY <1>2, <1>3, <1>4, FileMoves DEF FileInv, FileTypes

LEMMA ReviewSteps ==
  ASSUME DirInv, FileInv, LocalNext, NEW a \in Actor,
         \/ Claim(a) \/ Unclaim(a)
         \/ \E decision \in {"approved", "rejected"} : Decide(a, decision)
  PROVE  FileInv'
<1>1. ASSUME Claim(a) PROVE FileInv'
  <2> DEFINE new == [Latest EXCEPT !.claimed_by = a]
  <2>1. Readable /\ Handle(a, "claim", new)
    BY <1>1 DEF Claim
  <2>2. new \in Summary /\ new.run = Latest.run /\ new.decision = Latest.decision
    BY <2>1, LatestParts DEF Summary
  <2>3. QED
    BY <2>1, <2>2, HandleSteps
<1>2. ASSUME Unclaim(a) PROVE FileInv'
  <2> DEFINE new == [Latest EXCEPT !.claimed_by = Nobody]
  <2>1. Readable /\ Handle(a, "claim", new)
    BY <1>2 DEF Unclaim
  <2>2. new \in Summary /\ new.run = Latest.run /\ new.decision = Latest.decision
    BY <2>1, LatestParts DEF Summary
  <2>3. QED
    BY <2>1, <2>2, HandleSteps
<1>3. ASSUME NEW decision \in {"approved", "rejected"}, Decide(a, decision)
      PROVE  FileInv'
  <2> DEFINE new == [Latest EXCEPT !.decision = decision, !.claimed_by = Nobody]
  <2>1. Readable /\ Handle(a, "decide", new)
    BY <1>3 DEF Decide
  <2>2. new \in Summary /\ new.run = Latest.run
    BY <2>1, LatestParts DEF Summary, Decision
  <2>3. QED
    BY <2>1, <2>2, HandleSteps
<1>4. QED
  BY <1>1, <1>2, <1>3

(* resume_run.                                                              *)
LEMMA ReleaseSteps ==
  ASSUME DirInv, FileInv, LocalNext, NEW a \in Actor,
         CheckApproved(a) \/ ReadLocalCheckpoint(a) \/ RefuseRelease(a)
  PROVE  FileInv'
<1>1. CASE CheckApproved(a)
  <2> DEFINE h == [pc |-> "approved", run |-> Latest.run]
  <2>1. /\ Readable /\ Latest.decision = "approved"
        /\ handler' = [handler EXCEPT ![a] = h]
        /\ UNCHANGED <<dir, file, pointer, recorded, released>>
    BY <1>1 DEF CheckApproved
  <2>2. h \in Handler /\ h.run = Latest.run /\ h.pc \notin Writing
    BY <2>1, LatestParts DEF Handler, Summary, Writing
  <2> HIDE DEF h
  <2>3. HonestHandler(a)'
    BY <2>1, <2>2, LatestParts DEF FileInv, FileTypes, HonestHandler, Reviewed
  <2>4. FileTypes'
    BY <2>1, <2>2 DEF FileInv, FileTypes
  <2>5. QED
    BY <2>1, <2>3, <2>4, FileMoves DEF FileInv, FileTypes
<1>2. CASE ReadLocalCheckpoint(a)
  <2> DEFINE new == [Latest EXCEPT !.stage = "writer", !.decision = "approved",
                                   !.claimed_by = Nobody, !.checkpoint = FALSE]
             h == [pc |-> "writing", what |-> "release", path |-> dir[Latest.run],
                   read |-> "approved", write |-> new]
             x == [run |-> Latest.run, checkpoint |-> Latest.checkpoint]
  <2>1. /\ Readable /\ handler[a].pc = "approved" /\ Latest.run = handler[a].run
        /\ released' = released \cup {x}
        /\ handler' = [handler EXCEPT ![a] = h]
        /\ UNCHANGED <<dir, file, pointer, recorded>>
    BY <1>2 DEF ReadLocalCheckpoint
  <2>2. Reviewed(Latest.run)
    BY <2>1 DEF FileInv, HonestHandler
  <2>3. new \in Summary /\ new.run = Latest.run
    BY <2>1, LatestParts DEF Summary, Decision
  <2>4. x \in [run : LocalRun, checkpoint : BOOLEAN] /\ x.run = Latest.run
    BY <2>1, LatestParts DEF Summary
  <2> HIDE DEF new, x
  <2>5. h \in Handler /\ h.pc \in Writing /\ h.pc # "approved" /\ h.write = new
    BY <2>1, <2>3, LatestParts DEF Handler, Writing, Decision
  <2> HIDE DEF h
  <2>6. HonestHandler(a)'
    BY <2>1, <2>2, <2>3, <2>5, LatestParts DEF FileInv, FileTypes, HonestHandler, Reviewed
  <2>7. FileTypes'
    BY <2>1, <2>4, <2>5 DEF FileInv, FileTypes
  <2>8. \A y \in released' : y \in released \/ Reviewed(y.run)'
    BY <2>1, <2>2, <2>4 DEF Reviewed
  <2>9. QED
    BY <2>1, <2>6, <2>7, <2>8, FileMoves DEF FileInv, FileTypes
<1>3. CASE RefuseRelease(a)
  <2>1. /\ handler' = [handler EXCEPT ![a] = NoHandler]
        /\ UNCHANGED <<dir, file, pointer, recorded, released>>
    BY <1>3 DEF RefuseRelease
  <2>2. NoHandler \in Handler /\ NoHandler.pc \notin Writing \cup {"approved"}
    BY DEF NoHandler, Handler, Writing
  <2> HIDE DEF NoHandler
  <2>3. FileTypes' /\ HonestHandler(a)'
    BY <2>1, <2>2 DEF FileInv, FileTypes, HonestHandler
  <2>4. QED
    BY <2>1, <2>3, FileMoves DEF FileInv, FileTypes
<1>4. QED
  BY <1>1, <1>2, <1>3

(* The write of a request: pointers, open, contents.                        *)
LEMMA WriteSteps ==
  ASSUME DirInv, FileInv, LocalNext, NEW a \in Actor,
         PointTo(a) \/ OpenFile(a) \/ WriteFile(a)
  PROVE  FileInv'
<1> DEFINE h == handler[a]
<1>1. h \in Handler /\ HonestHandler(a)
  BY DEF FileInv, FileTypes
<1>2. h.pc \in Writing
  BY DEF PointTo, OpenFile, WriteFile, Writing
<1>3. h \in [pc : Writing, what : {"claim", "decide", "release"},
             path : Dir, read : Decision, write : Summary]
  BY <1>1, <1>2, HandlerParts
<1>4. ASSUME NEW to \in {"pointed", "torn"},
             handler' = [handler EXCEPT ![a].pc = to],
             pointer' \in {pointer, h.path},
             UNCHANGED <<dir, file, recorded, released>>
      PROVE  FileInv'
  <2> DEFINE g == [h EXCEPT !.pc = to]
  <2>1. /\ g \in Handler /\ g.pc \in Writing /\ g.pc # "approved"
        /\ g.what = h.what /\ g.write = h.write
    BY <1>3 DEF Handler, Writing
  <2>2. handler' = [handler EXCEPT ![a] = g]
    BY <1>4
  <2> HIDE DEF g
  <2>3. FileTypes'
    BY <1>3, <1>4, <2>1, <2>2 DEF FileInv, FileTypes
  <2>4. HonestHandler(a)'
    BY <1>1, <1>2, <1>4, <2>1, <2>2 DEF FileInv, FileTypes, HonestHandler, Reviewed
  <2>5. QED
    BY <1>4, <2>2, <2>3, <2>4, FileMoves DEF FileInv, FileTypes
<1>5. CASE PointTo(a)
  BY <1>4, <1>5 DEF PointTo
<1>6. CASE OpenFile(a)
  BY <1>4, <1>6 DEF OpenFile
<1>7. CASE WriteFile(a)
  <2> DEFINE y == [run |-> h.write.run, decision |-> h.write.decision]
  <2>1. /\ file' = [file EXCEPT ![h.path] = h.write]
        /\ recorded' = IF h.what = "decide" THEN recorded \cup {y} ELSE recorded
        /\ handler' = [handler EXCEPT ![a] = NoHandler]
        /\ UNCHANGED <<dir, pointer, released>>
    BY <1>7 DEF WriteFile
  <2>2. y \in [run : LocalRun, decision : Decision]
        /\ y.run = h.write.run /\ y.decision = h.write.decision
    BY <1>3 DEF Summary
  <2>3. NoHandler \in Handler /\ NoHandler.pc \notin Writing \cup {"approved"}
    BY DEF NoHandler, Handler, Writing
  <2> HIDE DEF NoHandler, y, h
  <2>4. FileTypes' /\ HonestHandler(a)'
    BY <1>3, <2>1, <2>2, <2>3 DEF FileInv, FileTypes, HonestHandler
  <2>5. h.write.decision = "approved" =>
          \E x \in recorded' : x.run = h.write.run /\ x.decision = "approved"
    <3>1. CASE h.what = "decide"
      BY <2>1, <2>2, <3>1 DEF Reviewed
    <3>2. CASE h.what # "decide"
      <4>1. h.write.decision = "approved" => Reviewed(h.write.run)
        BY <1>1, <1>2, <3>2 DEF HonestHandler, h
      <4>2. QED
        BY <2>1, <3>2, <4>1 DEF Reviewed
    <3>3. QED
      BY <3>1, <3>2
  <2>6. dir[h.write.run] \in Dir
    BY <1>1, <1>2 DEF HonestHandler, h
  <2>7. ASSUME NEW d \in Dir PROVE file'[d] = file[d] \/ Honest(d)'
    <3>1. file'[d] = IF d = h.path THEN h.write ELSE file[d]
      BY <2>1 DEF FileInv, FileTypes
    <3>2. QED
      BY <2>1, <2>5, <2>6, <3>1 DEF Honest, Reviewed
  <2>8. QED
    BY <2>1, <2>4, <2>7, FileMoves DEF FileInv, FileTypes
<1>8. QED
  BY <1>5, <1>6, <1>7

LEMMA FileStep == DirInv /\ FileInv /\ [LocalNext]_localVars => FileInv'
<1> SUFFICES ASSUME DirInv, FileInv, [LocalNext]_localVars PROVE FileInv'
  OBVIOUS
<1>1. CASE UNCHANGED localVars
  BY <1>1 DEF localVars, FileInv, FileTypes, Honest, HonestHandler, Reviewed,
              ReleaseWasApproved
<1>2. CASE LocalNext
  <2>1. CASE CrashServer
    <3>1. /\ handler' = [a \in Actor |-> NoHandler]
          /\ UNCHANGED <<dir, file, pointer, recorded, released>>
      BY <2>1 DEF CrashServer
    <3>2. NoHandler \in Handler /\ NoHandler.pc \notin Writing \cup {"approved"}
      BY DEF NoHandler, Handler, Writing
    <3> HIDE DEF NoHandler
    <3>3. FileTypes' /\ \A a \in Actor : HonestHandler(a)'
      BY <3>1, <3>2 DEF FileInv, FileTypes, HonestHandler
    <3>4. QED
      BY <1>2, <3>1, <3>3, FileMoves
  <2>2. QED
    BY <1>2, <2>1, RunFileSteps, ReviewSteps, ReleaseSteps, WriteSteps DEF LocalNext
<1>3. QED
  BY <1>1, <1>2

(* Whatever requests read and write between each other, and whenever the    *)
(* server dies: a run is released only after a reviewer's approval of that  *)
(* run was answered (resume_run, _record_local_reviewer_decision).          *)
THEOREM ReleaseWasApprovedHolds == LocalSpec => []ReleaseWasApproved
<1>1. FileInv => ReleaseWasApproved
  BY DEF FileInv
<1>2. LocalSpec => []FileInv
  BY FileInitially, FileStep, DirInvHolds, PTL DEF LocalSpec
<1> QED
  BY <1>1, <1>2, PTL

(* Every summary and every copy of one in a request is in its own run's     *)
(* directory, and a run that has just made its directory finds no file in   *)
(* it. What a request writes keeps the decision it read, unless it decides. *)
Carries(h) ==
  /\ h.path \in dirs
  /\ step[h.write.run] # "new" /\ dir[h.write.run] = h.path
  /\ h.write.decision = h.read \/ (h.what = "decide" /\ h.read = "pending")

OwnSummaries ==
  /\ \A d \in Dir : file[d] # NoSummary =>
       d \in dirs /\ step[file[d].run] # "new" /\ dir[file[d].run] = d
  /\ \A a \in Actor : handler[a].pc \in Writing => Carries(handler[a])
  /\ \A r \in LocalRun : step[r] = "working" =>
       /\ file[dir[r]] = NoSummary
       /\ \A a \in Actor : handler[a].pc \in Writing => handler[a].path # dir[r]

LEMMA OwnInitially == LocalInit => OwnSummaries
BY DEF LocalInit, OwnSummaries, NoHandler, Writing

(* Steps of a run.                                                          *)
LEMMA OwnRunSteps ==
  ASSUME DirInv, FileInv, OwnSummaries, NEW r \in LocalRun,
         \/ allocate_run_dir(r) \/ MakeDirectory(r) \/ SaveSummary(r)
         \/ PublishPointer(r) \/ AttachCheckpoint(r) \/ SyncFails(r)
         \/ OpenSummary(r) \/ RewriteSummary(r)
  PROVE  OwnSummaries'
<1>1. /\ \A d \in Dir : file[d] # NoSummary => file[d].run \in LocalRun
      /\ \A a \in Actor : handler[a].pc \in Writing => handler[a].write.run \in LocalRun
  BY HandlerParts DEF FileInv, FileTypes, Summary
<1>2. CASE allocate_run_dir(r)
  <2>1. /\ step[r] = "new" /\ step' = [step EXCEPT ![r] = "named"]
        /\ \A q \in LocalRun : q # r => dir'[q] = dir[q]
        /\ UNCHANGED <<dirs, file, handler>>
    BY <1>2 DEF allocate_run_dir, DirInv
  <2>2. \A q \in LocalRun : /\ q # r => step'[q] = step[q]
                            /\ step'[r] = "named"
    BY <2>1 DEF DirInv
  <2>3. QED
    BY <1>1, <2>1, <2>2 DEF OwnSummaries, Carries
<1>3. CASE MakeDirectory(r)
  <2>1. /\ step[r] = "named" /\ dirs' = dirs \cup {dir[r]}
        /\ step' = [step EXCEPT ![r] = IF dir[r] \in dirs THEN "refused" ELSE "working"]
        /\ UNCHANGED <<dir, file, handler>> /\ dir[r] \in Dir
    BY <1>3 DEF MakeDirectory, DirInv
  <2>2. /\ \A q \in LocalRun : q # r => step'[q] = step[q]
        /\ step'[r] = IF dir[r] \in dirs THEN "refused" ELSE "working"
    BY <2>1 DEF DirInv
  <2>3. QED
    BY <1>1, <2>1, <2>2 DEF OwnSummaries, Carries
<1>4. CASE SaveSummary(r) \/ RewriteSummary(r)
  <2>1. PICK to \in {"saved", "done"} :
          /\ file' = [file EXCEPT ![dir[r]] = Pending(r)]
          /\ step' = [step EXCEPT ![r] = to]
    BY <1>4 DEF SaveSummary, RewriteSummary
  <2>2. /\ step[r] \in Made /\ dir[r] \in Dir /\ dir[r] \in dirs
        /\ UNCHANGED <<dirs, dir, handler>>
    BY <1>4 DEF SaveSummary, RewriteSummary, DirInv, Made
  <2>3. Pending(r).run = r
    BY DEF Pending
  <2> HIDE DEF Pending
  <2>4. /\ \A q \in LocalRun : q # r => step'[q] = step[q]
        /\ step'[r] \in {"saved", "done"}
        /\ file'[dir[r]].run = r
        /\ \A d \in Dir : d # dir[r] => file'[d] = file[d]
    BY <2>1, <2>2, <2>3 DEF DirInv, FileInv, FileTypes
  <2>5. \A q \in LocalRun : q # r /\ step[q] = "working" =>
          dir[q] # dir[r] /\ dir[q] \in Dir
    BY <2>2 DEF DirInv, OwnDirectory, Made
  <2>6. QED
    BY <1>1, <2>2, <2>4, <2>5 DEF OwnSummaries, Carries
<1>5. CASE PublishPointer(r) \/ AttachCheckpoint(r) \/ SyncFails(r) \/ OpenSummary(r)
  <2>1. PICK to \in {"latest", "attached", "rewriting"} :
          /\ step' = [step EXCEPT ![r] = to]
          /\ UNCHANGED <<dirs, dir, file, handler>>
    BY <1>5 DEF PublishPointer, AttachCheckpoint, SyncFails, OpenSummary
  <2>2. /\ \A q \in LocalRun : q # r => step'[q] = step[q]
        /\ step'[r] \in {"latest", "attached", "rewriting"}
    BY <2>1 DEF DirInv
  <2>3. QED
    BY <1>1, <2>1, <2>2 DEF OwnSummaries, Carries
<1>6. QED
  BY <1>2, <1>3, <1>4, <1>5

(* A request that copies the summary the pointer names.                     *)
LEMMA OwnHandler ==
  ASSUME DirInv, FileInv, OwnSummaries, NEW a \in Actor, NEW h \in Handler,
         handler' = [handler EXCEPT ![a] = h],
         UNCHANGED <<dirs, dir, step, file>>,
         h.pc \in Writing => /\ Carries(h)
                             /\ \/ file[h.path] # NoSummary
                                \/ handler[a].pc \in Writing /\ handler[a].path = h.path
  PROVE  OwnSummaries'
<1>1. \A b \in Actor : handler'[b] = IF b = a THEN h ELSE handler[b]
  BY DEF FileInv, FileTypes
<1>2. QED
  BY <1>1 DEF OwnSummaries, Carries

LEMMA OwnReadSteps ==
  ASSUME DirInv, FileInv, OwnSummaries, NEW a \in Actor, Readable,
         NEW what \in {"claim", "decide", "release"}, NEW new \in Summary,
         NEW read \in Decision, NEW path \in Dir,
         new.run = Latest.run, path \in {pointer, dir[Latest.run]},
         new.decision = read \/ (what = "decide" /\ read = "pending"),
         handler' = [handler EXCEPT ![a] =
           [pc |-> "writing", what |-> what, path |-> path, read |-> read, write |-> new]],
         UNCHANGED <<dirs, dir, step, file>>
  PROVE  OwnSummaries'
<1> DEFINE h == [pc |-> "writing", what |-> what, path |-> path, read |-> read,
                 write |-> new]
<1>1. /\ pointer \in Dir /\ file[pointer] # NoSummary /\ path = pointer
      /\ pointer \in dirs /\ step[Latest.run] # "new" /\ dir[Latest.run] = pointer
  BY LatestParts DEF OwnSummaries, Readable, Latest
<1>2. h \in Handler /\ h.path = pointer /\ Carries(h)
  BY <1>1 DEF Carries, Handler
<1> HIDE DEF h
<1>3. handler' = [handler EXCEPT ![a] = h]
  BY DEF h
<1>4. QED
  BY <1>1, <1>2, <1>3, OwnHandler

LEMMA OwnRequestSteps ==
  ASSUME DirInv, FileInv, OwnSummaries, NEW a \in Actor,
         \/ Claim(a) \/ Unclaim(a)
         \/ \E decision \in {"approved", "rejected"} : Decide(a, decision)
         \/ CheckApproved(a) \/ ReadLocalCheckpoint(a) \/ RefuseRelease(a)
         \/ PointTo(a) \/ OpenFile(a)
  PROVE  OwnSummaries'
<1>1. ASSUME NEW by \in {a, Nobody}, Readable,
             Handle(a, "claim", [Latest EXCEPT !.claimed_by = by])
      PROVE  OwnSummaries'
  <2> DEFINE new == [Latest EXCEPT !.claimed_by = by]
  <2>1. /\ new \in Summary /\ new.run = Latest.run /\ new.decision = Latest.decision
        /\ Latest.decision \in Decision /\ pointer \in Dir
    BY <1>1, LatestParts DEF Summary
  <2>2. /\ handler' = [handler EXCEPT ![a] =
             [pc |-> "writing", what |-> "claim", path |-> pointer,
              read |-> Latest.decision, write |-> new]]
        /\ UNCHANGED <<dirs, dir, step, file>>
    BY <1>1 DEF Handle
  <2> HIDE DEF new
  <2>3. QED
    BY <1>1, <2>1, <2>2, OwnReadSteps
<1>2. CASE Claim(a) \/ Unclaim(a)
  BY <1>1, <1>2 DEF Claim, Unclaim
<1>3. ASSUME NEW decision \in {"approved", "rejected"}, Decide(a, decision)
      PROVE  OwnSummaries'
  <2> DEFINE new == [Latest EXCEPT !.decision = decision, !.claimed_by = Nobody]
  <2>1. Readable /\ Latest.decision = "pending"
    BY <1>3 DEF Decide, Undecided
  <2>2. /\ new \in Summary /\ new.run = Latest.run
        /\ Latest.decision \in Decision /\ pointer \in Dir
    BY <2>1, LatestParts DEF Summary, Decision
  <2>3. /\ handler' = [handler EXCEPT ![a] =
             [pc |-> "writing", what |-> "decide", path |-> pointer,
              read |-> Latest.decision, write |-> new]]
        /\ UNCHANGED <<dirs, dir, step, file>>
    BY <1>3 DEF Decide, Handle
  <2> HIDE DEF new
  <2>4. QED
    BY <2>1, <2>2, <2>3, OwnReadSteps
<1>4. CASE ReadLocalCheckpoint(a)
  <2> DEFINE new == [Latest EXCEPT !.stage = "writer", !.decision = "approved",
                                   !.claimed_by = Nobody, !.checkpoint = FALSE]
  <2>1. /\ Readable
        /\ handler' = [handler EXCEPT ![a] =
             [pc |-> "writing", what |-> "release", path |-> dir[Latest.run],
              read |-> "approved", write |-> new]]
        /\ UNCHANGED <<dirs, dir, step, file>>
    BY <1>4 DEF ReadLocalCheckpoint
  <2>2. /\ new \in Summary /\ new.run = Latest.run /\ new.decision = "approved"
        /\ "approved" \in Decision /\ dir[Latest.run] \in Dir
    BY <2>1, LatestParts DEF Summary, Decision
  <2> HIDE DEF new
  <2>3. QED
    BY <2>1, <2>2, OwnReadSteps
<1>5. CASE CheckApproved(a)
  <2> DEFINE h == [pc |-> "approved", run |-> Latest.run]
  <2>1. /\ Readable /\ handler' = [handler EXCEPT ![a] = h]
        /\ UNCHANGED <<dirs, dir, step, file>>
    BY <1>5 DEF CheckApproved
  <2>2. h \in Handler /\ h.pc \notin Writing
    BY <2>1, LatestParts DEF Handler, Summary, Writing
  <2> HIDE DEF h
  <2>3. QED
    BY <2>1, <2>2, OwnHandler
<1>6. CASE RefuseRelease(a)
  <2>1. NoHandler \in Handler /\ NoHandler.pc \notin Writing
    BY DEF NoHandler, Handler, Writing
  <2> HIDE DEF NoHandler
  <2>2. QED
    BY <1>6, <2>1, OwnHandler DEF RefuseRelease
<1>7. CASE PointTo(a) \/ OpenFile(a)
  <2>1. PICK to \in {"pointed", "torn"} : handler' = [handler EXCEPT ![a].pc = to]
    BY <1>7 DEF PointTo, OpenFile
  <2> DEFINE h == [handler[a] EXCEPT !.pc = to]
  <2>2. handler[a].pc \in Writing /\ handler[a] \in Handler
        /\ UNCHANGED <<dirs, dir, step, file>>
    BY <1>7 DEF PointTo, OpenFile, Writing, FileInv, FileTypes
  <2>3. handler[a] \in [pc : Writing, what : {"claim", "decide", "release"},
                        path : Dir, read : Decision, write : Summary]
    BY <2>2, HandlerParts
  <2>4. /\ h \in Handler /\ h.path = handler[a].path /\ h.write = handler[a].write
        /\ h.read = handler[a].read /\ h.what = handler[a].what
    BY <2>3 DEF Handler, Writing
  <2>5. handler' = [handler EXCEPT ![a] = h]
    BY <2>1
  <2> HIDE DEF h
  <2>6. Carries(h)
    BY <2>2, <2>4 DEF OwnSummaries, Carries
  <2>7. QED
    BY <2>2, <2>4, <2>5, <2>6, OwnHandler
<1>8. QED
  BY <1>2, <1>3, <1>4, <1>5, <1>6, <1>7

LEMMA OwnWriteStep ==
  ASSUME DirInv, FileInv, OwnSummaries, NEW a \in Actor, WriteFile(a)
  PROVE  OwnSummaries'
<1> DEFINE h == handler[a]
<1>1. h.pc \in Writing /\ h \in Handler
  BY DEF WriteFile, Writing, FileInv, FileTypes
<1>2. h \in [pc : Writing, what : {"claim", "decide", "release"},
             path : Dir, read : Decision, write : Summary]
  BY <1>1, HandlerParts
<1>3. Carries(h)
  BY <1>1 DEF OwnSummaries
<1>4. /\ file' = [file EXCEPT ![h.path] = h.write]
      /\ handler' = [handler EXCEPT ![a] = NoHandler]
      /\ UNCHANGED <<dirs, dir, step>>
  BY DEF WriteFile
<1>5. NoHandler.pc \notin Writing
  BY DEF NoHandler, Writing
<1>6. \A r \in LocalRun : step[r] = "working" => h.path # dir[r] /\ dir[r] \in Dir
  BY <1>1 DEF OwnSummaries, DirInv
<1> HIDE DEF h, NoHandler
<1>7. /\ \A d \in Dir : file'[d] = IF d = h.path THEN h.write ELSE file[d]
      /\ \A b \in Actor : handler'[b] = IF b = a THEN NoHandler ELSE handler[b]
  BY <1>4 DEF FileInv, FileTypes
<1>8. QED
  BY <1>2, <1>3, <1>4, <1>5, <1>6, <1>7 DEF OwnSummaries, Carries

LEMMA OwnStep == DirInv /\ FileInv /\ OwnSummaries /\ [LocalNext]_localVars => OwnSummaries'
<1> SUFFICES ASSUME DirInv, FileInv, OwnSummaries, [LocalNext]_localVars
             PROVE  OwnSummaries'
  OBVIOUS
<1>1. CASE UNCHANGED localVars
  BY <1>1 DEF localVars, OwnSummaries, Carries
<1>2. CASE CrashServer
  <2>1. /\ step' = [r \in LocalRun |->
                     IF step[r] \in {"new", "done", "refused"} THEN step[r] ELSE "crashed"]
        /\ handler' = [a \in Actor |-> NoHandler]
        /\ UNCHANGED <<dirs, dir, file>>
    BY <1>2 DEF CrashServer
  <2>2. \A d \in Dir : file[d] # NoSummary => file[d].run \in LocalRun
    BY DEF FileInv, FileTypes, Summary
  <2>3. NoHandler.pc \notin Writing
    BY DEF NoHandler, Writing
  <2> HIDE DEF NoHandler
  <2>4. QED
    BY <2>1, <2>2, <2>3 DEF OwnSummaries
<1>3. QED
  BY <1>1, <1>2, OwnRunSteps, OwnRequestSteps, OwnWriteStep DEF LocalNext

(* The 409 of a decided run stands: only a request that read the summary    *)
(* before the decision was in it, or the run's own last write, takes a      *)
(* decision away (_record_local_reviewer_decision,                          *)
(* _mutate_local_review_assignment, resume_run).                            *)
THEOREM OnlyStaleWritersUndecideHolds == LocalSpec => OnlyStaleWritersUndecide
<1> DEFINE Kept(d) ==
      (file[d] # NoSummary /\ file[d].decision # "pending" /\ file'[d] # file[d])
       => \/ file'[d].decision = file[d].decision
          \/ \E a \in Actor : /\ handler[a] # NoHandler /\ handler'[a] = NoHandler
                              /\ handler[a].read # file[d].decision
          \/ \E r \in LocalRun : step[r] = "rewriting" /\ step'[r] = "done"
<1>1. DirInv /\ FileInv /\ OwnSummaries /\ [LocalNext]_localVars
        => [\A d \in Dir : Kept(d)]_localVars
  <2> SUFFICES ASSUME DirInv, FileInv, OwnSummaries, LocalNext, NEW d \in Dir
               PROVE  Kept(d)
    OBVIOUS
  <2>1. CASE UNCHANGED file
    BY <2>1
  <2>2. ASSUME NEW r \in LocalRun, SaveSummary(r)
        PROVE  Kept(d)
    <3>1. file[dir[r]] = NoSummary /\ file' = [file EXCEPT ![dir[r]] = Pending(r)]
      BY <2>2 DEF SaveSummary, OwnSummaries
    <3>2. d # dir[r] => file'[d] = file[d]
      BY <3>1 DEF FileInv, FileTypes
    <3>3. QED
      BY <3>1, <3>2
  <2>3. ASSUME NEW r \in LocalRun, RewriteSummary(r)
        PROVE  Kept(d)
    <3>1. step[r] = "rewriting" /\ step'[r] = "done"
      BY <2>3 DEF RewriteSummary, DirInv
    <3>2. QED
      BY <3>1
  <2>4. ASSUME NEW a \in Actor, WriteFile(a)
        PROVE  Kept(d)
    <3>1. /\ handler[a].pc = "torn" /\ handler[a] \in Handler
          /\ handler' = [handler EXCEPT ![a] = NoHandler]
          /\ file' = [file EXCEPT ![handler[a].path] = handler[a].write]
      BY <2>4 DEF WriteFile, FileInv, FileTypes
    <3>2. handler[a] # NoHandler /\ handler'[a] = NoHandler
      BY <3>1 DEF NoHandler, FileInv, FileTypes
    <3>3. Carries(handler[a])
      BY <3>1 DEF OwnSummaries, Writing
    <3>4. file'[d] # file[d] => file'[d] = handler[a].write
      BY <3>1 DEF FileInv, FileTypes
    <3>5. QED
      BY <3>2, <3>3, <3>4 DEF Carries
  <2> HIDE DEF Kept
  <2>5. QED
    BY <2>1, <2>2, <2>3, <2>4
       DEF LocalNext, allocate_run_dir, MakeDirectory, PublishPointer, AttachCheckpoint,
           SyncFails, OpenSummary, CrashServer, Claim, Unclaim, Decide, Handle, CheckApproved,
           ReadLocalCheckpoint, RefuseRelease, PointTo, OpenFile
<1>2. LocalSpec => [](DirInv /\ FileInv /\ OwnSummaries)
  BY DirInitially, DirStep, FileInitially, FileStep, OwnInitially, OwnStep, PTL
     DEF LocalSpec
<1>3. QED
  BY <1>1, <1>2, PTL DEF LocalSpec, OnlyStaleWritersUndecide

----------------------------------------------------------------------------
(* FindingReview                                                            *)

(* The confidence the reviewer saw is the one that is carried to the writer.*)
CarriedToWriter ==
  /\ bundle \subseteq Finding /\ disk \subseteq Finding
  /\ confidence \in [Finding -> Confidence]
  /\ governed /\ pipeline \in {"awaiting_review", "approved", "resuming"} => gate = confidence

PublishedInv == CarriedToWriter /\ PublishedIsEvidenced

(* Only the writer moves a run there.                                       *)
LEMMA BeforeWriter ==
  ASSUME PublishedInv, FindingNext, ~write_all
  PROVE  PublishedInv'
<1> USE DEF PublishedInv
<1>1. pipeline' # "writer"
  BY DEF FindingNext, EditSource, draft_findings, Challenge, respond_to_challenges,
         LockReady, verify_acceptance_coverage, EnterGate, ApproveFindings, ReloadBundle
<1>2. CarriedToWriter'
  <2>1. CASE draft_findings
    BY <2>1 DEF draft_findings, apply_fail_closed_evidence_policy, CarriedToWriter, Confidence
  <2>2. CASE respond_to_challenges
    BY <2>2 DEF respond_to_challenges, Downgraded, CarriedToWriter, Confidence
  <2>3. CASE Challenge \/ LockReady \/ verify_acceptance_coverage
    BY <2>3 DEF Challenge, LockReady, verify_acceptance_coverage, CarriedToWriter
  <2>4. CASE EnterGate \/ ApproveFindings \/ ReloadBundle
    BY <2>4 DEF EnterGate, ApproveFindings, ReloadBundle, CarriedToWriter
  <2>5. CASE \E f \in Finding : EditSource(f)
    BY <2>5 DEF EditSource, CarriedToWriter
  <2> QED
    BY <2>1, <2>2, <2>3, <2>4, <2>5 DEF FindingNext
<1> QED
  BY <1>1, <1>2 DEF PublishedIsEvidenced

LEMMA WriterStep ==
  ASSUME PublishedInv, write_all
  PROVE  PublishedInv'
<1> USE DEF PublishedInv
<1> DEFINE blocked == {f \in Finding : ~Publishable(f)}
<1>1. /\ UNCHANGED <<governed, partial, disk, bundle, gate>>
      /\ governed => gate = confidence
      /\ blocked = Finding \ bundle
  BY DEF write_all, CarriedToWriter, Publishable
<1>2. CASE blocked # {} /\ ~partial
  <2>1. /\ pipeline' = IF governed THEN "approved" ELSE "failed"
        /\ UNCHANGED confidence
    BY <1>2 DEF write_all
  <2> QED
    BY <1>1, <2>1 DEF CarriedToWriter, PublishedIsEvidenced
<1>3. CASE ~(blocked # {} /\ ~partial)
  <2>1. /\ pipeline' = "writer"
        /\ apply_fail_closed_evidence_policy(status, confidence)
        /\ casefile' = {<<f, confidence[f]>> : f \in Finding \ blocked}
    BY <1>3 DEF write_all
  <2>2. CarriedToWriter'
    BY <1>1, <2>1 DEF CarriedToWriter, apply_fail_closed_evidence_policy, Confidence
  <2>3. casefile' = {<<f, confidence[f]>> : f \in bundle}
    BY <1>1, <2>1 DEF CarriedToWriter
  <2>4. \A f \in Finding : (\E c \in Confidence : <<f, c>> \in casefile') <=> f \in bundle
    <3> TAKE f \in Finding
    <3>1. confidence[f] \in Confidence
      BY DEF CarriedToWriter
    <3> QED
      BY <2>3, <3>1
  <2>5. governed => \A f \in bundle : <<f, gate[f]>> \in casefile'
    BY <1>1, <2>3
  <2>6. ~partial => bundle = Finding
    BY <1>1, <1>3 DEF CarriedToWriter
  <2> QED
    BY <1>1, <2>2, <2>4, <2>5, <2>6 DEF PublishedIsEvidenced
<1> QED
  BY <1>2, <1>3

(* Whatever was edited while the run waited and however often its resume    *)
(* was tried: the case file holds what the writer's own bundle resolves,    *)
(* with the confidence the reviewer saw (run_poc.py, quality.py).           *)
THEOREM PublishedIsEvidencedHolds == FindingSpec => []PublishedIsEvidenced
<1>1. FindingInit => PublishedInv
  BY DEF FindingInit, PublishedInv, CarriedToWriter, PublishedIsEvidenced
<1>2. PublishedInv /\ [FindingNext]_reviewVars => PublishedInv'
  <2> SUFFICES ASSUME PublishedInv, [FindingNext]_reviewVars
               PROVE  PublishedInv'
    OBVIOUS
  <2>1. CASE UNCHANGED reviewVars
    BY <2>1 DEF PublishedInv, CarriedToWriter, PublishedIsEvidenced, reviewVars
  <2> QED
    BY <2>1, BeforeWriter, WriterStep
<1>3. PublishedInv => PublishedIsEvidenced
  BY DEF PublishedInv
<1> QED
  BY <1>1, <1>2, <1>3, PTL DEF FindingSpec

(* The rounds of the audit. Nothing is locked while questions are asked,    *)
(* the challenges of a round are those still to be answered, and a finding  *)
(* whose evidence does not resolve is blocked until it is challenged.       *)
Rounds == pipeline \in {"ingest", "select", "respond"}

RoundsTypeOK ==
  /\ pipeline \in FindingStage
  /\ status \in [Finding -> {"draft", "challenged", "blocked", "locked"}]
  /\ asked \subseteq Finding
  /\ log \subseteq Entry
  /\ round \in Nat \ {0}

InOrder ==
  /\ Rounds => \A e \in log : e.action \in {"challenge", "response"}
  /\ pipeline \in {"ingest", "select"} => \A e \in log : e.round < round
  /\ pipeline = "respond" =>
       /\ round <= MaxRounds
       /\ \A e \in log : e.round <= round
       /\ \A e \in log : e.round = round => e.action = "challenge" /\ e.finding \in asked

Answers(e) == [round |-> e.round, action |-> "response", finding |-> e.finding]

Answered ==
  \A e \in log : e.action = "challenge" /\ (pipeline # "respond" \/ e.round < round)
    => Answers(e) \in log

StillOpen ==
  /\ pipeline = "ingest" => \A f \in Finding : status[f] = "draft"
  /\ Rounds => \A f \in Finding : status[f] # "locked"
  /\ pipeline \in {"select", "respond"} =>
       \A f \in Finding : f \notin Challenged /\ f \notin drafted => status[f] = "blocked"

Covered ==
  ~Rounds =>
    /\ \A f \in Finding : (flaws[f] # {} \/ f \notin drafted) => f \in Challenged
    /\ Cardinality(Challenged) >= Least(Minimum, Cardinality(Finding))

LocksLast ==
  \A e, x \in log : e.action = "lock" /\ x.action \in {"challenge", "response"}
                      => e.round > x.round

RoundsInv == RoundsTypeOK /\ InOrder /\ Answered /\ StillOpen /\ Covered /\ LocksLast

LEMMA ChallengedFacts ==
  /\ \A f : f \in Challenged <=> \E e \in log : e.action = "challenge" /\ e.finding = f
  /\ log \subseteq Entry => Challenged \subseteq Finding
BY DEF Challenged, Entry

LEMMA ChallengedLater ==
  \A f : (f \in Challenged)' <=> \E e \in log' : e.action = "challenge" /\ e.finding = f
BY DEF Challenged

(* The log after something is written into it.                              *)
LEMMA LogFacts ==
  ASSUME NEW action, NEW findings, Log(action, findings)
  PROVE  /\ log \subseteq log'
         /\ \A e \in log' : \/ e \in log
                            \/ /\ e.round = round /\ e.action = action
                               /\ e.finding \in findings
         /\ \A f \in findings : [round |-> round, action |-> action, finding |-> f] \in log'
BY DEF Log

(* When nothing is left to ask, everything weak and at least the minimum    *)
(* have been asked about.                                                   *)
LEMMA NothingLeftToAsk ==
  ASSUME RoundsInv, pipeline = "select", RoundChallenges = {{}}
  PROVE  /\ \A f \in Finding : (flaws[f] # {} \/ f \notin drafted) => f \in Challenged
         /\ Cardinality(Challenged) >= Least(Minimum, Cardinality(Finding))
<1> DEFINE flawed == {f \in Open : HasIssues(f)}
           rest == Open \ flawed
           wanted == Minimum - Cardinality(Challenged \cup flawed)
<1>1. PICK s \in Samples(flawed) : flawed \cup s = {}
  <2>1. {} \in {flawed \cup s : s \in Samples(flawed)}
    BY DEF RoundChallenges
  <2> QED
    BY <2>1
<1>2. flawed = {} /\ s = {}
  BY <1>1
<1>3. 0 = IF wanted <= 0 THEN 0 ELSE Least(wanted, Cardinality(rest))
  <2>1. Cardinality(s) = IF wanted <= 0 THEN 0 ELSE Least(wanted, Cardinality(rest))
    BY DEF Samples
  <2> QED
    BY <1>2, <2>1, FS_EmptySet
<1>4. Open = Finding \ Challenged
  BY DEF Open, RoundsInv, StillOpen, Rounds
<1>5. Challenged \subseteq Finding
  BY ChallengedFacts DEF RoundsInv, RoundsTypeOK
<1>6. /\ IsFiniteSet(Finding) /\ IsFiniteSet(Challenged) /\ IsFiniteSet(rest)
      /\ Minimum \in Nat
  <2>1. IsFiniteSet(Finding) /\ Minimum \in Nat
    BY FindingAssumption
  <2> QED
    BY <1>4, <1>5, <2>1, FS_Subset
<1>7. /\ Cardinality(Finding) \in Nat /\ Cardinality(Challenged) \in Nat
      /\ Cardinality(rest) \in Nat
  BY <1>6, FS_CardinalityType
<1>8. Challenged \cup flawed = Challenged
  BY <1>2
<1>9. Cardinality(Challenged) >= Least(Minimum, Cardinality(Finding))
  <2> HIDE DEF rest, flawed
  <2>0. wanted = Minimum - Cardinality(Challenged)
    BY <1>8
  <2> HIDE DEF wanted
  <2>1. CASE wanted <= 0
    <3>1. Cardinality(Challenged) >= Minimum
      BY <1>6, <1>7, <2>0, <2>1
    <3> QED
      BY <1>6, <1>7, <3>1 DEF Least
  <2>2. CASE ~(wanted <= 0)
    <3>1. Cardinality(rest) = 0
      BY <1>3, <1>6, <1>7, <2>0, <2>2 DEF Least
    <3>2. rest = {}
      BY <1>6, <3>1, FS_EmptySet
    <3>3. Challenged = Finding
      BY <1>2, <1>4, <1>5, <3>2 DEF rest
    <3> QED
      BY <1>6, <1>7, <3>3 DEF Least
  <2> QED
    BY <2>1, <2>2
<1>10. ASSUME NEW f \in Finding, flaws[f] # {} \/ f \notin drafted
       PROVE  f \in Challenged
  <2>1. CASE f \notin Challenged
    <3>1. f \in Open /\ ~HasIssues(f)
      BY <1>2, <1>4, <2>1
    <3>2. flaws[f] = {} /\ status[f] # "blocked"
      BY <3>1 DEF HasIssues
    <3> QED
      BY <1>10, <2>1, <3>2 DEF RoundsInv, StillOpen
  <2> QED
    BY <2>1
<1> QED
  BY <1>9, <1>10

LEMMA AuditInitially == FindingInit => RoundsInv
BY DEF FindingInit, RoundsInv, RoundsTypeOK, FindingStage, InOrder, Answered, StillOpen,
       Covered, LocksLast, Rounds, Entry

LEMMA DraftStep ==
  ASSUME RoundsInv, draft_findings
  PROVE  RoundsInv'
<1> USE DEF RoundsInv
<1>1. /\ pipeline = "ingest" /\ pipeline' = "select" /\ drafted' = bundle
      /\ UNCHANGED <<flaws, asked, log, round>>
      /\ status' = [f \in Finding |-> IF f \in bundle THEN status[f] ELSE "blocked"]
  BY DEF draft_findings, apply_fail_closed_evidence_policy, Publishable
<1>2. RoundsTypeOK' /\ InOrder' /\ Answered' /\ Covered' /\ LocksLast'
  BY <1>1 DEF RoundsTypeOK, FindingStage, InOrder, Answered, Covered, LocksLast, Rounds, Answers
<1>3. StillOpen'
  BY <1>1 DEF StillOpen, Rounds, RoundsTypeOK
<1> QED
  BY <1>2, <1>3

LEMMA ChallengeStep ==
  ASSUME RoundsInv, Challenge
  PROVE  RoundsInv'
<1> USE DEF RoundsInv
<1>1. PICK c \in RoundChallenges :
        /\ asked' = c
        /\ status' = [f \in Finding |-> IF f \in c THEN "challenged" ELSE status[f]]
        /\ Log("challenge", c)
  BY DEF Challenge
<1>2. /\ pipeline = "select" /\ pipeline' = "respond" /\ round <= MaxRounds
      /\ UNCHANGED <<flaws, drafted, round>>
  BY DEF Challenge
<1>3. c \subseteq Finding
  BY <1>1 DEF RoundChallenges, Samples, Open
<1>4. /\ log \subseteq log'
      /\ \A e \in log' : \/ e \in log
                         \/ /\ e.round = round /\ e.action = "challenge" /\ e.finding \in c
      /\ \A f \in c : [round |-> round, action |-> "challenge", finding |-> f] \in log'
  BY <1>1, LogFacts
<1>5. RoundsTypeOK'
  <2>1. MaxRounds \in Nat
    BY FindingAssumption
  <2>2. log' \subseteq Entry
    BY <1>1, <1>2, <1>3, <2>1 DEF RoundsTypeOK, Log, Entry
  <2> QED
    BY <1>1, <1>2, <1>3, <2>2 DEF RoundsTypeOK, FindingStage
<1>6. InOrder'
  BY <1>1, <1>2, <1>4 DEF InOrder, Rounds, RoundsTypeOK, Entry
<1>7. Answered'
  BY <1>2, <1>4 DEF Answered, Answers, InOrder, RoundsTypeOK
<1>8. StillOpen'
  <2>1. \A f \in Finding : f \in Challenged => (f \in Challenged)'
    BY <1>4, ChallengedFacts, ChallengedLater
  <2>2. \A f \in Finding : f \in c => status'[f] = "challenged"
    BY <1>1
  <2>3. \A f \in c : (f \in Challenged)'
    BY <1>4, ChallengedLater
  <2>4. \A f \in Finding : f \notin c => status'[f] = status[f]
    BY <1>1
  <2> QED
    BY <1>2, <2>1, <2>2, <2>3, <2>4 DEF StillOpen, Rounds
<1>9. Covered' /\ LocksLast'
  BY <1>2, <1>6 DEF Covered, LocksLast, Rounds, InOrder
<1> QED
  BY <1>5, <1>6, <1>7, <1>8, <1>9

LEMMA RespondStep ==
  ASSUME RoundsInv, respond_to_challenges
  PROVE  RoundsInv'
<1> USE DEF RoundsInv
<1>1. /\ pipeline = "respond" /\ pipeline' = "select" /\ round' = round + 1 /\ asked' = {}
      /\ UNCHANGED <<flaws, drafted>>
      /\ Log("response", asked)
      /\ status' = [f \in Finding |-> IF f \in asked /\ status[f] # "blocked"
                                        THEN "draft" ELSE status[f]]
  BY DEF respond_to_challenges
<1>2. /\ log \subseteq log'
      /\ \A e \in log' : \/ e \in log
                         \/ /\ e.round = round /\ e.action = "response" /\ e.finding \in asked
      /\ \A f \in asked : [round |-> round, action |-> "response", finding |-> f] \in log'
  BY <1>1, LogFacts
<1>3. RoundsTypeOK'
  <2>1. MaxRounds \in Nat /\ round <= MaxRounds
    BY <1>1, FindingAssumption DEF InOrder
  <2>2. log' \subseteq Entry
    BY <1>1, <2>1 DEF RoundsTypeOK, Log, Entry
  <2> QED
    BY <1>1, <2>2 DEF RoundsTypeOK, FindingStage
<1>4. InOrder' /\ LocksLast' /\ Covered'
  BY <1>1, <1>2 DEF InOrder, LocksLast, Covered, Rounds, RoundsTypeOK, Entry
<1>5. Answered'
  BY <1>1, <1>2 DEF Answered, Answers, InOrder, RoundsTypeOK, Entry
<1>6. StillOpen'
  <2>1. \A f \in Finding : f \in Challenged => (f \in Challenged)'
    BY <1>2, ChallengedFacts, ChallengedLater
  <2> QED
    BY <1>1, <2>1 DEF StillOpen, Rounds, RoundsTypeOK
<1> QED
  BY <1>3, <1>4, <1>5, <1>6

LEMMA LockStep ==
  ASSUME RoundsInv, LockReady
  PROVE  RoundsInv'
<1> USE DEF RoundsInv
<1> DEFINE held == {f \in Finding : status[f] = "blocked"}
           unheld == {f \in Finding : status[f] # "locked"} \ held
<1>1. /\ pipeline = "select" /\ pipeline' = "verify" /\ round <= MaxRounds
      /\ RoundChallenges = {{}}
      /\ UNCHANGED <<flaws, drafted, round, asked>>
      /\ status' = [f \in Finding |-> IF f \in unheld THEN "locked" ELSE status[f]]
      /\ log' = log
           \cup [round : {round}, action : {"lock"}, finding : unheld]
           \cup [round : {round}, action : {"block"}, finding : held]
           \cup [round : {MaxRounds}, action : {"max_rounds"}, finding : held]
  BY DEF LockReady
<1>2. /\ log \subseteq log'
      /\ \A e \in log' : \/ e \in log
                         \/ /\ e.action = "lock" /\ e.round = round /\ e.finding \in Finding
                         \/ e.action \in {"block", "max_rounds"}
  BY <1>1
<1>3. RoundsTypeOK'
  <2>1. MaxRounds \in 1..MaxRounds
    BY FindingAssumption
  <2>2. log' \subseteq Entry
    BY <1>1, <2>1 DEF RoundsTypeOK, Entry
  <2> QED
    BY <1>1, <2>2 DEF RoundsTypeOK, FindingStage
<1>4. InOrder' /\ StillOpen' /\ Answered'
  BY <1>1, <1>2 DEF InOrder, StillOpen, Answered, Answers, Rounds
<1>5. Covered'
  <2>1. Challenged' = Challenged
    BY <1>2, ChallengedFacts, ChallengedLater
  <2> QED
    BY <1>1, <2>1, NothingLeftToAsk DEF Covered
<1>6. LocksLast'
  BY <1>1, <1>2 DEF LocksLast, InOrder, Rounds
<1> QED
  BY <1>3, <1>4, <1>5, <1>6

(* Behind the rounds the log stands.                                        *)
LEMMA LaterSteps ==
  ASSUME RoundsInv,
         \/ verify_acceptance_coverage \/ EnterGate \/ ApproveFindings \/ ReloadBundle
         \/ write_all \/ UNCHANGED reviewVars \/ \E f \in Finding : EditSource(f)
  PROVE  RoundsInv'
<1> USE DEF RoundsInv
<1>1. /\ UNCHANGED <<flaws, drafted, log, asked, round>>
      /\ pipeline' = pipeline \/ (~Rounds /\ ~Rounds' /\ pipeline' \in FindingStage)
      /\ \/ UNCHANGED status
         \/ /\ ~Rounds
            /\ \/ status' = status
               \/ status' = [f \in Finding |-> IF Publishable(f) THEN status[f] ELSE "blocked"]
  BY DEF verify_acceptance_coverage, EnterGate, ApproveFindings, ReloadBundle, write_all,
         EditSource, reviewVars, Rounds, FindingStage, apply_fail_closed_evidence_policy
<1>2. RoundsTypeOK'
  BY <1>1 DEF RoundsTypeOK, FindingStage
<1>3. Challenged' = Challenged
  BY <1>1 DEF Challenged
<1>4. InOrder' /\ Answered' /\ LocksLast'
  BY <1>1 DEF InOrder, Answered, Answers, LocksLast, Rounds
<1>5. StillOpen' /\ Covered'
  BY <1>1, <1>3 DEF StillOpen, Covered, Rounds
<1> QED
  BY <1>2, <1>4, <1>5

(* The audit never fails its own acceptance check, asks about everything    *)
(* weak, has every answer and locks last (finance_agents.py                 *)
(* run_review_rounds).                                                      *)
THEOREM WeakAreChallengedHolds == FindingSpec => []WeakAreChallenged
<1>1. FindingInit => RoundsInv
  BY AuditInitially
<1>2. RoundsInv /\ [FindingNext]_reviewVars => RoundsInv'
  BY DraftStep, ChallengeStep, RespondStep, LockStep, LaterSteps DEF FindingNext
<1>3. RoundsInv => WeakAreChallenged
  <2> SUFFICES ASSUME RoundsInv
               PROVE  WeakAreChallenged
    OBVIOUS
  <2> USE DEF RoundsInv
  <2>1. ASSUME Audited, NEW e \in log, e.action = "challenge"
        PROVE  [e EXCEPT !.action = "response"] \in log
    <3>1. Answers(e) \in log
      BY <2>1 DEF Audited, Answered
    <3>2. e \in Entry
      BY <2>1 DEF RoundsTypeOK
    <3>3. [e EXCEPT !.action = "response"] = Answers(e)
      BY <3>2 DEF Answers, Entry
    <3> QED
      BY <3>1, <3>3
  <2> QED
    BY <2>1 DEF Audited, Covered, Rounds, LocksLast, WeakAreChallenged
<1> QED
  BY <1>1, <1>2, <1>3, PTL DEF FindingSpec

=============================================================================

----------------------------- MODULE Projections -----------------------------
(***************************************************************************)
(* The last part of a governed run (run_poc.py): the run is persisted in   *)
(* Postgres, then projected, node by node and edge by edge, into Neo4j     *)
(* (neo4j_store.py), in one batch into Qdrant (vector_store.py), and in    *)
(* batches of source chunks into Qdrant again (source_search.py).  Each    *)
(* request to a store commits alone and may fail; readers ask for the      *)
(* projection's status at any time.                                        *)
(***************************************************************************)
EXTENDS FiniteSets

CONSTANTS
  Node,       \* node keys of a knowledge graph
  Chunk       \* batches of source chunks

Edge == Node \X Node

VARIABLES
  graph,      \* the knowledge-graph artifact: [nodes, edges]; fixed
  persisted,  \* the run, its graph rows included, is in Postgres
  graphStore, \* Neo4j, what it holds of the run: [nodes, edges]
  points,     \* Qdrant: the findings batch is there
  chunks,     \* Qdrant: source chunks
  finish,     \* where the end of the run is
  ready       \* history: what Neo4j held when its status was "ready"

projectionVars ==
  <<graph, persisted, graphStore, points, chunks, finish, ready>>

GraphOf == [nodes : SUBSET Node, edges : SUBSET Edge]

Finish == {"artifacts", "persisted", "unpersisted", "relations", "nodes", "upsert",
           "graph", "findings", "sources", "completed", "failed", "lost"}

ProjectionTypeOK ==
  /\ graph \in GraphOf
  /\ persisted \in BOOLEAN
  /\ graphStore \in GraphOf
  /\ points \in BOOLEAN
  /\ chunks \subseteq Chunk
  /\ finish \in Finish
  /\ ready \subseteq GraphOf

(* build_knowledge_graph: edges begin at nodes it has made, but lead to     *)
(* evidence under a fixed path, which need not be in the dataset.           *)
build_knowledge_graph == {g \in GraphOf : g.edges \subseteq g.nodes \X Node}

(* The edges that have both ends.                                           *)
Anchored(g) == g.edges \cap (g.nodes \X g.nodes)

ProjectionInit ==
  /\ graph \in build_knowledge_graph
  /\ persisted = FALSE
  /\ graphStore = [nodes |-> {}, edges |-> {}]
  /\ points = FALSE
  /\ chunks = {}
  /\ finish = "artifacts"
  /\ ready = {}

----------------------------------------------------------------------------
(* persist_run_summary is one transaction; its failure is a status in the   *)
(* summary and the run goes on.                                             *)
_persist_run_summary_best_effort ==
  /\ finish = "artifacts"
  /\ \/ persisted' = TRUE /\ finish' = "persisted"
     \/ persisted' = FALSE /\ finish' = "unpersisted"
  /\ UNCHANGED <<graph, graphStore, points, chunks, ready>>

(* The projection does not look at the status of the persisted run.         *)
PassGuardrails_ANY ==
  /\ finish \in {"persisted", "unpersisted"}
  /\ finish' = "relations"
  /\ UNCHANGED <<graph, persisted, graphStore, points, chunks, ready>>

(* _projection_guardrails: Postgres has the run and, in one transaction     *)
(* with it, as many nodes and edges as the artifact.                        *)
PassGuardrails ==
  /\ finish = "persisted"
  /\ finish' = "relations"
  /\ UNCHANGED <<graph, persisted, graphStore, points, chunks, ready>>

(* "blocked", or no Neo4j: a status, and the run goes on.                   *)
SkipGraph ==
  /\ finish \in {"persisted", "unpersisted"}
  /\ finish' = "graph"
  /\ UNCHANGED <<graph, persisted, graphStore, points, chunks, ready>>

DeleteRelations ==
  /\ finish = "relations"
  /\ graphStore' = [graphStore EXCEPT !.edges = {}]
  /\ finish' = "nodes"
  /\ UNCHANGED <<graph, persisted, points, chunks, ready>>

DeleteNodes ==
  /\ finish = "nodes"
  /\ graphStore' = [nodes |-> {}, edges |-> {}]
  /\ finish' = "upsert"
  /\ UNCHANGED <<graph, persisted, points, chunks, ready>>

_upsert_node ==
  /\ finish = "upsert"
  /\ \E n \in graph.nodes \ graphStore.nodes :
       graphStore' = [graphStore EXCEPT !.nodes = @ \cup {n}]
  /\ UNCHANGED <<graph, persisted, points, chunks, finish, ready>>

(* An edge is merged only between nodes that match; without them the        *)
(* statement does nothing, and says nothing.                                *)
_upsert_edge ==
  /\ finish = "upsert"
  /\ graphStore.nodes = graph.nodes
  /\ \E e \in Anchored(graph) \ graphStore.edges :
       graphStore' = [graphStore EXCEPT !.edges = @ \cup {e}]
  /\ UNCHANGED <<graph, persisted, points, chunks, finish, ready>>

GraphSynced ==
  /\ finish = "upsert"
  /\ graphStore = [nodes |-> graph.nodes, edges |-> Anchored(graph)]
  /\ finish' = "graph"
  /\ UNCHANGED <<graph, persisted, graphStore, points, chunks, ready>>

(* sync_findings_vector_store: one PUT, or nothing to index.                *)
sync_findings_vector_store ==
  /\ finish = "graph"
  /\ points' \in {TRUE, points}
  /\ finish' = "findings"
  /\ UNCHANGED <<graph, persisted, graphStore, chunks, ready>>

(* sync_sources: obsolete chunks are deleted, then batches are put.         *)
IndexBatch ==
  /\ finish = "findings"
  /\ \E c \in Chunk \ chunks : chunks' = chunks \cup {c}
  /\ UNCHANGED <<graph, persisted, graphStore, points, finish, ready>>

SourcesIndexed ==
  /\ finish = "findings"
  /\ chunks = Chunk \/ chunks = {}      \* all of them, or embeddings are off
  /\ finish' = "sources"
  /\ UNCHANGED <<graph, persisted, graphStore, points, chunks, ready>>

(* The pointers and the summary file are written, and the job succeeds.     *)
RunFinished ==
  /\ finish = "sources"
  /\ finish' = "completed"
  /\ UNCHANGED <<graph, persisted, graphStore, points, chunks, ready>>

(* A store refuses: nobody between here and the job catches the exception.  *)
StoreFails ==
  /\ finish \in {"persisted", "relations", "nodes", "upsert", "graph", "findings"}
  /\ finish' = "failed"
  /\ UNCHANGED <<graph, persisted, graphStore, points, chunks, ready>>

ProcessDies ==
  /\ finish \notin {"completed", "failed", "lost"}
  /\ finish' = "lost"
  /\ UNCHANGED <<graph, persisted, graphStore, points, chunks, ready>>

----------------------------------------------------------------------------
(* graph_status_for_run compares Postgres with the artifact, and asks of    *)
(* Neo4j only that it holds something.                                      *)
graph_status_for_run ==
  /\ graphStore.nodes # {} \/ graphStore.edges # {}
  /\ persisted
  /\ ready' = ready \cup {graphStore}
  /\ UNCHANGED <<graph, persisted, graphStore, points, chunks, finish>>

ProjectionNext ==
  \/ _persist_run_summary_best_effort
  \/ PassGuardrails \/ SkipGraph \/ DeleteRelations \/ DeleteNodes
  \/ _upsert_node \/ _upsert_edge \/ GraphSynced
  \/ sync_findings_vector_store \/ IndexBatch \/ SourcesIndexed
  \/ RunFinished \/ StoreFails \/ ProcessDies
  \/ graph_status_for_run

ProjectionSpec == ProjectionInit /\ [][ProjectionNext]_projectionVars

----------------------------------------------------------------------------
(* Neo4j is projection-only: whatever step the run dies at, it holds part   *)
(* of the run's graph, and nothing of a run that Postgres does not have; a  *)
(* run that completed has left no half of a graph or of an index behind.    *)
ProjectionFollowsPostgres ==
  /\ graphStore.nodes \subseteq graph.nodes /\ graphStore.edges \subseteq graph.edges
  /\ graphStore.nodes # {} => persisted
  /\ finish = "completed" =>
       /\ graphStore.nodes # {} => /\ graphStore.nodes = graph.nodes
                                  /\ graphStore.edges = Anchored(graph)
       /\ chunks \in {{}, Chunk}

(* A projection that is called ready is the graph: nobody asks questions of *)
(* part of it, of a run that is still being projected, that died, or whose  *)
(* edges had no end.                                                        *)
ReadyIsComplete == ready \subseteq {graph}

(* "A failure here must never fail the run itself": a projection that fails *)
(* costs no run that Postgres has.                                          *)
ProjectionNeverFailsRun == finish = "failed" => ~persisted
=============================================================================

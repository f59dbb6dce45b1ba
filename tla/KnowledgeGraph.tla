--------------------------- MODULE KnowledgeGraph ---------------------------
(***************************************************************************)
(* The knowledge graph of one team: the tables graph_nodes and graph_edges *)
(* with the statements of PostgresStore, the graph writes of the alert and *)
(* resolved jobs of several worker replicas, and the admin's endpoints.    *)
(* A node's type and external id are its key: the incident, service or     *)
(* commit it stands for. Row ids are uuids: a deleted one is never used    *)
(* again, although its key may be.                                         *)
(***************************************************************************)
EXTENDS Naturals, FiniteSets

CONSTANTS
  NodeId,          \* ids of graph_nodes rows (bounds how many are inserted)
  Incident,        \* keys of incident nodes
  Service,         \* keys of service nodes
  Commit,          \* keys of deployment nodes
  NoKey, NoNode,   \* no key yet, no row at hand
  Replica,         \* worker pods
  Admin,           \* concurrent promotions by admins
  MaxBusy,         \* bound: how many jobs and promotions run at a time
  SimilarLimit,    \* edgeSimilarLimit
  Depth,           \* how deep a subgraph is asked for
  Faults           \* subset of {"graph", "crash"}: a statement fails or the
                   \* team disables the graph; a process dies

Key == Incident \cup Service \cup Commit

ASSUME GraphAssumption ==
  /\ NoKey \notin Key
  /\ NoNode \notin NodeId
  /\ Incident \cap Service = {} /\ Incident \cap Commit = {} /\ Service \cap Commit = {}
  /\ SimilarLimit \in Nat /\ Depth \in Nat /\ MaxBusy \in Nat
  /\ Faults \subseteq {"graph", "crash"}

VARIABLES
  nodes,           \* graph_nodes: id -> row
  edges,           \* graph_edges: <<from_id, to_id>> -> status, "none" if absent
  jobs,            \* graph work of each replica's job loop
  admin,           \* promotions in progress
  analysed,        \* incidents.analysis: has one been saved
  overtaken        \* history: incidents whose node was last written by a
                   \* job that knew no analysis although one was saved

incidentVars == <<analysed, overtaken>>
vars == <<nodes, edges, jobs, admin, incidentVars>>

(* described: the properties column holds an analysis. The type of an edge *)
(* follows from its target: similar_to, affects or caused_by.              *)
NodeRow == [key : Key \cup {NoKey},
            status : {"unused", "pending", "permanent", "deleted"},
            described : BOOLEAN]

JobState == [pc : {"idle", "pending", "analyse", "draft", "upsert", "promote", "findSimilar",
                   "similarEdges", "findService", "affectsEdge", "deployment",
                   "causedByEdge"},
             incident : Incident \cup {NoKey},
             analysis : BOOLEAN,                  \* has the job one at hand
             node : NodeId \cup {NoNode},         \* the incident's own row
             targets : SUBSET NodeId]             \* rows to draw edges to

AdminState == NodeId \cup {NoNode}

JobIdle == [pc |-> "idle", incident |-> NoKey, analysis |-> FALSE,
            node |-> NoNode, targets |-> {}]

TypeOK ==
  /\ nodes \in [NodeId -> NodeRow]
  /\ edges \in [NodeId \X NodeId -> {"none", "pending", "permanent"}]
  /\ jobs \in [Replica -> JobState]
  /\ admin \in [Admin -> AdminState]
  /\ analysed \in [Incident -> BOOLEAN]
  /\ overtaken \in SUBSET Incident
  /\ \A w \in Replica :
       /\ jobs[w].pc # "idle" => jobs[w].incident \in Incident
       /\ jobs[w].pc \notin {"idle", "pending", "analyse", "draft", "upsert"} => jobs[w].node \in NodeId

Init ==
  /\ nodes = [n \in NodeId |-> [key |-> NoKey, status |-> "unused", described |-> FALSE]]
  /\ edges = [e \in NodeId \X NodeId |-> "none"]
  /\ jobs = [w \in Replica |-> JobIdle]
  /\ admin = [a \in Admin |-> NoNode]
  /\ analysed = [i \in Incident |-> FALSE]
  /\ overtaken = {}

----------------------------------------------------------------------------
(* PostgresStore *)

Live(n) == nodes[n].status \in {"pending", "permanent"}

(* FindNodeByExternalID: the rows of a key; the unique index leaves one. *)
NodesOf(k) == {n \in NodeId : Live(n) /\ nodes[n].key = k}

(* gen_random_uuid: one row nobody has used, it does not matter which. *)
Fresh(n) ==
  /\ nodes[n].status = "unused"
  /\ n = CHOOSE m \in NodeId : nodes[m].status = "unused"

(* Mutant: ON CONFLICT takes the status of the new row. *)
UpsertNode_Demotes(n, k, status, described) ==
  /\ IF NodesOf(k) = {} THEN Fresh(n) ELSE n \in NodesOf(k)
  /\ nodes' = [nodes EXCEPT ![n] =
                 [key |-> k, status |-> status, described |-> described]]

(* INSERT ... ON CONFLICT (team_id, type, external_id) DO UPDATE: label    *)
(* and properties are replaced, a permanent status is kept. n is the row   *)
(* that is returned.                                                       *)
UpsertNode(n, k, status, described) ==
  /\ IF NodesOf(k) = {} THEN Fresh(n) ELSE n \in NodesOf(k)
  /\ nodes' = [nodes EXCEPT ![n] =
                 [key |-> k,
                  status |-> IF @.status = "permanent" THEN "permanent" ELSE status,
                  described |-> described]]

(* The foreign keys accept an edge only between rows that exist. *)
EdgeAllowed(f, t) == f # t /\ Live(f) /\ Live(t)

UpsertEdge(f, t, status) ==
  /\ EdgeAllowed(f, t)
  /\ edges' = [edges EXCEPT ![<<f, t>>] = IF @ = "permanent" THEN @ ELSE status]

(* One transaction: the node, then the edges at it whose ends are both     *)
(* permanent.                                                              *)
PromoteNode(n) ==
  /\ Live(n)
  /\ nodes' = [nodes EXCEPT ![n].status = "permanent"]
  /\ edges' = [e \in NodeId \X NodeId |->
                 IF /\ edges[e] # "none"
                    /\ n \in {e[1], e[2]}
                    /\ nodes'[e[1]].status = "permanent"
                    /\ nodes'[e[2]].status = "permanent"
                 THEN "permanent" ELSE edges[e]]

(* ON DELETE CASCADE takes the edges along. *)
DeleteNode(n) ==
  /\ Live(n)
  /\ nodes' = [nodes EXCEPT ![n] = [key |-> NoKey, status |-> "deleted", described |-> FALSE]]
  /\ edges' = [e \in NodeId \X NodeId |->
                 IF n \in {e[1], e[2]} THEN "none" ELSE edges[e]]

(* Mutant: without AND status = 'permanent'. *)
SimilarCandidates_Pending(n) ==
  {m \in NodeId : Live(m) /\ nodes[m].key \in Incident /\ m # n}

(* FindSimilar: which permanent nodes of the type score high enough is the *)
(* caller's choice.                                                        *)
SimilarCandidates(n) ==
  {m \in NodeId : /\ nodes[m].status = "permanent"
                  /\ nodes[m].key \in Incident
                  /\ m # n}

FindSimilar(n) == {S \in SUBSET SimilarCandidates(n) : Cardinality(S) <= SimilarLimit}

(* GetSubgraph: the root, whatever its status, and the ends of the walks   *)
(* from it along permanent edges to permanent nodes, none of them twice.   *)
Neighbour(n, m) ==
  /\ nodes[m].status = "permanent"
  /\ edges[<<n, m>>] = "permanent" \/ edges[<<m, n>>] = "permanent"

Walks(root, d) ==
  {path \in [0 .. d -> NodeId] :
     /\ path[0] = root
     /\ \A i \in 1 .. d : /\ Neighbour(path[i - 1], path[i])
                          /\ \A j \in 0 .. i - 1 : path[j] # path[i]}

GetSubgraph(root) == UNION {{path[d] : path \in Walks(root, d)} : d \in 0 .. Depth}

----------------------------------------------------------------------------
(* Bound: a job or a promotion starts only while fewer than MaxBusy run. *)
RoomLeft ==
  Cardinality({w \in Replica : jobs[w] # JobIdle})
    + Cardinality({a \in Admin : admin[a] # NoNode}) < MaxBusy

(* The jobs *)

JobGoesTo(w, pc, n, targets) ==
  jobs' = [jobs EXCEPT ![w] = [pc |-> pc, incident |-> jobs[w].incident,
                               analysis |-> jobs[w].analysis,
                               node |-> n, targets |-> targets]]

(* Mutant: the loop keeps its place in a job that is over. *)
JobEnds_KeepsPc(w) == jobs' = [jobs EXCEPT ![w] = [JobIdle EXCEPT !.pc = jobs[w].pc]]

JobEnds(w) == jobs' = [jobs EXCEPT ![w] = JobIdle]

TakeJob(w, pc, i, analysis) ==
  /\ jobs[w] = JobIdle
  /\ RoomLeft
  /\ jobs' = [jobs EXCEPT ![w] = [pc |-> pc, incident |-> i, analysis |-> analysis,
                                  node |-> NoNode, targets |-> {}]]

(* A re-sent push can bring the alert of an incident more than once. *)
TakeAlertJob(w, i) ==
  /\ TakeJob(w, "pending", i, FALSE)
  /\ UNCHANGED <<nodes, edges, admin, incidentVars>>

(* processResolvedIncidentJob reads the row once, with its analysis; what  *)
(* it writes later is built from this copy.                                *)
TakeResolvedJob(w, i) ==
  /\ TakeJob(w, "upsert", i, analysed[i])
  /\ UNCHANGED <<nodes, edges, admin, incidentVars>>

(* writePendingIncidentToGraph: a label and no properties. *)
WritePending(w) ==
  /\ jobs[w].pc = "pending"
  /\ \E n \in NodeId : UpsertNode(n, jobs[w].incident, "pending", FALSE)
  /\ JobGoesTo(w, "analyse", NoNode, {})
  /\ UNCHANGED <<edges, admin, incidentVars>>

(* The backend may be missing, or give no answer. An analysis it gives is  *)
(* used further on even if updateIncidentAnalysis fails to save it.        *)
Analyse(w) ==
  /\ jobs[w].pc = "analyse"
  /\ \E found \in BOOLEAN :
       /\ jobs' = [jobs EXCEPT ![w] = [pc |-> "draft", incident |-> jobs[w].incident,
                                       analysis |-> found, node |-> NoNode, targets |-> {}]]
       /\ \/ analysed' = [analysed EXCEPT ![jobs[w].incident] = @ \/ found]
          \/ "graph" \in Faults /\ UNCHANGED analysed
  /\ UNCHANGED <<nodes, edges, admin, overtaken>>

(* The job has written the node with its own copy of the analysis. *)
Recorded(w) ==
  overtaken' =
    IF jobs[w].analysis THEN overtaken \ {jobs[w].incident}
    ELSE overtaken \cup {i \in Incident : i = jobs[w].incident /\ analysed[i]}

(* Mutant: only the label is written again. *)
WriteDraft_Bare(w) ==
  /\ jobs[w].pc = "draft"
  /\ \E n \in NodeId : UpsertNode(n, jobs[w].incident, "pending", FALSE)
  /\ Recorded(w)
  /\ JobEnds(w)
  /\ UNCHANGED <<edges, admin, analysed>>

(* loadSimilarIncidentForNotification: the whole node again. What          *)
(* FindSimilar then returns goes into the notification only.               *)
WriteDraft(w) ==
  /\ jobs[w].pc = "draft"
  /\ \E n \in NodeId : UpsertNode(n, jobs[w].incident, "pending", jobs[w].analysis)
  /\ Recorded(w)
  /\ JobEnds(w)
  /\ UNCHANGED <<edges, admin, analysed>>

(* persistResolvedIncidentNode *)
WriteResolved(w) ==
  /\ jobs[w].pc = "upsert"
  /\ \E n \in NodeId :
       /\ UpsertNode(n, jobs[w].incident, "pending", jobs[w].analysis)
       /\ JobGoesTo(w, "promote", n, {})
  /\ Recorded(w)
  /\ UNCHANGED <<edges, admin, analysed>>

Promote(w) ==
  /\ jobs[w].pc = "promote"
  /\ \/ /\ PromoteNode(jobs[w].node)
        /\ JobGoesTo(w, "findSimilar", jobs[w].node, {})
     \/ /\ ~Live(jobs[w].node)                      \* ErrNodeNotFound
        /\ JobEnds(w)
        /\ UNCHANGED <<nodes, edges>>
  /\ UNCHANGED <<admin, incidentVars>>

(* writeSimilarEdges: one read, then an edge to each match. *)
MatchesLeft(w, targets) ==
  JobGoesTo(w, IF targets = {} THEN "findService" ELSE "similarEdges", jobs[w].node, targets)

FindMatches(w) ==
  /\ jobs[w].pc = "findSimilar"
  /\ \/ Live(jobs[w].node) /\ \E S \in FindSimilar(jobs[w].node) : MatchesLeft(w, S)
     \/ ~Live(jobs[w].node) /\ MatchesLeft(w, {})
  /\ UNCHANGED <<nodes, edges, admin, incidentVars>>

(* Draw a permanent edge to a target; a refused or failed INSERT is logged *)
DrawEdge(w, t) ==
  \/ UpsertEdge(jobs[w].node, t, "permanent")
  \/ (~EdgeAllowed(jobs[w].node, t) \/ "graph" \in Faults) /\ UNCHANGED edges

WriteSimilarEdge(w) ==
  /\ jobs[w].pc = "similarEdges"
  /\ \E t \in jobs[w].targets : DrawEdge(w, t) /\ MatchesLeft(w, jobs[w].targets \ {t})
  /\ UNCHANGED <<nodes, admin, incidentVars>>

(* writeAffectsServiceEdge: only to a service an admin has registered; an  *)
(* incident may name none.                                                 *)
FindService(w) ==
  /\ jobs[w].pc = "findService"
  /\ \/ \E s \in Service, n \in NodeId :
          /\ n \in NodesOf(s)
          /\ JobGoesTo(w, "affectsEdge", jobs[w].node, {n})
     \/ JobGoesTo(w, "deployment", jobs[w].node, {})
  /\ UNCHANGED <<nodes, edges, admin, incidentVars>>

WriteAffectsEdge(w) ==
  /\ jobs[w].pc = "affectsEdge"
  /\ \E t \in jobs[w].targets : DrawEdge(w, t)
  /\ JobGoesTo(w, "deployment", jobs[w].node, {})
  /\ UNCHANGED <<nodes, admin, incidentVars>>

(* writeCausedByEdge: a permanent node for the newest commit, then the     *)
(* edge; skipped when there is no analysis or it blames no deployment.     *)
WriteDeployment(w) ==
  /\ jobs[w].pc = "deployment"
  /\ \/ \E c \in Commit, n \in NodeId :
          /\ jobs[w].analysis
          /\ UpsertNode(n, c, "permanent", FALSE)
          /\ JobGoesTo(w, "causedByEdge", jobs[w].node, {n})
     \/ JobEnds(w) /\ UNCHANGED nodes
  /\ UNCHANGED <<edges, admin, incidentVars>>

WriteCausedByEdge(w) ==
  /\ jobs[w].pc = "causedByEdge"
  /\ \E t \in jobs[w].targets : DrawEdge(w, t)
  /\ JobEnds(w)
  /\ UNCHANGED <<nodes, admin, incidentVars>>

(* An alert job that ends between its two writes leaves a bare node. *)
DraftLost(w) ==
  /\ overtaken' = overtaken \cup
       {i \in Incident : /\ i = jobs[w].incident /\ analysed[i]
                         /\ jobs[w].pc \in {"analyse", "draft"}}
  /\ UNCHANGED analysed

(* A failing statement: the alert job goes on, the resolved job ends       *)
(* before its promotion and tries the next kind of edge after it.          *)
StatementFails(w) ==
  /\ "graph" \in Faults
  /\ \/ jobs[w].pc = "pending" /\ JobGoesTo(w, "analyse", NoNode, {})
     \/ jobs[w].pc \in {"draft", "upsert", "promote"} /\ JobEnds(w)
     \/ jobs[w].pc = "findSimilar" /\ JobGoesTo(w, "findService", jobs[w].node, {})
  /\ DraftLost(w)
  /\ UNCHANGED <<nodes, edges, admin>>

ReplicaCrash(w) ==
  /\ "crash" \in Faults
  /\ jobs[w] # JobIdle
  /\ JobEnds(w)
  /\ DraftLost(w)
  /\ UNCHANGED <<nodes, edges, admin>>

JobStep(w) ==
  \/ WritePending(w) \/ Analyse(w) \/ WriteDraft(w)
  \/ WriteResolved(w) \/ Promote(w)
  \/ FindMatches(w) \/ WriteSimilarEdge(w)
  \/ FindService(w) \/ WriteAffectsEdge(w)
  \/ WriteDeployment(w) \/ WriteCausedByEdge(w)
  \/ StatementFails(w)

----------------------------------------------------------------------------
(* The admin *)

(* handlePromoteIncidentGraphNode: look the node up, then promote it, also *)
(* while the incident is open.                                             *)
PromoteRequest(a, i) ==
  /\ admin[a] = NoNode
  /\ RoomLeft
  /\ \E n \in NodesOf(i) : admin' = [admin EXCEPT ![a] = n]
  /\ UNCHANGED <<nodes, edges, jobs, incidentVars>>

PromoteByAdmin(a) ==
  /\ admin[a] # NoNode
  /\ \/ PromoteNode(admin[a])
     \/ (~Live(admin[a]) \/ "graph" \in Faults) /\ UNCHANGED <<nodes, edges>>
  /\ admin' = [admin EXCEPT ![a] = NoNode]
  /\ UNCHANGED <<jobs, incidentVars>>

(* handleDeleteGraphNode *)
DeleteGraphNode(n) ==
  /\ DeleteNode(n)
  /\ UNCHANGED <<jobs, admin, incidentVars>>

(* listGraphServiceNodes: among the first permanent nodes, so a service may *)
(* be missing from it; then its deletion is refused.                        *)
ServiceNodes == {n \in NodeId : nodes[n].status = "permanent" /\ nodes[n].key \in Service}

(* handleDeleteGraphService *)
DeleteGraphService(n) ==
  /\ n \in ServiceNodes
  /\ DeleteNode(n)
  /\ UNCHANGED <<jobs, admin, incidentVars>>

(* handleCreateGraphService *)
CreateGraphService(s) ==
  /\ \E n \in NodeId : UpsertNode(n, s, "permanent", TRUE)
  /\ UNCHANGED <<edges, jobs, admin, incidentVars>>

Next ==
  \/ \E w \in Replica, i \in Incident : TakeAlertJob(w, i) \/ TakeResolvedJob(w, i)
  \/ \E w \in Replica : JobStep(w) \/ ReplicaCrash(w)
  \/ \E a \in Admin, i \in Incident : PromoteRequest(a, i)
  \/ \E a \in Admin : PromoteByAdmin(a)
  \/ \E n \in NodeId : DeleteGraphNode(n) \/ DeleteGraphService(n)
  \/ \E s \in Service : CreateGraphService(s)

Spec == Init /\ [][Next]_vars

----------------------------------------------------------------------------
(* "both nodes are permanent at this point" (writeSimilarEdges), for every *)
(* kind of edge: whatever is deleted, created anew and promoted between    *)
(* the reads of a job and its INSERTs, an edge joins rows that exist, and  *)
(* a permanent edge joins permanent nodes.                                 *)
EdgesJoinPermanent ==
  \A f, t \in NodeId :
    /\ edges[<<f, t>>] # "none" => Live(f) /\ Live(t)
    /\ edges[<<f, t>>] = "permanent" =>
         nodes[f].status = "permanent" /\ nodes[t].status = "permanent"

(* Why: a row that a job has promoted or read as permanent is permanent or *)
(* deleted when it is used; service and deployment rows never are pending. *)
Settled(n) == nodes[n].status \in {"permanent", "deleted"}

ReadsStaySettled ==
  \A w \in Replica :
    /\ jobs[w].pc \notin {"idle", "pending", "analyse", "draft", "upsert", "promote"} =>
         Settled(jobs[w].node)
    /\ \A t \in jobs[w].targets : Settled(t)

KeysSettle ==
  \A n \in NodeId :
    /\ Live(n) <=> nodes[n].key # NoKey
    /\ nodes[n].key \in Service \cup Commit => Settled(n)

(* The contamination guarantee: the draft of an open incident is in no     *)
(* subgraph but its own, and its own shows nothing else.                   *)
PendingIsAlone ==
  \A m \in NodeId :
    nodes[m].status = "pending" =>
      /\ GetSubgraph(m) = {m}
      /\ \A n \in NodeId : Live(n) /\ n # m => m \notin GetSubgraph(n)

(* An alert job is between its two writes of the incident's node. *)
Drafting(i) ==
  \E w \in Replica : jobs[w].incident = i /\ jobs[w].pc \in {"analyse", "draft"}

(* A saved analysis is in the permanent node, even if the bare node of the *)
(* alert job was written after the resolved job's or promoted by an admin, *)
(* while no alert job is between its writes. What spoils it is a job that  *)
(* writes last and had read or made no analysis (a resolved job that read  *)
(* the row before the analysis was saved), or an alert job that dies.      *)
PermanentIsDescribed ==
  \A n \in NodeId :
    /\ nodes[n].status = "permanent"
    /\ nodes[n].key \in Incident
    /\ analysed[nodes[n].key]
    /\ nodes[n].key \notin overtaken
    /\ ~Drafting(nodes[n].key)
    => nodes[n].described

(* Why: a bare row of an analysed incident, permanent or not, is accounted *)
(* for, and a key has one row.                                             *)
OneRowPerKey ==
  \A m, n \in NodeId : Live(m) /\ Live(n) /\ nodes[m].key = nodes[n].key => m = n

BareIsDrafted ==
  \A n \in NodeId :
    Live(n) /\ nodes[n].key \in Incident /\ analysed[nodes[n].key] =>
      nodes[n].described \/ nodes[n].key \in overtaken \/ Drafting(nodes[n].key)
============================================================================

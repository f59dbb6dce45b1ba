---------------------------- MODULE GraphProofs ----------------------------
(***************************************************************************)
(* Edges of the knowledge graph join permanent nodes, for any number of    *)
(* replicas, admins and rows and every set of faults. The jobs work on     *)
(* rows they read earlier: the invariant says what may have become of them *)
(***************************************************************************)
EXTENDS KnowledgeGraph, TLAPS

IncidentsOK == analysed \in [Incident -> BOOLEAN] /\ overtaken \in SUBSET Incident

GraphInv == TypeOK /\ EdgesJoinPermanent /\ ReadsStaySettled /\ KeysSettle

(* What every statement leaves true of the rows. *)
RowsGrowUp ==
  /\ nodes' \in [NodeId -> NodeRow]
  /\ KeysSettle'
  /\ \A m \in NodeId : Settled(m) => Settled(m)'

(* A row that was inserted or updated. *)
LEMMA UpsertNodeEffect ==
  ASSUME GraphInv, NEW n \in NodeId, NEW k \in Key,
         NEW s \in {"pending", "permanent"}, NEW d \in BOOLEAN,
         k \in Service \cup Commit => s = "permanent",
         UpsertNode(n, k, s, d)
  PROVE  /\ RowsGrowUp
         /\ \A m \in NodeId : Live(m) => Live(m)'
         /\ \A m \in NodeId : nodes[m].status = "permanent" => nodes'[m].status = "permanent"
         /\ s = "permanent" => Settled(n)'
<1>1. nodes \in [NodeId -> NodeRow] /\ KeysSettle
  BY DEF GraphInv, TypeOK
<1>2. /\ nodes' \in [NodeId -> NodeRow]
      /\ \A m \in NodeId : m # n => nodes'[m] = nodes[m]
      /\ nodes'[n].key = k
      /\ nodes'[n].status = IF nodes[n].status = "permanent" THEN "permanent" ELSE s
  BY <1>1 DEF UpsertNode, NodeRow
<1>3. nodes[n].status \in {"unused", "pending", "permanent"}
  BY <1>1 DEF UpsertNode, NodesOf, Live, NodeRow, Fresh
<1>4. KeysSettle'
  BY <1>1, <1>2, <1>3, GraphAssumption DEF KeysSettle, Settled, Live
<1>5. QED
  BY <1>2, <1>3, <1>4 DEF RowsGrowUp, Settled, Live

(* A promoted row and its edges. *)
LEMMA PromoteNodeEffect ==
  ASSUME GraphInv, NEW n \in NodeId, PromoteNode(n)
  PROVE  /\ RowsGrowUp
         /\ Settled(n)'
         /\ edges' \in [NodeId \X NodeId -> {"none", "pending", "permanent"}]
         /\ EdgesJoinPermanent'
<1>1. nodes \in [NodeId -> NodeRow] /\ KeysSettle
  BY DEF GraphInv, TypeOK
<1>2. /\ nodes' \in [NodeId -> NodeRow]
      /\ \A m \in NodeId : m # n => nodes'[m] = nodes[m]
      /\ nodes'[n].status = "permanent" /\ nodes'[n].key = nodes[n].key
  BY <1>1 DEF PromoteNode, NodeRow
<1>3. RowsGrowUp /\ Settled(n)'
  BY <1>1, <1>2 DEF RowsGrowUp, KeysSettle, Settled, PromoteNode, Live
<1>4. edges' \in [NodeId \X NodeId -> {"none", "pending", "permanent"}]
  BY DEF PromoteNode, GraphInv, TypeOK
<1>5. ASSUME NEW f \in NodeId, NEW t \in NodeId
      PROVE  /\ edges'[<<f, t>>] # "none" => edges[<<f, t>>] # "none"
             /\ edges'[<<f, t>>] = "permanent" =>
                  \/ edges[<<f, t>>] = "permanent"
                  \/ nodes'[f].status = "permanent" /\ nodes'[t].status = "permanent"
  BY DEF PromoteNode
<1>6. EdgesJoinPermanent'
  <2> SUFFICES ASSUME NEW f \in NodeId, NEW t \in NodeId
               PROVE  /\ edges'[<<f, t>>] # "none" => Live(f)' /\ Live(t)'
                      /\ edges'[<<f, t>>] = "permanent" =>
                           nodes'[f].status = "permanent" /\ nodes'[t].status = "permanent"
    BY DEF EdgesJoinPermanent
  <2>1. /\ edges[<<f, t>>] # "none" => Live(f) /\ Live(t)
        /\ edges[<<f, t>>] = "permanent" =>
             nodes[f].status = "permanent" /\ nodes[t].status = "permanent"
    BY DEF GraphInv, EdgesJoinPermanent
  <2>2. QED
    BY <1>2, <1>5, <2>1 DEF Live
<1>7. QED
  BY <1>3, <1>4, <1>6

(* A deleted row takes its edges along. *)
LEMMA DeleteNodeEffect ==
  ASSUME GraphInv, NEW n \in NodeId, DeleteNode(n)
  PROVE  /\ RowsGrowUp
         /\ edges' \in [NodeId \X NodeId -> {"none", "pending", "permanent"}]
         /\ EdgesJoinPermanent'
<1>1. nodes \in [NodeId -> NodeRow] /\ KeysSettle
  BY DEF GraphInv, TypeOK
<1>2. /\ nodes' \in [NodeId -> NodeRow]
      /\ \A m \in NodeId : m # n => nodes'[m] = nodes[m]
      /\ nodes'[n].status = "deleted" /\ nodes'[n].key = NoKey
  BY <1>1 DEF DeleteNode, NodeRow
<1>3. RowsGrowUp
  BY <1>1, <1>2, GraphAssumption DEF RowsGrowUp, KeysSettle, Settled, DeleteNode, Live, Key
<1>4. edges' \in [NodeId \X NodeId -> {"none", "pending", "permanent"}]
  BY DEF DeleteNode, GraphInv, TypeOK
<1>5. \A f, t \in NodeId :
        edges'[<<f, t>>] = IF n \in {f, t} THEN "none" ELSE edges[<<f, t>>]
  BY DEF DeleteNode
<1>6. EdgesJoinPermanent'
  <2> SUFFICES ASSUME NEW f \in NodeId, NEW t \in NodeId
               PROVE  /\ edges'[<<f, t>>] # "none" => Live(f)' /\ Live(t)'
                      /\ edges'[<<f, t>>] = "permanent" =>
                           nodes'[f].status = "permanent" /\ nodes'[t].status = "permanent"
    BY DEF EdgesJoinPermanent
  <2>1. /\ edges[<<f, t>>] # "none" => Live(f) /\ Live(t)
        /\ edges[<<f, t>>] = "permanent" =>
             nodes[f].status = "permanent" /\ nodes[t].status = "permanent"
    BY DEF GraphInv, EdgesJoinPermanent
  <2>2. QED
    BY <1>2, <1>5, <2>1 DEF Live
<1>7. QED
  BY <1>3, <1>4, <1>6

(* Rows that grow and edges that stay keep the edges well joined. *)
LEMMA EdgesKept ==
  ASSUME GraphInv, UNCHANGED edges,
         \A m \in NodeId : Live(m) => Live(m)',
         \A m \in NodeId : nodes[m].status = "permanent" => nodes'[m].status = "permanent"
  PROVE  /\ EdgesJoinPermanent'
         /\ edges' \in [NodeId \X NodeId -> {"none", "pending", "permanent"}]
  BY DEF GraphInv, TypeOK, EdgesJoinPermanent

(* An edge drawn between settled rows. *)
LEMMA DrawEdgeEffect ==
  ASSUME GraphInv, UNCHANGED nodes, NEW w \in Replica, NEW t \in NodeId,
         jobs[w].node \in NodeId, Settled(jobs[w].node), Settled(t), DrawEdge(w, t)
  PROVE  /\ EdgesJoinPermanent'
         /\ edges' \in [NodeId \X NodeId -> {"none", "pending", "permanent"}]
<1>1. CASE UNCHANGED edges
  BY <1>1, EdgesKept DEF Live
<1>2. CASE UpsertEdge(jobs[w].node, t, "permanent")
  <2> DEFINE f == jobs[w].node
  <2>1. /\ edges' = [edges EXCEPT ![<<f, t>>] = "permanent"]
        /\ nodes[f].status = "permanent" /\ nodes[t].status = "permanent"
    BY <1>2 DEF UpsertEdge, EdgeAllowed, Live, Settled, GraphInv, TypeOK
  <2>2. \A g, u \in NodeId : edges'[<<g, u>>] =
          IF g = f /\ u = t THEN "permanent" ELSE edges[<<g, u>>]
    BY <2>1 DEF GraphInv, TypeOK
  <2>3. EdgesJoinPermanent'
    <3> SUFFICES ASSUME NEW g \in NodeId, NEW u \in NodeId
                 PROVE  /\ edges'[<<g, u>>] # "none" => Live(g)' /\ Live(u)'
                        /\ edges'[<<g, u>>] = "permanent" =>
                             nodes'[g].status = "permanent" /\ nodes'[u].status = "permanent"
      BY DEF EdgesJoinPermanent
    <3>1. /\ edges[<<g, u>>] # "none" => Live(g) /\ Live(u)
          /\ edges[<<g, u>>] = "permanent" =>
               nodes[g].status = "permanent" /\ nodes[u].status = "permanent"
      BY DEF GraphInv, EdgesJoinPermanent
    <3>2. QED
      BY <2>1, <2>2, <3>1 DEF Live
  <2>4. QED
    BY <2>1, <2>3 DEF GraphInv, TypeOK
<1>3. QED
  BY <1>1, <1>2 DEF DrawEdge

----------------------------------------------------------------------------
(* The jobs' part of the invariant. *)
JobsOK ==
  /\ jobs \in [Replica -> JobState]
  /\ \A w \in Replica :
       /\ jobs[w].pc # "idle" => jobs[w].incident \in Incident
       /\ jobs[w].pc \notin {"idle", "pending", "analyse", "draft", "upsert"} => jobs[w].node \in NodeId
  /\ ReadsStaySettled

JobPc == {"idle", "pending", "analyse", "draft", "upsert", "promote", "findSimilar",
          "similarEdges", "findService", "affectsEdge", "deployment", "causedByEdge"}

LEMMA GraphInvJobs == GraphInv => JobsOK
  BY DEF GraphInv, TypeOK, JobsOK

(* Rows that no statement touches. *)
LEMMA SameRows ==
  ASSUME GraphInv, UNCHANGED nodes
  PROVE  RowsGrowUp /\ \A m \in NodeId : Live(m) => Live(m)'
  BY DEF GraphInv, TypeOK, RowsGrowUp, KeysSettle, Settled, Live

LEMMA JobsKept ==
  ASSUME GraphInv, RowsGrowUp, UNCHANGED jobs
  PROVE  JobsOK'
<1>1. JobsOK
  BY GraphInvJobs
<1>2. ReadsStaySettled'
  BY <1>1 DEF JobsOK, ReadsStaySettled, RowsGrowUp, JobState
<1>3. QED
  BY <1>1, <1>2 DEF JobsOK

(* A job that moves on with rows that are settled. *)
LEMMA JobMoves ==
  ASSUME GraphInv, RowsGrowUp, NEW w \in Replica,
         NEW pc \in JobPc \ {"idle"}, NEW i \in Incident,
         NEW n \in NodeId \cup {NoNode}, NEW T \in SUBSET NodeId, NEW a \in BOOLEAN,
         pc \notin {"pending", "analyse", "draft", "upsert"} => n \in NodeId,
         pc \notin {"pending", "analyse", "draft", "upsert", "promote"} => Settled(n)',
         \A t \in T : Settled(t)',
         jobs' = [jobs EXCEPT ![w] = [pc |-> pc, incident |-> i, analysis |-> a, node |-> n, targets |-> T]]
  PROVE  JobsOK'
<1>1. JobsOK
  BY GraphInvJobs
<1>2. jobs' \in [Replica -> JobState]
  BY <1>1 DEF JobsOK, JobState, JobPc
<1>3. jobs'[w] = [pc |-> pc, incident |-> i, analysis |-> a, node |-> n, targets |-> T]
  BY <1>1 DEF JobsOK
<1>4. \A v \in Replica : v # w => jobs'[v] = jobs[v]
  BY <1>1 DEF JobsOK
<1>5. ASSUME NEW v \in Replica
      PROVE  /\ jobs'[v].pc # "idle" => jobs'[v].incident \in Incident
             /\ jobs'[v].pc \notin {"idle", "pending", "analyse", "draft", "upsert"} => jobs'[v].node \in NodeId
             /\ jobs'[v].pc \notin {"idle", "pending", "analyse", "draft", "upsert", "promote"} =>
                  Settled(jobs[v].node)'
             /\ \A t \in jobs'[v].targets : Settled(t)'
  <2>1. CASE v = w
    BY <1>3, <2>1 DEF JobPc, Settled
  <2>2. CASE v # w
    <3>1. jobs'[v] = jobs[v] /\ jobs[v] \in JobState
      BY <1>1, <1>4, <2>2 DEF JobsOK
    <3>2. QED
      BY <1>1, <3>1 DEF JobsOK, ReadsStaySettled, RowsGrowUp, JobState, Settled
  <2>3. QED
    BY <2>1, <2>2
<1>6. QED
  BY <1>2, <1>5 DEF JobsOK, ReadsStaySettled

LEMMA JobGoes ==
  ASSUME GraphInv, RowsGrowUp, NEW w \in Replica, NEW pc \in JobPc \ {"idle"},
         jobs[w].incident \in Incident, NEW n, NEW T, JobGoesTo(w, pc, n, T),
         IF pc \in {"pending", "analyse", "draft", "upsert"} THEN n = NoNode ELSE n \in NodeId,
         pc \notin {"pending", "analyse", "draft", "upsert", "promote"} => Settled(n)',
         T \subseteq NodeId, \A t \in T : Settled(t)'
  PROVE  JobsOK'
<1>0. jobs[w].analysis \in BOOLEAN
  BY GraphInvJobs DEF JobsOK, JobState
<1> SUFFICES ASSUME NEW i \in Incident, i = jobs[w].incident,
                    NEW a \in BOOLEAN, a = jobs[w].analysis
             PROVE  JobsOK'
  BY <1>0
<1>1. jobs' = [jobs EXCEPT ![w] = [pc |-> pc, incident |-> i, analysis |-> a, node |-> n, targets |-> T]]
  BY DEF JobGoesTo
<1>2. n \in NodeId \cup {NoNode} /\ T \in SUBSET NodeId
  OBVIOUS
<1>3. QED
  BY <1>1, <1>2, JobMoves

LEMMA JobStops ==
  ASSUME GraphInv, RowsGrowUp, NEW w \in Replica, JobEnds(w)
  PROVE  JobsOK'
<1>1. JobsOK
  BY GraphInvJobs
<1>2. JobIdle \in JobState
  BY DEF JobIdle, JobState
<1>3. /\ jobs' \in [Replica -> JobState]
      /\ jobs'[w] = JobIdle
      /\ \A v \in Replica : v # w => jobs'[v] = jobs[v]
  BY <1>1, <1>2 DEF JobsOK, JobEnds
<1>4. ASSUME NEW v \in Replica
      PROVE  /\ jobs'[v].pc # "idle" => jobs'[v].incident \in Incident
             /\ jobs'[v].pc \notin {"idle", "pending", "analyse", "draft", "upsert"} => jobs'[v].node \in NodeId
             /\ jobs'[v].pc \notin {"idle", "pending", "analyse", "draft", "upsert", "promote"} =>
                  Settled(jobs[v].node)'
             /\ \A t \in jobs'[v].targets : Settled(t)'
  <2>1. CASE v = w
    BY <1>3, <2>1 DEF JobIdle
  <2>2. CASE v # w
    <3>1. jobs'[v] = jobs[v] /\ jobs[v] \in JobState
      BY <1>1, <1>3, <2>2 DEF JobsOK
    <3>2. QED
      BY <1>1, <3>1 DEF JobsOK, ReadsStaySettled, RowsGrowUp, JobState, Settled
  <2>3. QED
    BY <2>1, <2>2
<1>5. QED
  BY <1>3, <1>4 DEF JobsOK, ReadsStaySettled

(* The invariant from its parts. *)
LEMMA GraphInvFrom ==
  ASSUME RowsGrowUp, JobsOK', EdgesJoinPermanent',
         edges' \in [NodeId \X NodeId -> {"none", "pending", "permanent"}],
         admin' \in [Admin -> AdminState], IncidentsOK'
  PROVE  GraphInv'
  BY DEF GraphInv, TypeOK, JobsOK, RowsGrowUp, IncidentsOK

(* Every step of a job. *)
LEMMA JobStepGraph ==
  ASSUME GraphInv, NEW w \in Replica, JobStep(w)
  PROVE  GraphInv'
<1> SUFFICES ASSUME NEW n, n = jobs[w].node, NEW i, i = jobs[w].incident
             PROVE  GraphInv'
  OBVIOUS
<1>1. JobsOK /\ jobs[w] \in JobState /\ admin \in [Admin -> AdminState]
      /\ IncidentsOK /\ Incident \subseteq Key /\ Commit \subseteq Key
  BY GraphInvJobs DEF GraphInv, TypeOK, Key, IncidentsOK
<1>2. jobs[w].pc # "idle" => i \in Incident /\ i \in Key /\ i \notin Service \cup Commit
  BY <1>1, GraphAssumption DEF JobsOK
<1>3. jobs[w].pc \in {"findSimilar", "similarEdges", "findService", "affectsEdge",
                     "deployment", "causedByEdge"} => n \in NodeId /\ Settled(n)
  BY <1>1 DEF JobsOK, ReadsStaySettled
<1>4. jobs[w].targets \in SUBSET NodeId /\ \A t \in jobs[w].targets : Settled(t)
  BY <1>1 DEF JobsOK, ReadsStaySettled, JobState
<1>5. CASE WritePending(w)
  <2>1. PICK m \in NodeId : UpsertNode(m, i, "pending", FALSE)
    BY <1>5 DEF WritePending
  <2>2. RowsGrowUp /\ EdgesJoinPermanent'
        /\ edges' \in [NodeId \X NodeId -> {"none", "pending", "permanent"}]
    BY <1>2, <1>5, <2>1, UpsertNodeEffect, EdgesKept DEF WritePending
  <2>3. JobsOK'
    BY <1>2, <1>5, <2>2, JobGoes DEF WritePending, JobPc
  <2>4. QED
    BY <1>1, <1>5, <2>2, <2>3, GraphInvFrom DEF WritePending, incidentVars, IncidentsOK
<1>6. CASE Analyse(w)
  <2>1. RowsGrowUp /\ EdgesJoinPermanent'
        /\ edges' \in [NodeId \X NodeId -> {"none", "pending", "permanent"}]
    BY <1>6, SameRows, EdgesKept DEF Analyse
  <2>2. PICK found \in BOOLEAN :
          /\ jobs' = [jobs EXCEPT ![w] = [pc |-> "draft", incident |-> i, analysis |-> found,
                                          node |-> NoNode, targets |-> {}]]
          /\ analysed' = [analysed EXCEPT ![jobs[w].incident] = @ \/ found] \/ analysed' = analysed
    BY <1>6 DEF Analyse
  <2>3. JobsOK'
    <3>1. NoNode \in NodeId \cup {NoNode} /\ {} \in SUBSET NodeId /\ "draft" \in JobPc \ {"idle"}
          /\ i \in Incident
      BY <1>2, <1>6 DEF Analyse, JobPc
    <3>2. QED
      BY <2>1, <2>2, <3>1, JobMoves
  <2>4. IncidentsOK'
    BY <1>1, <1>6, <2>2 DEF Analyse, IncidentsOK
  <2>5. QED
    BY <1>1, <1>6, <2>1, <2>3, <2>4, GraphInvFrom DEF Analyse
<1>7. CASE WriteDraft(w)
  <2>0. jobs[w].analysis \in BOOLEAN /\ IncidentsOK'
    BY <1>1, <1>2, <1>7 DEF WriteDraft, Recorded, IncidentsOK, JobState
  <2>1. PICK m \in NodeId : UpsertNode(m, i, "pending", jobs[w].analysis)
    BY <1>7 DEF WriteDraft
  <2>2. RowsGrowUp /\ EdgesJoinPermanent'
        /\ edges' \in [NodeId \X NodeId -> {"none", "pending", "permanent"}]
    BY <1>2, <1>7, <2>0, <2>1, UpsertNodeEffect, EdgesKept DEF WriteDraft
  <2>3. JobsOK'
    BY <1>7, <2>2, JobStops DEF WriteDraft
  <2>4. QED
    BY <1>1, <1>7, <2>0, <2>2, <2>3, GraphInvFrom DEF WriteDraft
<1>8. CASE WriteResolved(w)
  <2>0. jobs[w].analysis \in BOOLEAN /\ IncidentsOK'
    BY <1>1, <1>2, <1>8 DEF WriteResolved, Recorded, IncidentsOK, JobState
  <2>1. PICK m \in NodeId : /\ UpsertNode(m, i, "pending", jobs[w].analysis)
                            /\ JobGoesTo(w, "promote", m, {})
    BY <1>8 DEF WriteResolved
  <2>2. RowsGrowUp /\ EdgesJoinPermanent'
        /\ edges' \in [NodeId \X NodeId -> {"none", "pending", "permanent"}]
    BY <1>2, <1>8, <2>0, <2>1, UpsertNodeEffect, EdgesKept DEF WriteResolved
  <2>3. JobsOK'
    BY <1>2, <1>8, <2>1, <2>2, JobGoes DEF WriteResolved, JobPc
  <2>4. QED
    BY <1>1, <1>8, <2>0, <2>2, <2>3, GraphInvFrom DEF WriteResolved
<1>9. CASE Promote(w)
  <2>0. n \in NodeId /\ i \in Incident
    BY <1>1, <1>2, <1>9 DEF Promote, JobsOK
  <2>1. CASE PromoteNode(n) /\ JobGoesTo(w, "findSimilar", n, {})
    <3>1. RowsGrowUp /\ Settled(n)' /\ EdgesJoinPermanent'
          /\ edges' \in [NodeId \X NodeId -> {"none", "pending", "permanent"}]
      BY <2>0, <2>1, PromoteNodeEffect
    <3>2. JobsOK'
      BY <2>0, <2>1, <3>1, JobGoes DEF JobPc, Settled
    <3>3. QED
      BY <1>1, <1>9, <3>1, <3>2, GraphInvFrom DEF Promote, incidentVars, IncidentsOK
  <2>2. CASE JobEnds(w) /\ UNCHANGED <<nodes, edges>>
    BY <1>1, <1>9, <2>2, SameRows, EdgesKept, JobStops, GraphInvFrom DEF Promote, incidentVars, IncidentsOK
  <2>3. QED
    BY <1>9, <2>1, <2>2 DEF Promote
<1>10. CASE FindMatches(w)
  <2>1. RowsGrowUp /\ EdgesJoinPermanent'
        /\ edges' \in [NodeId \X NodeId -> {"none", "pending", "permanent"}]
    BY <1>10, SameRows, EdgesKept DEF FindMatches
  <2>2. PICK T \in SUBSET NodeId, pc \in {"similarEdges", "findService"} :
          JobGoesTo(w, pc, n, T) /\ \A t \in T : Settled(t)
    BY <1>10 DEF FindMatches, MatchesLeft, FindSimilar, SimilarCandidates, Settled
  <2>3. JobsOK'
    BY <1>2, <1>3, <1>10, <2>1, <2>2, JobGoes DEF FindMatches, JobPc, Settled
  <2>4. QED
    BY <1>1, <1>10, <2>1, <2>3, GraphInvFrom DEF FindMatches, incidentVars, IncidentsOK
<1>11. CASE WriteSimilarEdge(w)
  <2>1. RowsGrowUp
    BY <1>11, SameRows DEF WriteSimilarEdge
  <2>2. EdgesJoinPermanent'
        /\ edges' \in [NodeId \X NodeId -> {"none", "pending", "permanent"}]
    BY <1>3, <1>4, <1>11, DrawEdgeEffect DEF WriteSimilarEdge
  <2>3. PICK T \in SUBSET jobs[w].targets, pc \in {"similarEdges", "findService"} :
          JobGoesTo(w, pc, n, T)
    BY <1>11 DEF WriteSimilarEdge, MatchesLeft
  <2>4. JobsOK'
    BY <1>2, <1>3, <1>4, <1>11, <2>1, <2>3, JobGoes
       DEF WriteSimilarEdge, JobPc, Settled
  <2>5. QED
    BY <1>1, <1>11, <2>1, <2>2, <2>4, GraphInvFrom DEF WriteSimilarEdge, incidentVars, IncidentsOK
<1>12. CASE FindService(w)
  <2>1. RowsGrowUp /\ EdgesJoinPermanent'
        /\ edges' \in [NodeId \X NodeId -> {"none", "pending", "permanent"}]
    BY <1>12, SameRows, EdgesKept DEF FindService
  <2>2. PICK T \in SUBSET NodeId, pc \in {"affectsEdge", "deployment"} :
          JobGoesTo(w, pc, n, T) /\ \A t \in T : Settled(t)
    <3>1. CASE JobGoesTo(w, "deployment", n, {})
      BY <3>1
    <3>2. ASSUME NEW s \in Service, NEW m \in NodeId, m \in NodesOf(s),
                 JobGoesTo(w, "affectsEdge", n, {m})
          PROVE  \E T \in SUBSET NodeId, pc \in {"affectsEdge", "deployment"} :
                   JobGoesTo(w, pc, n, T) /\ \A t \in T : Settled(t)
      <4>1. Settled(m)
        BY <3>2 DEF NodesOf, GraphInv, KeysSettle
      <4>2. {m} \in SUBSET NodeId /\ \A t \in {m} : Settled(t)
        BY <4>1
      <4>3. QED
        BY <3>2, <4>2
    <3>3. QED
      BY <1>12, <3>1, <3>2 DEF FindService
  <2>3. JobsOK'
    BY <1>2, <1>3, <1>12, <2>1, <2>2, JobGoes DEF FindService, JobPc, Settled
  <2>4. QED
    BY <1>1, <1>12, <2>1, <2>3, GraphInvFrom DEF FindService, incidentVars, IncidentsOK
<1>13. CASE WriteAffectsEdge(w)
  <2>1. RowsGrowUp
    BY <1>13, SameRows DEF WriteAffectsEdge
  <2>2. EdgesJoinPermanent'
        /\ edges' \in [NodeId \X NodeId -> {"none", "pending", "permanent"}]
    BY <1>3, <1>4, <1>13, DrawEdgeEffect DEF WriteAffectsEdge
  <2>3. JobsOK'
    BY <1>2, <1>3, <1>13, <2>1, JobGoes DEF WriteAffectsEdge, JobPc, Settled
  <2>4. QED
    BY <1>1, <1>13, <2>1, <2>2, <2>3, GraphInvFrom DEF WriteAffectsEdge, incidentVars, IncidentsOK
<1>14. CASE WriteDeployment(w)
  <2>1. CASE JobEnds(w) /\ UNCHANGED nodes
    BY <1>1, <1>14, <2>1, SameRows, EdgesKept, JobStops, GraphInvFrom DEF WriteDeployment, incidentVars, IncidentsOK
  <2>2. ASSUME NEW c \in Commit, NEW m \in NodeId, UpsertNode(m, c, "permanent", FALSE),
               JobGoesTo(w, "causedByEdge", n, {m})
        PROVE  GraphInv'
    <3>1. RowsGrowUp /\ Settled(m)' /\ EdgesJoinPermanent'
          /\ edges' \in [NodeId \X NodeId -> {"none", "pending", "permanent"}]
      BY <1>1, <1>14, <2>2, UpsertNodeEffect, EdgesKept DEF WriteDeployment
    <3>2. n \in NodeId /\ Settled(n)' /\ i \in Incident
      BY <1>2, <1>3, <1>14, <3>1 DEF WriteDeployment, RowsGrowUp, Settled
    <3>3. JobsOK'
      BY <2>2, <3>1, <3>2, JobGoes DEF JobPc, Settled
    <3>4. QED
      BY <1>1, <1>14, <3>1, <3>3, GraphInvFrom DEF WriteDeployment, incidentVars, IncidentsOK
  <2>3. QED
    BY <1>14, <2>1, <2>2 DEF WriteDeployment
<1>15. CASE WriteCausedByEdge(w)
  <2>1. RowsGrowUp
    BY <1>15, SameRows DEF WriteCausedByEdge
  <2>2. EdgesJoinPermanent'
        /\ edges' \in [NodeId \X NodeId -> {"none", "pending", "permanent"}]
    BY <1>3, <1>4, <1>15, DrawEdgeEffect DEF WriteCausedByEdge
  <2>3. QED
    BY <1>1, <1>15, <2>1, <2>2, JobStops, GraphInvFrom DEF WriteCausedByEdge, incidentVars, IncidentsOK
<1>16. CASE StatementFails(w)
  <2>1. RowsGrowUp /\ EdgesJoinPermanent'
        /\ edges' \in [NodeId \X NodeId -> {"none", "pending", "permanent"}]
        /\ IncidentsOK'
    BY <1>1, <1>16, SameRows, EdgesKept DEF StatementFails, DraftLost, IncidentsOK
  <2>2. CASE JobEnds(w)
    BY <1>1, <1>16, <2>1, <2>2, JobStops, GraphInvFrom DEF StatementFails
  <2>3. CASE jobs[w].pc = "pending" /\ JobGoesTo(w, "analyse", NoNode, {})
    <3>1. JobsOK'
      BY <1>2, <2>1, <2>3, JobGoes DEF JobPc
    <3>2. QED
      BY <1>1, <1>16, <2>1, <3>1, GraphInvFrom DEF StatementFails
  <2>4. CASE jobs[w].pc = "findSimilar" /\ JobGoesTo(w, "findService", n, {})
    <3>1. Settled(n)'
      BY <1>3, <1>16, <2>4 DEF StatementFails, Settled
    <3>2. JobsOK'
      BY <1>2, <1>3, <2>1, <2>4, <3>1, JobGoes DEF JobPc, Settled
    <3>3. QED
      BY <1>1, <1>16, <2>1, <3>2, GraphInvFrom DEF StatementFails
  <2>5. QED
    BY <1>16, <2>2, <2>3, <2>4 DEF StatementFails
<1>17. QED
  BY <1>5, <1>6, <1>7, <1>8, <1>9, <1>10, <1>11, <1>12, <1>13, <1>14, <1>15,
     <1>16 DEF JobStep

----------------------------------------------------------------------------
(* The empty graph. *)
LEMMA InitGraph == Init => GraphInv
<1> SUFFICES ASSUME Init PROVE GraphInv
  OBVIOUS
<1>1. JobIdle \in JobState
  BY DEF JobIdle, JobState
<1>2. TypeOK
  BY <1>1 DEF Init, TypeOK, NodeRow, AdminState, JobIdle
<1>3. EdgesJoinPermanent
  BY DEF Init, EdgesJoinPermanent
<1>4. ReadsStaySettled
  BY DEF Init, ReadsStaySettled, JobIdle
<1>5. KeysSettle
  BY GraphAssumption DEF Init, KeysSettle, Key, Live
<1>6. QED
  BY <1>2, <1>3, <1>4, <1>5 DEF GraphInv

(* A job taken from the queue, and a job lost with its process. *)
LEMMA JobArrivalsGraph ==
  ASSUME GraphInv, NEW w \in Replica,
         ReplicaCrash(w) \/ \E i \in Incident : TakeAlertJob(w, i) \/ TakeResolvedJob(w, i)
  PROVE  GraphInv'
<1>1. UNCHANGED <<nodes, edges, admin>> /\ IncidentsOK'
      /\ admin' \in [Admin -> AdminState]
  BY DEF ReplicaCrash, TakeAlertJob, TakeResolvedJob, DraftLost, GraphInv, TypeOK, IncidentsOK,
         incidentVars
<1>2. RowsGrowUp /\ EdgesJoinPermanent'
      /\ edges' \in [NodeId \X NodeId -> {"none", "pending", "permanent"}]
  BY <1>1, SameRows, EdgesKept
<1>3. JobsOK'
  <2>1. CASE ReplicaCrash(w)
    BY <1>2, <2>1, JobStops DEF ReplicaCrash
  <2>2. ASSUME NEW i \in Incident, NEW pc \in {"pending", "upsert"}, NEW a \in BOOLEAN,
               TakeJob(w, pc, i, a)
        PROVE  JobsOK'
    <3>1. NoNode \in NodeId \cup {NoNode} /\ {} \in SUBSET NodeId /\ pc \in JobPc \ {"idle"}
      BY DEF JobPc
    <3>2. jobs' = [jobs EXCEPT ![w] = [pc |-> pc, incident |-> i, analysis |-> a,
                                       node |-> NoNode, targets |-> {}]]
      BY <2>2 DEF TakeJob
    <3>3. QED
      BY <1>2, <3>1, <3>2, JobMoves
  <2>3. \A i \in Incident : analysed[i] \in BOOLEAN
    BY DEF GraphInv, TypeOK
  <2>4. QED
    BY <2>1, <2>2, <2>3 DEF TakeAlertJob, TakeResolvedJob
<1>4. QED
  BY <1>1, <1>2, <1>3, GraphInvFrom

(* The admin's requests. *)
LEMMA AdminGraph ==
  ASSUME GraphInv,
         \/ \E a \in Admin, i \in Incident : PromoteRequest(a, i)
         \/ \E a \in Admin : PromoteByAdmin(a)
         \/ \E n \in NodeId : DeleteGraphNode(n) \/ DeleteGraphService(n)
         \/ \E s \in Service : CreateGraphService(s)
  PROVE  GraphInv'
<1>1. admin \in [Admin -> NodeId \cup {NoNode}] /\ IncidentsOK
  BY DEF GraphInv, TypeOK, AdminState, IncidentsOK
<1>2. /\ UNCHANGED <<jobs, analysed, overtaken>>
      /\ admin' \in [Admin -> AdminState]
  BY <1>1 DEF PromoteRequest, PromoteByAdmin, DeleteGraphNode, DeleteGraphService, CreateGraphService,
              NodesOf, AdminState, incidentVars
<1>3. /\ RowsGrowUp
      /\ EdgesJoinPermanent'
      /\ edges' \in [NodeId \X NodeId -> {"none", "pending", "permanent"}]
  <2>1. CASE UNCHANGED <<nodes, edges>>
    BY <2>1, SameRows, EdgesKept
  <2>2. CASE \E n \in NodeId : PromoteNode(n)
    BY <2>2, PromoteNodeEffect
  <2>3. CASE \E n \in NodeId : DeleteNode(n)
    BY <2>3, DeleteNodeEffect
  <2>4. CASE \E s \in Service : CreateGraphService(s)
    <3>1. PICK s \in Service, n \in NodeId : UpsertNode(n, s, "permanent", TRUE)
      BY <2>4 DEF CreateGraphService
    <3>2. s \in Key /\ UNCHANGED edges
      BY <2>4 DEF Key, CreateGraphService
    <3>3. QED
      BY <3>1, <3>2, UpsertNodeEffect, EdgesKept
  <2>5. QED
    BY <1>1, <2>1, <2>2, <2>3, <2>4 DEF PromoteRequest, PromoteByAdmin, DeleteGraphNode, DeleteGraphService
<1>4. JobsOK'
  BY <1>2, <1>3, JobsKept
<1>5. QED
  BY <1>1, <1>2, <1>3, <1>4, GraphInvFrom DEF IncidentsOK

(* The inductive invariant of the graph, kept by every statement of every  *)
(* worker replica and admin request, whatever fails or dies in between.    *)
THEOREM GraphInductive == Spec => []GraphInv
<1>1. GraphInv /\ [Next]_vars => GraphInv'
  <2> SUFFICES ASSUME GraphInv, [Next]_vars PROVE GraphInv'
    OBVIOUS
  <2>1. CASE UNCHANGED vars
    <3>1. RowsGrowUp /\ EdgesJoinPermanent'
          /\ edges' \in [NodeId \X NodeId -> {"none", "pending", "permanent"}]
      BY <2>1, SameRows, EdgesKept DEF vars
    <3>2. JobsOK'
      BY <2>1, <3>1, JobsKept DEF vars
    <3>3. QED
      BY <2>1, <3>1, <3>2, GraphInvFrom DEF vars, incidentVars, GraphInv, TypeOK, IncidentsOK
  <2>2. CASE Next
    BY <2>2, JobStepGraph, JobArrivalsGraph, AdminGraph DEF Next
  <2>3. QED
    BY <2>1, <2>2
<1>2. QED
  BY <1>1, InitGraph, PTL DEF Spec

(* The tables, the job loops and the admin requests keep their shape: a    *)
(* job that is past its upsert always has a row to work on.                *)
THEOREM GraphTypeCorrect == Spec => []TypeOK
<1>1. GraphInv => TypeOK
  BY DEF GraphInv
<1>2. QED
  BY <1>1, GraphInductive, PTL

(* An edge joins rows that exist and a permanent edge joins permanent      *)
(* nodes, although a job inserts its edges long after it promoted its node *)
(* and read the targets, and admins delete and create rows meanwhile.      *)
THEOREM EdgesWellJoined == Spec => []EdgesJoinPermanent
<1>1. GraphInv => EdgesJoinPermanent
  BY DEF GraphInv
<1>2. QED
  BY <1>1, GraphInductive, PTL

----------------------------------------------------------------------------
(* Descriptions. A bare row of an analysed incident is accounted for. *)
BareInv == OneRowPerKey /\ BareIsDrafted

DraftPc == {"analyse", "draft"}

(* A statement that inserts no row, and updates neither key nor analysis.  *)
LEMMA RowsKeepBare ==
  ASSUME GraphInv, BareInv,
         \A n \in NodeId : Live(n)' => /\ Live(n)
                                      /\ nodes'[n].key = nodes[n].key
                                      /\ nodes'[n].described = nodes[n].described,
         \A w \in Replica : jobs[w].pc \in DraftPc /\ analysed[jobs[w].incident] =>
                             \/ jobs'[w].pc \in DraftPc /\ jobs'[w].incident = jobs[w].incident
                             \/ jobs[w].incident \in overtaken',
         analysed' = analysed, overtaken \subseteq overtaken'
  PROVE  BareInv'
<1>1. OneRowPerKey'
  BY DEF BareInv, OneRowPerKey
<1>2. \A i \in Incident : analysed[i] /\ Drafting(i) => Drafting(i)' \/ i \in overtaken'
  BY DEF Drafting, DraftPc
<1>3. BareIsDrafted'
  BY <1>2 DEF BareInv, BareIsDrafted
<1>4. QED
  BY <1>1, <1>3 DEF BareInv

(* An upsert leaves the key one row, which lacks a saved analysis only     *)
(* while a job will still write it, or is recorded.                        *)
LEMMA UpsertBare ==
  ASSUME GraphInv, BareInv, NEW n \in NodeId, NEW k \in Key,
         NEW s \in {"pending", "permanent"}, NEW d \in BOOLEAN,
         UpsertNode(n, k, s, d),
         \A w \in Replica : jobs[w].pc \in DraftPc /\ jobs[w].incident # k => jobs'[w] = jobs[w],
         analysed' = analysed, \A i \in Incident \ {k} : i \in overtaken => i \in overtaken',
         \/ d
         \/ k \notin Incident
         \/ analysed[k] => k \in overtaken'
         \/ \E w \in Replica : jobs'[w].incident = k /\ jobs'[w].pc \in DraftPc
  PROVE  BareInv'
<1>1. nodes \in [NodeId -> NodeRow]
  BY DEF GraphInv, TypeOK
<1>2. /\ \A m \in NodeId : m # n => nodes'[m] = nodes[m]
      /\ nodes'[n].key = k
      /\ nodes'[n].described = d
  BY <1>1 DEF UpsertNode, NodeRow
<1>3. \A m \in NodeId : Live(m) /\ nodes[m].key = k => m = n
  BY DEF UpsertNode, NodesOf, BareInv, OneRowPerKey
<1>4. \A m \in NodeId \ {n} : (Live(m)' <=> Live(m)) /\ (Live(m) => nodes'[m].key # k)
  BY <1>2, <1>3 DEF Live
<1>5. OneRowPerKey'
  BY <1>2, <1>4 DEF BareInv, OneRowPerKey
<1>6. BareIsDrafted'
  <2> SUFFICES ASSUME NEW m \in NodeId, Live(m)', nodes'[m].key \in Incident,
                      analysed'[nodes'[m].key]
               PROVE  \/ nodes'[m].described
                      \/ nodes'[m].key \in overtaken'
                      \/ \E w \in Replica : jobs'[w].incident = nodes'[m].key
                                             /\ jobs'[w].pc \in DraftPc
    BY DEF BareIsDrafted, Drafting, DraftPc
  <2>1. CASE m = n
    BY <1>2, <2>1
  <2>2. CASE m # n
    <3>1. nodes'[m] = nodes[m] /\ Live(m) /\ nodes[m].key # k
      BY <1>2, <1>4, <2>2
    <3>2. \/ nodes[m].described
          \/ nodes[m].key \in overtaken
          \/ \E w \in Replica : jobs[w].incident = nodes[m].key /\ jobs[w].pc \in DraftPc
      BY <3>1 DEF BareInv, BareIsDrafted, Drafting, DraftPc
    <3>3. QED
      BY <3>1, <3>2
  <2>3. QED
    BY <2>1, <2>2
<1>7. QED
  BY <1>5, <1>6 DEF BareInv

(* Every step of a job. *)
LEMMA JobStepBare ==
  ASSUME GraphInv, BareInv, NEW w \in Replica, JobStep(w)
  PROVE  BareInv'
<1>1. /\ jobs \in [Replica -> JobState] /\ nodes \in [NodeId -> NodeRow]
      /\ IncidentsOK /\ jobs[w].analysis \in BOOLEAN
      /\ jobs[w].pc # "idle" => jobs[w].incident \in Incident
      /\ Incident \subseteq Key /\ Commit \subseteq Key /\ Commit \cap Incident = {}
  BY GraphAssumption DEF GraphInv, TypeOK, IncidentsOK, Key, JobState
<1>2. CASE WritePending(w)
  <2>1. PICK n \in NodeId : UpsertNode(n, jobs[w].incident, "pending", FALSE)
    BY <1>2 DEF WritePending
  <2>2. /\ \A v \in Replica : v # w => jobs'[v] = jobs[v]
        /\ jobs'[w].pc \in DraftPc /\ jobs'[w].incident = jobs[w].incident
        /\ jobs[w].pc = "pending" /\ UNCHANGED <<analysed, overtaken>>
    BY <1>1, <1>2 DEF WritePending, JobGoesTo, incidentVars, DraftPc
  <2>3. QED
    BY <1>1, <2>1, <2>2, UpsertBare DEF DraftPc
<1>3. CASE Analyse(w)
  <2>1. /\ \A v \in Replica : v # w => jobs'[v] = jobs[v]
        /\ jobs[w].pc = "analyse" /\ jobs[w].incident \in Incident
        /\ jobs'[w].pc = "draft" /\ jobs'[w].incident = jobs[w].incident
        /\ nodes' = nodes /\ overtaken' = overtaken
        /\ \A i \in Incident : i # jobs[w].incident => analysed'[i] = analysed[i]
    BY <1>1, <1>3 DEF Analyse, JobState, IncidentsOK
  <2>2. Drafting(jobs[w].incident)'
    BY <2>1 DEF Drafting
  <2>3. \A i \in Incident : Drafting(i) => Drafting(i)'
    BY <2>1 DEF Drafting
  <2>4. \A i \in Incident : analysed'[i] => analysed[i] \/ Drafting(i)'
    BY <2>1, <2>2
  <2>5. OneRowPerKey'
    BY <2>1 DEF BareInv, OneRowPerKey, Live
  <2>6. BareIsDrafted'
    BY <2>1, <2>3, <2>4 DEF BareInv, BareIsDrafted, Live
  <2>7. QED
    BY <2>5, <2>6 DEF BareInv
<1>4. CASE WriteDraft(w) \/ WriteResolved(w)
  <2>1. PICK n \in NodeId : UpsertNode(n, jobs[w].incident, "pending", jobs[w].analysis)
    BY <1>4 DEF WriteDraft, WriteResolved
  <2>2. /\ \A v \in Replica : v # w => jobs'[v] = jobs[v]
        /\ jobs[w].incident \in Incident /\ analysed' = analysed /\ Recorded(w)
    BY <1>1, <1>4 DEF WriteDraft, WriteResolved, JobEnds, JobGoesTo
  <2>3. /\ jobs[w].analysis \/ (analysed[jobs[w].incident] => jobs[w].incident \in overtaken')
        /\ \A i \in Incident \ {jobs[w].incident} : i \in overtaken => i \in overtaken'
    BY <2>2 DEF Recorded
  <2>4. \A v \in Replica : jobs[v].pc \in DraftPc /\ jobs[v].incident # jobs[w].incident
                             => jobs'[v] = jobs[v]
    BY <2>2
  <2>5. QED
    BY <1>1, <2>1, <2>2, <2>3, <2>4, UpsertBare
<1>5. CASE WriteDeployment(w)
  <2>1. /\ \A v \in Replica : v # w => jobs'[v] = jobs[v]
        /\ jobs[w].pc = "deployment" /\ UNCHANGED <<analysed, overtaken>>
    BY <1>1, <1>5 DEF WriteDeployment, JobGoesTo, JobEnds, incidentVars
  <2>2. CASE \E c \in Commit, n \in NodeId : UpsertNode(n, c, "permanent", FALSE)
    BY <1>1, <2>1, <2>2, UpsertBare DEF DraftPc
  <2>3. CASE UNCHANGED nodes
    BY <2>1, <2>3, RowsKeepBare DEF Live, DraftPc
  <2>4. QED
    BY <1>5, <2>2, <2>3 DEF WriteDeployment
<1>6. CASE Promote(w) \/ FindMatches(w) \/ WriteSimilarEdge(w) \/ FindService(w)
           \/ WriteAffectsEdge(w) \/ WriteCausedByEdge(w)
  <2>1. /\ \A v \in Replica : v # w => jobs'[v] = jobs[v]
        /\ jobs[w].pc \notin DraftPc /\ UNCHANGED <<analysed, overtaken>>
    BY <1>1, <1>6 DEF Promote, FindMatches, WriteSimilarEdge, FindService, WriteAffectsEdge,
                      WriteCausedByEdge, MatchesLeft, JobGoesTo, JobEnds, incidentVars, DraftPc
  <2>2. CASE UNCHANGED nodes
    BY <2>1, <2>2, RowsKeepBare DEF Live
  <2>3. CASE PromoteNode(jobs[w].node)
    <3>1. \A m \in NodeId : Live(m)' => /\ Live(m)
                                       /\ nodes'[m].key = nodes[m].key
                                       /\ nodes'[m].described = nodes[m].described
      BY <1>1, <2>3 DEF PromoteNode, Live, NodeRow
    <3>2. QED
      BY <2>1, <3>1, RowsKeepBare
  <2>4. QED
    BY <1>6, <2>2, <2>3 DEF Promote, FindMatches, WriteSimilarEdge, FindService,
                            WriteAffectsEdge, WriteCausedByEdge
<1>7. CASE StatementFails(w)
  <2>1. /\ \A v \in Replica : v # w => jobs'[v] = jobs[v]
        /\ jobs[w].pc \in DraftPc /\ analysed[jobs[w].incident] => jobs[w].incident \in overtaken'
        /\ overtaken \subseteq overtaken' /\ analysed' = analysed
        /\ nodes' = nodes
    BY <1>1, <1>7 DEF StatementFails, DraftLost, JobGoesTo, JobEnds, DraftPc
  <2>2. QED
    BY <2>1, RowsKeepBare DEF Live
<1>8. QED
  BY <1>2, <1>3, <1>4, <1>5, <1>6, <1>7 DEF JobStep

(* Jobs taken, jobs lost, and the admin's requests. *)
LEMMA OthersBare ==
  ASSUME GraphInv, BareInv, Next, ~\E w \in Replica : JobStep(w)
  PROVE  BareInv'
<1>1. /\ jobs \in [Replica -> JobState] /\ nodes \in [NodeId -> NodeRow]
      /\ \A w \in Replica : jobs[w].pc # "idle" => jobs[w].incident \in Incident
  BY DEF GraphInv, TypeOK
<1>2. CASE \E w \in Replica, i \in Incident : TakeAlertJob(w, i) \/ TakeResolvedJob(w, i)
  <2>1. PICK w \in Replica, i \in Incident : TakeAlertJob(w, i) \/ TakeResolvedJob(w, i)
    BY <1>2
  <2>2. /\ \A v \in Replica : v # w => jobs'[v] = jobs[v]
        /\ jobs[w].pc \notin DraftPc /\ nodes' = nodes /\ UNCHANGED <<analysed, overtaken>>
    BY <1>1, <2>1 DEF TakeAlertJob, TakeResolvedJob, TakeJob, JobIdle, incidentVars, DraftPc
  <2>3. QED
    BY <2>2, RowsKeepBare DEF Live
<1>3. CASE \E w \in Replica : ReplicaCrash(w)
  <2>1. PICK w \in Replica : ReplicaCrash(w)
    BY <1>3
  <2>2. /\ \A v \in Replica : v # w => jobs'[v] = jobs[v]
        /\ jobs[w].pc \in DraftPc /\ analysed[jobs[w].incident] => jobs[w].incident \in overtaken'
        /\ overtaken \subseteq overtaken' /\ analysed' = analysed
        /\ nodes' = nodes
    BY <1>1, <2>1 DEF ReplicaCrash, DraftLost, JobEnds, DraftPc
  <2>3. QED
    BY <2>2, RowsKeepBare DEF Live
<1>4. CASE \/ \E a \in Admin, i \in Incident : PromoteRequest(a, i)
           \/ \E a \in Admin : PromoteByAdmin(a)
           \/ \E n \in NodeId : DeleteGraphNode(n) \/ DeleteGraphService(n)
  <2>1. UNCHANGED <<jobs, analysed, overtaken>>
    BY <1>4 DEF PromoteRequest, PromoteByAdmin, DeleteGraphNode, DeleteGraphService, incidentVars
  <2>2. CASE UNCHANGED nodes
    BY <2>1, <2>2, RowsKeepBare DEF Live
  <2>3. CASE \E n \in NodeId : PromoteNode(n) \/ DeleteNode(n)
    <3>1. \A m \in NodeId : Live(m)' => /\ Live(m)
                                       /\ nodes'[m].key = nodes[m].key
                                       /\ nodes'[m].described = nodes[m].described
      BY <1>1, <2>3 DEF PromoteNode, DeleteNode, Live, NodeRow
    <3>2. QED
      BY <2>1, <3>1, RowsKeepBare
  <2>4. \A a \in Admin : admin[a] # NoNode => admin[a] \in NodeId
    BY DEF GraphInv, TypeOK, AdminState
  <2>5. QED
    BY <1>4, <2>2, <2>3, <2>4 DEF PromoteRequest, PromoteByAdmin, DeleteGraphNode, DeleteGraphService
<1>5. CASE \E s \in Service : CreateGraphService(s)
  <2>1. PICK s \in Service, n \in NodeId : UpsertNode(n, s, "permanent", TRUE)
    BY <1>5 DEF CreateGraphService
  <2>2. s \in Key /\ UNCHANGED <<jobs, analysed, overtaken>>
    BY <1>5 DEF CreateGraphService, Key, incidentVars
  <2>3. QED
    BY <2>1, <2>2, UpsertBare
<1>6. QED
  BY <1>2, <1>3, <1>4, <1>5 DEF Next

(* A saved analysis is in the permanent node of its incident while no      *)
(* alert job is between its writes, unless the node was last written by a  *)
(* job that knew no analysis, or an alert job died between its writes: for *)
(* any number of replicas, incidents and admins, and every set of faults.  *)
THEOREM PermanentDescribed == Spec => []PermanentIsDescribed
<1>1. Init => BareInv
  BY DEF Init, BareInv, OneRowPerKey, BareIsDrafted, Live
<1>2. GraphInv /\ BareInv /\ [Next]_vars => BareInv'
  <2> SUFFICES ASSUME GraphInv, BareInv, [Next]_vars PROVE BareInv'
    OBVIOUS
  <2>1. CASE UNCHANGED vars
    BY <2>1, RowsKeepBare DEF vars, incidentVars, Live
  <2>2. CASE Next
    BY <2>2, JobStepBare, OthersBare
  <2>3. QED
    BY <2>1, <2>2
<1>3. GraphInv /\ BareInv => PermanentIsDescribed
  BY DEF BareInv, BareIsDrafted, PermanentIsDescribed, Live
<1>4. QED
  BY <1>1, <1>2, <1>3, GraphInductive, PTL DEF Spec

----------------------------------------------------------------------------
(* The draft of an open incident is in no subgraph but its own, and its    *)
(* own shows nothing else, for subgraphs of any depth: the last step of a  *)
(* walk ends at a permanent node, and the first leaves by a permanent edge.*)
THEOREM DraftsStayAlone == Spec => []PendingIsAlone
<1>1. GraphInv => PendingIsAlone
  <2> SUFFICES ASSUME GraphInv, NEW m \in NodeId, nodes[m].status = "pending"
               PROVE  /\ GetSubgraph(m) = {m}
                      /\ \A n \in NodeId : Live(n) /\ n # m => m \notin GetSubgraph(n)
    BY DEF PendingIsAlone
  <2>1. ASSUME NEW n \in NodeId PROVE ~Neighbour(n, m) /\ ~Neighbour(m, n)
    BY DEF GraphInv, EdgesJoinPermanent, Neighbour
  <2>2. Depth \in Nat
    BY GraphAssumption
  <2>3. m \in GetSubgraph(m)
    <3> DEFINE path == [i \in 0 .. 0 |-> m]
    <3>1. path \in Walks(m, 0) /\ path[0] = m
      BY DEF Walks
    <3>2. 0 \in 0 .. Depth
      BY <2>2
    <3> HIDE DEF path
    <3>3. QED
      BY <3>1, <3>2 DEF GetSubgraph
  <2>4. ASSUME NEW x \in GetSubgraph(m) PROVE x = m
    <3>1. PICK d \in 0 .. Depth : \E path \in Walks(m, d) : x = path[d]
      BY DEF GetSubgraph
    <3>2. PICK path \in Walks(m, d) : x = path[d]
      BY <3>1
    <3>3. /\ path \in [0 .. d -> NodeId] /\ path[0] = m
          /\ \A i \in 1 .. d : Neighbour(path[i - 1], path[i])
      BY DEF Walks
    <3>4. d \in Nat
      BY <2>2
    <3>5. d = 0
      <4> SUFFICES ASSUME d >= 1 PROVE FALSE
        BY <3>4
      <4>1. 1 \in 1 .. d /\ 1 \in 0 .. d /\ 1 - 1 = 0
        BY <3>4
      <4>2. Neighbour(m, path[1]) /\ path[1] \in NodeId
        BY <3>3, <4>1
      <4>3. QED
        BY <2>1, <4>2
    <3>6. QED
      BY <3>2, <3>3, <3>5
  <2>5. ASSUME NEW n \in NodeId, n # m, m \in GetSubgraph(n) PROVE FALSE
    <3>1. PICK d \in 0 .. Depth : \E path \in Walks(n, d) : m = path[d]
      BY <2>5 DEF GetSubgraph
    <3>2. PICK path \in Walks(n, d) : m = path[d]
      BY <3>1
    <3>3. /\ path \in [0 .. d -> NodeId] /\ path[0] = n
          /\ \A i \in 1 .. d : Neighbour(path[i - 1], path[i])
      BY DEF Walks
    <3>4. d \in Nat \ {0}
      BY <2>2, <2>5, <3>2, <3>3
    <3>5. d \in 1 .. d /\ d - 1 \in 0 .. d
      BY <3>4
    <3>6. Neighbour(path[d - 1], m) /\ path[d - 1] \in NodeId
      BY <3>2, <3>3, <3>5
    <3>7. QED
      BY <2>1, <3>6
  <2>6. QED
    BY <2>3, <2>4, <2>5
<1>2. QED
  BY <1>1, GraphInductive, PTL
============================================================================

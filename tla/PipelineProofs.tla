--------------------------- MODULE PipelineProofs ---------------------------
(***************************************************************************)
(* Proofs about AlertPipeline for every number of incidents, requests,     *)
(* users, replicas, rules and rows, and for every set of faults.           *)
(***************************************************************************)
EXTENDS AlertPipeline, FiniteSetTheorems, FunctionTheorems, TLAPS

(* Init gives every table, handler and loop its type. *)
LEMMA InitTypeOK == Init => TypeOK
<1> SUFFICES ASSUME Init PROVE TypeOK
  OBVIOUS
<1>1. StoreTypeOK
  <2>1. incidents \in [Incident -> IncidentRow]
    BY DEF Init, StoreInit, IncidentRow
  <2>2. pending \in [Notification -> PendingRow]
    BY DEF Init, StoreInit, PendingRow
  <2>3. queue \in Seq(Job)
    BY DEF Init, StoreInit
  <2>4. QED
    BY <2>1, <2>2, <2>3 DEF StoreTypeOK
<1>2. ServerTypeOK /\ ReqAtHand /\ UsrAtHand
  <2>1. PICK f \in Fingerprint :
          req = [r \in Request |-> [pc |-> "idle", fingerprint |-> f,
                                    incident |-> NoIncident]]
    BY DEF Init, ServerInit
  <2>2. req \in [Request -> ReqState]
    BY <2>1 DEF ReqState
  <2>3. ReqAtHand
    BY <2>1 DEF ReqAtHand
  <2>4. usr \in [User -> UsrState] /\ UsrAtHand
    BY DEF Init, ServerInit, UsrState, UsrAtHand, AllUserOps
  <2>5. QED
    BY <2>2, <2>3, <2>4 DEF Init, ServerInit, ServerTypeOK
<1>3. WorkerTypeOK /\ JobAtHand
  BY DEF Init, WorkerInit, WorkerTypeOK, JobAtHand, JobState, PollState, JobIdle, PollIdle
<1>4. QED
  BY <1>1, <1>2, <1>3 DEF TypeOK

(* What a step leaves alone keeps its type. *)
LEMMA StoreSame ==
  ASSUME StoreTypeOK, UNCHANGED storeVars PROVE StoreTypeOK'
  BY DEF StoreTypeOK, storeVars

LEMMA WorkerSame ==
  ASSUME WorkerTypeOK, JobAtHand, UNCHANGED workerVars PROVE WorkerTypeOK' /\ JobAtHand'
  BY DEF WorkerTypeOK, JobAtHand, workerVars

LEMMA ServerSame ==
  ASSUME ServerTypeOK, ReqAtHand, UsrAtHand, UNCHANGED serverVars
  PROVE  ServerTypeOK' /\ ReqAtHand' /\ UsrAtHand'
  BY DEF ServerTypeOK, ReqAtHand, UsrAtHand, serverVars, history

(* enqueueJob keeps the queue a sequence of jobs. *)
LEMMA EnqueueType ==
  ASSUME StoreTypeOK, NEW t \in {"alert", "incident_resolved"}, NEW i \in Incident,
         enqueueJob(t, i), UNCHANGED <<incidents, pending>>
  PROVE  StoreTypeOK'
  BY DEF enqueueJob, Job, StoreTypeOK

LEMMA JobType ==
  ASSUME NEW t \in {"alert", "incident_resolved"}, NEW i \in Incident
  PROVE  [type |-> t, incident |-> i] \in Job
  BY DEF Job

(* A push whose answer is lost, and the graph job's push, likewise. *)
LEMMA AnswerLostType ==
  ASSUME StoreTypeOK, resent \in [Job -> Nat], NEW t \in {"alert", "incident_resolved"},
         NEW i \in Incident, AnswerLost(t, i), UNCHANGED <<incidents, pending>>
  PROVE  StoreTypeOK' /\ resent' \in [Job -> Nat]
<1>1. StoreTypeOK'
  BY EnqueueType DEF AnswerLost
<1>2. QED
  BY <1>1, JobType DEF AnswerLost

LEMMA PushResolvedType ==
  ASSUME StoreTypeOK, resent \in [Job -> Nat], resolvedJobs \in SUBSET Incident,
         NEW i \in Incident, PushResolved(i), UNCHANGED <<incidents, pending>>
  PROVE  /\ StoreTypeOK' /\ resent' \in [Job -> Nat] /\ resolvedJobs' \in SUBSET Incident
  BY EnqueueType, StoreSame DEF PushResolved, storeVars

(* Moving on or answering keeps a webhook handler's record well-formed. *)
LEMMA GoToType ==
  ASSUME req \in [Request -> ReqState], ReqAtHand, NEW r \in Request,
         NEW pc \in {"find", "create", "winner", "enqueueAlert", "resolve", "enqueueResolved"},
         NEW i \in Incident \cup {NoIncident},
         pc \in {"enqueueAlert", "enqueueResolved"} => i \in Incident,
         GoTo(r, pc, i)
  PROVE  req' \in [Request -> ReqState] /\ ReqAtHand'
<1>1. req' \in [Request -> ReqState]
  BY DEF GoTo, ReqState
<1>2. \A q \in Request : q # r => req'[q] = req[q]
  BY DEF GoTo, ReqState
<1>3. req'[r].pc = pc /\ req'[r].incident = i
  BY DEF GoTo, ReqState
<1>4. QED
  BY <1>1, <1>2, <1>3 DEF ReqAtHand

LEMMA AnsweredType ==
  ASSUME req \in [Request -> ReqState], ReqAtHand, NEW r \in Request, Answered(r)
  PROVE  req' \in [Request -> ReqState] /\ ReqAtHand'
<1>1. req' \in [Request -> ReqState]
  BY DEF Answered, ReqState
<1>2. \A q \in Request : q # r => req'[q] = req[q]
  BY DEF Answered, ReqState
<1>3. req'[r].pc = "idle"
  BY DEF Answered, ReqState
<1>4. QED
  BY <1>1, <1>2, <1>3 DEF ReqAtHand

LEMMA UserGoToType ==
  ASSUME usr \in [User -> UsrState], UsrAtHand, NEW u \in User, usr[u].pc # "idle",
         NEW pc \in {"update", "cancel", "enqueue"}, UserGoTo(u, pc)
  PROVE  usr' \in [User -> UsrState] /\ UsrAtHand'
<1>1. usr' \in [User -> UsrState]
  BY DEF UserGoTo, UsrState
<1>2. \A v \in User : v # u => usr'[v] = usr[v]
  BY DEF UserGoTo, UsrState
<1>3. usr'[u].incident = usr[u].incident
  BY DEF UserGoTo, UsrState
<1>4. QED
  BY <1>1, <1>2, <1>3 DEF UsrAtHand

LEMMA UserDoneType ==
  ASSUME usr \in [User -> UsrState], UsrAtHand, NEW u \in User, UserDone(u)
  PROVE  usr' \in [User -> UsrState] /\ UsrAtHand'
<1>1. usr' \in [User -> UsrState]
  BY DEF UserDone, UsrState
<1>2. \A v \in User : v # u => usr'[v] = usr[v]
  BY DEF UserDone, UsrState
<1>3. usr'[u].pc = "idle"
  BY DEF UserDone, UsrState
<1>4. QED
  BY <1>1, <1>2, <1>3 DEF UsrAtHand

(* A step of a webhook handler keeps every type. *)
LEMMA WebhookTypeOK ==
  ASSUME TypeOK, UNCHANGED workerVars, NEW r \in Request, WebhookStep(r)
  PROVE  TypeOK'
<1>1. /\ StoreTypeOK /\ ReqAtHand /\ UsrAtHand
      /\ req \in [Request -> ReqState] /\ usr \in [User -> UsrState]
      /\ resolvedOnce \in SUBSET Incident /\ resolvedJobs \in SUBSET Incident
      /\ resent \in [Job -> Nat]
  BY DEF TypeOK, ServerTypeOK
<1>2. WorkerTypeOK' /\ JobAtHand'
  BY WorkerSame DEF TypeOK
<1>3. SUFFICES /\ StoreTypeOK'
               /\ req' \in [Request -> ReqState] /\ ReqAtHand'
               /\ usr' = usr
               /\ resolvedOnce' \in SUBSET Incident /\ resolvedJobs' \in SUBSET Incident
               /\ resent' \in [Job -> Nat]
  BY <1>1, <1>2 DEF TypeOK, ServerTypeOK, UsrAtHand
<1>4. FindOpenIncidentByFingerprint(req[r].fingerprint) \subseteq Incident \cup {NoIncident}
  BY DEF FindOpenIncidentByFingerprint, ActiveFor
<1>5. CASE WebhookFind(r)
  <2>1. req' \in [Request -> ReqState] /\ ReqAtHand'
    BY <1>1, <1>5, GoToType, AnsweredType DEF WebhookFind
  <2>2. QED
    BY <1>1, <1>5, <2>1, StoreSame DEF WebhookFind, history
<1>6. CASE WebhookCreate(r)
  <2>1. req[r].fingerprint \in Fingerprint
    BY <1>1 DEF ReqState
  <2>2. ASSUME NEW i \in Incident, CreateIncident(i, req[r].fingerprint)
        PROVE  incidents' \in [Incident -> IncidentRow]
    BY <1>1, <2>1, <2>2 DEF CreateIncident, StoreTypeOK, IncidentRow, Status, ActiveStatus
  <2>3. incidents' \in [Incident -> IncidentRow]
    BY <1>1, <1>6, <2>2 DEF WebhookCreate, StoreTypeOK
  <2>4. req' \in [Request -> ReqState] /\ ReqAtHand'
    BY <1>1, <1>6, GoToType, AnsweredType DEF WebhookCreate
  <2>5. QED
    BY <1>1, <1>6, <2>3, <2>4 DEF WebhookCreate, StoreTypeOK, history
<1>7. CASE WebhookWinner(r)
  <2>1. req' \in [Request -> ReqState] /\ ReqAtHand'
    BY <1>1, <1>7, AnsweredType DEF WebhookWinner
  <2>2. QED
    BY <1>1, <1>7, <2>1, StoreSame DEF WebhookWinner, history
<1>8. CASE WebhookEnqueueAlert(r)
  <2>1. req' \in [Request -> ReqState] /\ ReqAtHand'
    BY <1>1, <1>8, AnsweredType DEF WebhookEnqueueAlert, ReqAtHand
  <2>2. req[r].incident \in Incident
    BY <1>1, <1>8 DEF WebhookEnqueueAlert, ReqAtHand
  <2>3. StoreTypeOK'
    BY <1>1, <1>8, <2>2, EnqueueType, AnswerLostType, StoreSame DEF WebhookEnqueueAlert, storeVars
  <2>4. resent' \in [Job -> Nat]
    BY <1>1, <1>8, <2>2, AnswerLostType DEF WebhookEnqueueAlert
  <2>5. QED
    BY <1>1, <1>8, <2>1, <2>3, <2>4 DEF WebhookEnqueueAlert, history
<1>9. CASE WebhookFindResolved(r)
  <2>1. req' \in [Request -> ReqState] /\ ReqAtHand'
    BY <1>1, <1>4, <1>9, GoToType DEF WebhookFindResolved
  <2>2. QED
    BY <1>1, <1>9, <2>1, StoreSame DEF WebhookFindResolved, history
<1>10. CASE WebhookResolve(r)
  <2>1. incidents' \in [Incident -> IncidentRow]
    BY <1>1, <1>10 DEF WebhookResolve, ResolveIncidentByFingerprint, StoreTypeOK,
                       IncidentRow, Status, ActiveStatus
  <2>2. resolvedOnce' \in SUBSET Incident
    BY <1>1, <1>10 DEF WebhookResolve, NewlyResolved
  <2>3. req[r].incident \in Incident \cup {NoIncident}
    BY <1>1 DEF ReqState
  <2>4. req' \in [Request -> ReqState] /\ ReqAtHand'
    BY <1>1, <1>10, <2>3, GoToType, AnsweredType DEF WebhookResolve
  <2>5. QED
    BY <1>1, <1>10, <2>1, <2>2, <2>4 DEF WebhookResolve, StoreTypeOK
<1>11. CASE WebhookEnqueueResolved(r)
  <2>1. req' \in [Request -> ReqState] /\ ReqAtHand'
    BY <1>1, <1>11, AnsweredType DEF WebhookEnqueueResolved, ReqAtHand
  <2>2. req[r].incident \in Incident
    BY <1>1, <1>11 DEF WebhookEnqueueResolved, ReqAtHand
  <2>3. StoreTypeOK' /\ resent' \in [Job -> Nat] /\ resolvedJobs' \in SUBSET Incident
    BY <1>1, <1>11, <2>2, PushResolvedType, AnswerLostType DEF WebhookEnqueueResolved
  <2>4. QED
    BY <1>1, <1>11, <2>1, <2>2, <2>3 DEF WebhookEnqueueResolved
<1>12. QED
  BY <1>5, <1>6, <1>7, <1>8, <1>9, <1>10, <1>11 DEF WebhookStep

(* A step of a user-operation handler keeps every type. *)
LEMMA UserTypeOK ==
  ASSUME TypeOK, UNCHANGED workerVars, NEW u \in User, UserStep(u)
  PROVE  TypeOK'
<1>1. /\ StoreTypeOK /\ ReqAtHand /\ UsrAtHand
      /\ req \in [Request -> ReqState] /\ usr \in [User -> UsrState]
      /\ resolvedOnce \in SUBSET Incident /\ resolvedJobs \in SUBSET Incident
      /\ resent \in [Job -> Nat]
  BY DEF TypeOK, ServerTypeOK
<1>2. WorkerTypeOK' /\ JobAtHand'
  BY WorkerSame DEF TypeOK
<1>3. SUFFICES /\ StoreTypeOK'
               /\ usr' \in [User -> UsrState] /\ UsrAtHand'
               /\ req' = req
               /\ resolvedOnce' \in SUBSET Incident /\ resolvedJobs' \in SUBSET Incident
               /\ resent' \in [Job -> Nat]
  BY <1>1, <1>2 DEF TypeOK, ServerTypeOK, ReqAtHand
<1>4. CASE AcknowledgeOnCall(u)
  <2>1. usr' \in [User -> UsrState] /\ UsrAtHand'
    BY <1>1, <1>4, UserGoToType, UserDoneType DEF AcknowledgeOnCall
  <2>2. QED
    BY <1>1, <1>4, <2>1, StoreSame DEF AcknowledgeOnCall, history
<1>5. CASE UserUpdate(u)
  <2>1. usr[u].op \in AllUserOps /\ usr[u].incident \in Incident /\ usr[u].pc # "idle"
    BY <1>1, <1>5 DEF UserUpdate, UsrState, UsrAtHand
  <2>2. StatusAfter(usr[u].op) \in Status
    BY <2>1 DEF StatusAfter, AllUserOps, Status, ActiveStatus
  <2>3. incidents' \in [Incident -> IncidentRow]
    BY <1>1, <1>5, <2>1, <2>2 DEF UserUpdate, UpdateStatus, IncidentRow, StoreTypeOK
  <2>4. resolvedOnce' \in SUBSET Incident
    BY <1>1, <1>5 DEF UserUpdate, NewlyResolved
  <2>5. usr' \in [User -> UsrState] /\ UsrAtHand'
    BY <1>1, <1>5, <2>1, UserGoToType, UserDoneType DEF UserUpdate
  <2>6. QED
    BY <1>1, <1>5, <2>3, <2>4, <2>5 DEF UserUpdate, StoreTypeOK
<1>6. CASE AcknowledgeCancel(u)
  <2>1. usr' \in [User -> UsrState] /\ UsrAtHand'
    BY <1>1, <1>6, UserDoneType DEF AcknowledgeCancel
  <2>2. pending' \in [Notification -> PendingRow]
    <3>1. pending \in [Notification -> PendingRow]
      BY <1>1 DEF StoreTypeOK
    <3>2. QED
      BY <1>6, <3>1 DEF AcknowledgeCancel, CancelPendingNotificationsForIncident, PendingRow
  <2>3. QED
    BY <1>1, <1>6, <2>1, <2>2 DEF AcknowledgeCancel, StoreTypeOK, history
<1>7. CASE ResolveEnqueue(u)
  <2>1. usr' \in [User -> UsrState] /\ UsrAtHand'
    BY <1>1, <1>7, UserDoneType DEF ResolveEnqueue, UsrAtHand
  <2>2. usr[u].incident \in Incident
    BY <1>1, <1>7 DEF ResolveEnqueue, UsrAtHand
  <2>3. StoreTypeOK' /\ resent' \in [Job -> Nat] /\ resolvedJobs' \in SUBSET Incident
    BY <1>1, <1>7, <2>2, PushResolvedType, AnswerLostType DEF ResolveEnqueue
  <2>4. QED
    BY <1>1, <1>7, <2>1, <2>2, <2>3 DEF ResolveEnqueue
<1>8. QED
  BY <1>4, <1>5, <1>6, <1>7 DEF UserStep

(* Every step of the server keeps every type. *)
LEMMA ServerTypeStep ==
  ASSUME TypeOK, UNCHANGED workerVars, ServerNext
  PROVE  TypeOK'
<1>1. /\ StoreTypeOK /\ ReqAtHand /\ UsrAtHand
      /\ req \in [Request -> ReqState] /\ usr \in [User -> UsrState]
      /\ ServerTypeOK
  BY DEF TypeOK, ServerTypeOK
<1>2. WorkerTypeOK' /\ JobAtHand'
  BY WorkerSame DEF TypeOK
<1>3. ASSUME NEW r \in Request, NEW f \in Fingerprint, NEW resolved \in BOOLEAN,
             ReceiveWebhook(r, f, resolved)
      PROVE  TypeOK'
  <2>1. req' \in [Request -> ReqState]
    BY <1>1, <1>3 DEF ReceiveWebhook, ReqState
  <2>2. ReqAtHand'
    BY <1>1, <1>3 DEF ReceiveWebhook, ReqState, ReqAtHand
  <2>3. StoreTypeOK'
    BY <1>1, <1>3, StoreSame DEF ReceiveWebhook
  <2>4. QED
    BY <1>1, <1>2, <1>3, <2>1, <2>2, <2>3
    DEF ReceiveWebhook, TypeOK, ServerTypeOK, UsrAtHand, history
<1>4. ASSUME NEW u \in User, NEW op \in UserOp, NEW i \in Incident,
             UserRequest(u, op, i)
      PROVE  TypeOK'
  <2>1. usr' \in [User -> UsrState]
    BY <1>1, <1>4, ServerAssumption DEF UserRequest, UsrState
  <2>2. UsrAtHand'
    BY <1>1, <1>4 DEF UserRequest, UsrState, UsrAtHand
  <2>3. StoreTypeOK'
    BY <1>1, <1>4, StoreSame DEF UserRequest
  <2>4. QED
    BY <1>1, <1>2, <1>4, <2>1, <2>2, <2>3
    DEF UserRequest, TypeOK, ServerTypeOK, ReqAtHand, history
<1>5. CASE HandlerDies
  <2>1. /\ req' \in [Request -> ReqState] /\ ReqAtHand'
        /\ usr' \in [User -> UsrState] /\ UsrAtHand'
    BY <1>1, <1>5, AnsweredType, UserDoneType DEF HandlerDies, ReqAtHand, UsrAtHand
  <2>2. StoreTypeOK'
    BY <1>1, <1>5, StoreSame DEF HandlerDies
  <2>3. QED
    BY <1>1, <1>2, <1>5, <2>1, <2>2 DEF HandlerDies, TypeOK, ServerTypeOK, history
<1>6. QED
  BY <1>3, <1>4, <1>5, WebhookTypeOK, UserTypeOK DEF ServerNext

(* Moving on or finishing keeps a replica's job record well-formed. *)
LEMMA JobGoToType ==
  ASSUME job \in [Replica -> JobState], JobAtHand, NEW w \in Replica, job[w].pc # "idle",
         NEW pc \in {"graph", "similar", "rules", "slack", "upsert", "promote"},
         JobGoTo(w, pc)
  PROVE  job' \in [Replica -> JobState] /\ JobAtHand'
<1>1. job' \in [Replica -> JobState]
  BY DEF JobGoTo, JobState
<1>2. \A v \in Replica : v # w => job'[v] = job[v]
  BY DEF JobGoTo, JobState
<1>3. job'[w].incident = job[w].incident
  BY DEF JobGoTo, JobState
<1>4. QED
  BY <1>1, <1>2, <1>3 DEF JobAtHand

LEMMA JobDoneType ==
  ASSUME job \in [Replica -> JobState], JobAtHand, NEW w \in Replica, JobDone(w)
  PROVE  job' \in [Replica -> JobState] /\ JobAtHand'
<1>1. job' \in [Replica -> JobState]
  BY DEF JobDone, JobIdle, JobState
<1>2. \A v \in Replica : v # w => job'[v] = job[v]
  BY DEF JobDone, JobState
<1>3. job'[w].pc = "idle"
  BY DEF JobDone, JobIdle
<1>4. QED
  BY <1>1, <1>2, <1>3 DEF JobAtHand

LEMMA SendingType ==
  ASSUME job \in [Replica -> JobState], JobAtHand, NEW w \in Replica, job[w].pc # "idle",
         NEW rules \in SUBSET Rule, Sending(w, rules)
  PROVE  job' \in [Replica -> JobState] /\ JobAtHand'
<1>1. job[w].incident \in Incident
  BY DEF JobAtHand
<1>2. job' \in [Replica -> JobState]
  BY <1>1 DEF Sending, JobState
<1>3. \A v \in Replica : v # w => job'[v] = job[v]
  BY DEF Sending, JobState
<1>4. job'[w].incident = job[w].incident
  BY DEF Sending, JobState
<1>5. QED
  BY <1>1, <1>2, <1>3, <1>4 DEF JobAtHand

LEMMA UpsertNodeType ==
  ASSUME node \in [Incident -> {"none", "pending", "permanent"}], NEW i, UpsertNode(i)
  PROVE  node' \in [Incident -> {"none", "pending", "permanent"}]
  BY DEF UpsertNode

(* A step of a replica's job loop keeps every type. *)
LEMMA JobTypeOK ==
  ASSUME TypeOK, UNCHANGED serverVars, NEW w \in Replica, ProcessNextJob(w) \/ JobStep(w)
  PROVE  TypeOK'
<1>1. /\ StoreTypeOK /\ JobAtHand
      /\ job \in [Replica -> JobState] /\ poll \in [Replica -> PollState]
      /\ node \in [Incident -> {"none", "pending", "permanent"}]
      /\ slack \in [Incident -> Nat] /\ fired \in [Notification -> Nat]
  BY DEF TypeOK, WorkerTypeOK
<1>2. ServerTypeOK' /\ ReqAtHand' /\ UsrAtHand'
  BY ServerSame DEF TypeOK
<1>3. SUFFICES /\ StoreTypeOK'
               /\ job' \in [Replica -> JobState] /\ JobAtHand'
               /\ poll' = poll
               /\ node' \in [Incident -> {"none", "pending", "permanent"}]
               /\ slack' \in [Incident -> Nat] /\ fired' = fired
  BY <1>1, <1>2 DEF TypeOK, WorkerTypeOK
<1>4. job[w].pc # "idle" => job[w].incident \in Incident
  BY <1>1 DEF JobAtHand
<1>5. CASE ProcessNextJob(w)
  <2>1. PICK j \in Job : /\ DequeueAlert(j)
                         /\ job' = [job EXCEPT ![w] =
                              [pc |-> IF j.type = "alert" THEN "loadAlert" ELSE "loadResolved",
                               incident |-> j.incident, todo |-> {}]]
    BY <1>5 DEF ProcessNextJob
  <2>2. j.incident \in Incident
    BY DEF Job
  <2>3. job' \in [Replica -> JobState]
    BY <1>1, <2>1, <2>2 DEF JobState
  <2>4. JobAtHand'
    BY <1>1, <2>1, <2>2 DEF JobAtHand, JobState
  <2>5. queue' \in Seq(Job)
    BY <1>1, <2>1 DEF DequeueAlert, StoreTypeOK
  <2>6. QED
    BY <1>1, <1>5, <2>3, <2>4, <2>5 DEF ProcessNextJob, StoreTypeOK
<1>6. CASE AlertLoad(w)
  <2>1. job' \in [Replica -> JobState] /\ JobAtHand'
    BY <1>1, <1>6, JobGoToType, JobDoneType DEF AlertLoad
  <2>2. QED
    BY <1>1, <1>6, <2>1, StoreSame DEF AlertLoad
<1>7. CASE AlertGraph(w)
  <2>1. job' \in [Replica -> JobState] /\ JobAtHand'
    BY <1>1, <1>7, JobGoToType DEF AlertGraph
  <2>2. QED
    BY <1>1, <1>7, <2>1, StoreSame, UpsertNodeType DEF AlertGraph
<1>8. CASE AlertSimilar(w)
  <2>1. job' \in [Replica -> JobState] /\ JobAtHand'
    BY <1>1, <1>8, JobGoToType DEF AlertSimilar
  <2>2. QED
    BY <1>1, <1>8, <2>1, StoreSame, UpsertNodeType DEF AlertSimilar
<1>9. CASE AlertRules(w)
  <2>1. job' \in [Replica -> JobState] /\ JobAtHand'
    BY <1>1, <1>9, SendingType DEF AlertRules
  <2>2. QED
    BY <1>1, <1>9, <2>1, StoreSame DEF AlertRules
<1>10. CASE AlertSend(w)
  <2>1. PICK rule \in job[w].todo : Sending(w, job[w].todo \ {rule})
    BY <1>10 DEF AlertSend
  <2>2. job[w].todo \ {rule} \in SUBSET Rule
    BY <1>1 DEF JobState
  <2>3. job' \in [Replica -> JobState] /\ JobAtHand'
    BY <1>1, <1>10, <2>1, <2>2, SendingType DEF AlertSend
  <2>4. ASSUME NEW n \in Notification, QueuePendingNotification(n, job[w].incident)
        PROVE  pending' \in [Notification -> PendingRow]
    BY <1>1, <1>4, <1>10, <2>4 DEF AlertSend, QueuePendingNotification, PendingRow, StoreTypeOK
  <2>5. pending' \in [Notification -> PendingRow]
    BY <1>1, <1>10, <2>4 DEF AlertSend, StoreTypeOK
  <2>6. QED
    BY <1>1, <1>10, <2>3, <2>5 DEF AlertSend, StoreTypeOK
<1>11. CASE AlertSlack(w)
  <2>1. job' \in [Replica -> JobState] /\ JobAtHand'
    BY <1>1, <1>11, JobDoneType DEF AlertSlack
  <2>2. slack' \in [Incident -> Nat]
    BY <1>1, <1>4, <1>11 DEF AlertSlack
  <2>3. QED
    BY <1>1, <1>11, <2>1, <2>2, StoreSame DEF AlertSlack
<1>12. CASE ResolvedLoad(w)
  <2>1. job' \in [Replica -> JobState] /\ JobAtHand'
    BY <1>1, <1>12, JobGoToType, JobDoneType DEF ResolvedLoad
  <2>2. QED
    BY <1>1, <1>12, <2>1, StoreSame DEF ResolvedLoad
<1>13. CASE ResolvedUpsert(w)
  <2>1. job' \in [Replica -> JobState] /\ JobAtHand'
    BY <1>1, <1>13, JobGoToType, JobDoneType DEF ResolvedUpsert
  <2>2. QED
    BY <1>1, <1>13, <2>1, StoreSame, UpsertNodeType DEF ResolvedUpsert
<1>14. CASE ResolvedPromote(w)
  <2>1. job' \in [Replica -> JobState] /\ JobAtHand'
    BY <1>1, <1>14, JobDoneType DEF ResolvedPromote
  <2>2. QED
    BY <1>1, <1>14, <2>1, StoreSame DEF ResolvedPromote
<1>15. QED
  BY <1>5, <1>6, <1>7, <1>8, <1>9, <1>10, <1>11, <1>12, <1>13, <1>14 DEF JobStep

(* Holding and MarkPendingNotificationSent keep the poll and the table. *)
LEMMA HoldingType ==
  ASSUME poll \in [Replica -> PollState], NEW w \in Replica,
         NEW batch \in SUBSET Notification, NEW n \in Notification \cup {NoNotification},
         Holding(w, batch, n)
  PROVE  poll' \in [Replica -> PollState]
  BY DEF Holding, PollState

LEMMA MarkType ==
  ASSUME pending \in [Notification -> PendingRow], NEW n \in Notification,
         MarkPendingNotificationSent(n)
  PROVE  pending' \in [Notification -> PendingRow]
  BY DEF MarkPendingNotificationSent, PendingRow

(* A step of a replica's delayed-notification loop keeps every type. *)
LEMMA PollTypeOK ==
  ASSUME TypeOK, UNCHANGED serverVars, NEW w \in Replica,
         \/ \E batch \in SUBSET Scheduled : PollClaim(w, batch)
         \/ PollStep(w)
  PROVE  TypeOK'
<1>1. /\ StoreTypeOK /\ JobAtHand
      /\ job \in [Replica -> JobState] /\ poll \in [Replica -> PollState]
      /\ node \in [Incident -> {"none", "pending", "permanent"}]
      /\ slack \in [Incident -> Nat] /\ fired \in [Notification -> Nat]
      /\ incidents \in [Incident -> IncidentRow]
      /\ pending \in [Notification -> PendingRow]
      /\ queue \in Seq(Job)
  BY DEF TypeOK, WorkerTypeOK, StoreTypeOK
<1>2. ServerTypeOK' /\ ReqAtHand' /\ UsrAtHand'
  BY ServerSame DEF TypeOK
<1>3. SUFFICES /\ pending' \in [Notification -> PendingRow]
               /\ poll' \in [Replica -> PollState]
               /\ fired' \in [Notification -> Nat]
               /\ UNCHANGED <<incidents, queue, job, node, slack>>
  BY <1>1, <1>2 DEF TypeOK, WorkerTypeOK, StoreTypeOK, JobAtHand
<1>4. ASSUME NEW batch \in SUBSET Scheduled, PollClaim(w, batch)
      PROVE  /\ pending' \in [Notification -> PendingRow]
             /\ poll' \in [Replica -> PollState]
             /\ fired' \in [Notification -> Nat]
             /\ UNCHANGED <<incidents, queue, job, node, slack>>
  <2>1. batch \in SUBSET Notification
    BY DEF Scheduled
  <2>2. poll' \in [Replica -> PollState]
    BY <1>1, <1>4, <2>1, HoldingType DEF PollClaim
  <2>3. pending' \in [Notification -> PendingRow]
    BY <1>1, <1>4 DEF PollClaim, GetDuePendingNotifications, PendingRow
  <2>4. QED
    BY <1>1, <1>4, <2>2, <2>3 DEF PollClaim
<1>5. ASSUME NEW n \in poll[w].batch, PollCheck(w, n)
      PROVE  /\ pending' \in [Notification -> PendingRow]
             /\ poll' \in [Replica -> PollState]
             /\ fired' \in [Notification -> Nat]
             /\ UNCHANGED <<incidents, queue, job, node, slack>>
  <2>1. n \in Notification /\ poll[w].batch \ {n} \in SUBSET Notification
    BY <1>1 DEF PollState
  <2>2. poll' \in [Replica -> PollState]
    BY <1>1, <1>5, <2>1, HoldingType DEF PollCheck
  <2>3. pending' \in [Notification -> PendingRow]
    BY <1>1, <1>5, <2>1, MarkType DEF PollCheck
  <2>4. QED
    BY <1>1, <1>5, <2>2, <2>3 DEF PollCheck
<1>6. CASE PollFire(w)
  <2>1. poll[w].current \in Notification
    BY <1>1, <1>6 DEF PollFire, PollState
  <2>2. poll' \in [Replica -> PollState]
    <3>1. poll[w].batch \in SUBSET Notification
      BY <1>1 DEF PollState
    <3>2. QED
      BY <1>1, <1>6, <3>1, HoldingType DEF PollFire
  <2>3. pending' \in [Notification -> PendingRow]
    BY <1>1, <1>6, <2>1, MarkType DEF PollFire
  <2>4. fired' \in [Notification -> Nat]
    BY <1>1, <1>6, <2>1 DEF PollFire
  <2>5. QED
    BY <1>1, <1>6, <2>2, <2>3, <2>4 DEF PollFire
<1>7. QED
  BY <1>4, <1>5, <1>6 DEF PollStep

(* Every step of the worker keeps every type. *)
LEMMA WorkerTypeStep ==
  ASSUME TypeOK, UNCHANGED serverVars, WorkerNext
  PROVE  TypeOK'
<1>1. ASSUME NEW w \in Replica, ReplicaCrash(w)
      PROVE  TypeOK'
  <2>1. ServerTypeOK' /\ ReqAtHand' /\ UsrAtHand'
    BY ServerSame DEF TypeOK
  <2>2. job' \in [Replica -> JobState] /\ JobAtHand'
    BY <1>1, JobDoneType DEF TypeOK, WorkerTypeOK, ReplicaCrash, JobDone
  <2>3. poll' \in [Replica -> PollState]
    BY <1>1 DEF TypeOK, WorkerTypeOK, ReplicaCrash, PollIdle, PollState
  <2>4. StoreTypeOK'
    BY <1>1, StoreSame DEF TypeOK, ReplicaCrash
  <2>5. QED
    BY <1>1, <2>1, <2>2, <2>3, <2>4 DEF TypeOK, WorkerTypeOK, ReplicaCrash
<1>2. CASE JobLost
  <2>1. ServerTypeOK' /\ ReqAtHand' /\ UsrAtHand'
    BY ServerSame DEF TypeOK
  <2>2. StoreTypeOK'
    BY <1>2 DEF JobLost, DequeueAlert, TypeOK, StoreTypeOK
  <2>3. WorkerTypeOK' /\ JobAtHand'
    BY <1>2, WorkerSame DEF JobLost, TypeOK
  <2>4. QED
    BY <2>1, <2>2, <2>3 DEF TypeOK
<1>3. QED
  BY <1>1, <1>2, JobTypeOK, PollTypeOK DEF WorkerNext

(* No table, handler or loop ever loses its shape; a handler or a job that *)
(* uses an incident always has one (no nil incident is followed).          *)
THEOREM TypeCorrect == Spec => []TypeOK
<1>1. ASSUME TypeOK, [Next]_vars PROVE TypeOK'
  <2>1. CASE Next
    BY <1>1, <2>1, ServerTypeStep, WorkerTypeStep DEF Next
  <2>2. CASE UNCHANGED vars
    BY <1>1, <2>2, StoreSame, ServerSame, WorkerSame DEF vars, TypeOK
  <2>3. QED
    BY <1>1, <2>1, <2>2
<1>2. QED
  BY InitTypeOK, <1>1, PTL DEF Spec

----------------------------------------------------------------------------
(* Deduplication and the knowledge graph's contamination guarantee *)

(* A row that becomes active where the index allows it is the only one. *)
LEMMA ActivateOne ==
  ASSUME OneActivePerFingerprint, NEW i \in Incident,
         \A j \in Incident : j # i => incidents'[j] = incidents[j],
         incidents'[i].status \in ActiveStatus => IndexAllows(i, incidents'[i].fingerprint)
  PROVE  OneActivePerFingerprint'
<1>1. incidents'[i].status \in ActiveStatus =>
        \A j \in Incident : /\ incidents[j].status \in ActiveStatus
                            /\ incidents[j].fingerprint = incidents'[i].fingerprint
                            => j = i
  BY DEF IndexAllows, ActiveFor
<1>2. QED
  BY <1>1 DEF OneActivePerFingerprint

LEMMA CreateOne ==
  ASSUME incidents \in [Incident -> IncidentRow], OneActivePerFingerprint,
         NEW i \in Incident, NEW f, CreateIncident(i, f)
  PROVE  OneActivePerFingerprint'
<1>1. /\ incidents'[i] = [status |-> "open", fingerprint |-> f]
      /\ \A j \in Incident : j # i => incidents'[j] = incidents[j]
  BY DEF CreateIncident
<1>2. QED
  BY <1>1, ActivateOne DEF CreateIncident

LEMMA UpdateOne ==
  ASSUME incidents \in [Incident -> IncidentRow], OneActivePerFingerprint,
         NEW i \in Incident, NEW s \in Status, UpdateStatus(i, s)
  PROVE  OneActivePerFingerprint'
<1>1. /\ incidents'[i].status = s
      /\ incidents'[i].fingerprint = incidents[i].fingerprint
      /\ \A j \in Incident : j # i => incidents'[j] = incidents[j]
  BY DEF UpdateStatus, IncidentRow
<1>2. QED
  BY <1>1, ActivateOne DEF UpdateStatus, StatusUpdateAllowed

(* Resolving by fingerprint makes no row active. *)
LEMMA ResolveOne ==
  ASSUME incidents \in [Incident -> IncidentRow], OneActivePerFingerprint,
         NEW f, ResolveIncidentByFingerprint(f)
  PROVE  OneActivePerFingerprint'
<1>1. \A i \in Incident :
        incidents'[i].status \in ActiveStatus => incidents'[i] = incidents[i]
  BY DEF ResolveIncidentByFingerprint, IncidentRow, ActiveStatus
<1>2. QED
  BY <1>1 DEF OneActivePerFingerprint

(* A fingerprint never has two active incidents: deduplication cannot be   *)
(* defeated by concurrent webhooks, reopens, snoozes or acknowledgements.  *)
THEOREM Deduplicated == Spec => []OneActivePerFingerprint
<1>1. Init => OneActivePerFingerprint
  BY DEF Init, StoreInit, OneActivePerFingerprint, ActiveStatus
<1>2. ASSUME TypeOK, OneActivePerFingerprint, [Next]_vars
      PROVE  OneActivePerFingerprint'
  <2>1. incidents \in [Incident -> IncidentRow]
    BY <1>2 DEF TypeOK, StoreTypeOK
  <2>2. incidents' = incidents => OneActivePerFingerprint'
    BY <1>2 DEF OneActivePerFingerprint
  <2>3. ASSUME NEW r \in Request, WebhookCreate(r)
        PROVE  OneActivePerFingerprint'
    <3>1. req[r].fingerprint \in Fingerprint
      BY <1>2 DEF TypeOK, ServerTypeOK, ReqState
    <3>2. QED
      BY <1>2, <2>1, <2>2, <2>3, <3>1, CreateOne DEF WebhookCreate
  <2>4. ASSUME NEW r \in Request, WebhookResolve(r)
        PROVE  OneActivePerFingerprint'
    BY <1>2, <2>1, <2>2, <2>4, ResolveOne DEF WebhookResolve
  <2>5. ASSUME NEW u \in User, UserUpdate(u)
        PROVE  OneActivePerFingerprint'
    <3>1. usr[u].incident \in Incident /\ usr[u].op \in AllUserOps
      BY <1>2, <2>5 DEF TypeOK, UsrAtHand, ServerTypeOK, UsrState, UserUpdate
    <3>2. StatusAfter(usr[u].op) \in Status
      BY <3>1 DEF StatusAfter, AllUserOps, Status, ActiveStatus
    <3>3. QED
      BY <1>2, <2>1, <2>2, <2>5, <3>1, <3>2, UpdateOne DEF UserUpdate
  <2>6. CASE ServerNext
    BY <2>2, <2>3, <2>4, <2>5, <2>6
    DEF ServerNext, ReceiveWebhook, WebhookStep, WebhookFind, WebhookWinner,
        WebhookEnqueueAlert, WebhookFindResolved, WebhookEnqueueResolved, UserRequest,
        UserStep, AcknowledgeOnCall, AcknowledgeCancel, ResolveEnqueue, HandlerDies, storeVars
  <2>7. CASE WorkerNext
    BY <2>2, <2>7
    DEF WorkerNext, ProcessNextJob, JobLost, JobStep, AlertLoad, AlertGraph, AlertSimilar, AlertRules,
        AlertSend, AlertSlack, ResolvedLoad, ResolvedUpsert, ResolvedPromote, PollClaim,
        PollStep, PollCheck, PollFire, ReplicaCrash, storeVars
  <2>8. QED
    BY <1>2, <2>2, <2>6, <2>7 DEF Next, vars, storeVars
<1>3. QED
  BY <1>1, <1>2, TypeCorrect, PTL DEF Spec

----------------------------------------------------------------------------
(* Why a permanent node has been resolved: a resolved row is recorded, and *)
(* a job past its status check works on a recorded incident.               *)
PermanentInv ==
  /\ \A i \in Incident : incidents[i].status = "resolved" => i \in resolvedOnce
  /\ \A w \in Replica :
       job[w].pc \in {"upsert", "promote"} => job[w].incident \in resolvedOnce
  /\ PermanentOnlyAfterResolve

(* Server steps record what they resolve and never forget. *)
LEMMA ServerPermanent ==
  ASSUME TypeOK, PermanentInv, UNCHANGED workerVars, ServerNext
  PROVE  PermanentInv'
<1> DEFINE Recorded == /\ resolvedOnce \subseteq resolvedOnce'
                       /\ \A i \in Incident : incidents'[i].status = "resolved"
                            => incidents[i].status = "resolved" \/ i \in resolvedOnce'
<1>1. Recorded
  <2>1. resolvedOnce' = resolvedOnce \cup NewlyResolved => Recorded
    BY DEF NewlyResolved
  <2>2. UNCHANGED <<incidents, resolvedOnce>> => Recorded
    OBVIOUS
  <2>3. ASSUME NEW r \in Request, WebhookCreate(r)
        PROVE  Recorded
    <3>1. ASSUME NEW i \in Incident, CreateIncident(i, req[r].fingerprint)
          PROVE  \A j \in Incident : incidents'[j].status = "resolved"
                                       => incidents[j].status = "resolved"
      BY <3>1 DEF CreateIncident, TypeOK, StoreTypeOK
    <3>2. QED
      BY <2>2, <2>3, <3>1 DEF WebhookCreate, history
  <2>4. ASSUME NEW r \in Request, WebhookResolve(r)
        PROVE  Recorded
    BY <2>1, <2>2, <2>4 DEF WebhookResolve
  <2>5. ASSUME NEW u \in User, UserUpdate(u)
        PROVE  Recorded
    BY <2>1, <2>2, <2>5 DEF UserUpdate
  <2> HIDE DEF Recorded
  <2>6. QED
    BY <2>2, <2>3, <2>4, <2>5
    DEF ServerNext, ReceiveWebhook, WebhookStep, WebhookFind, WebhookWinner,
        WebhookEnqueueAlert, WebhookFindResolved, WebhookEnqueueResolved, UserRequest,
        UserStep, AcknowledgeOnCall, AcknowledgeCancel, ResolveEnqueue, HandlerDies,
        storeVars, history
<1>2. job' = job /\ node' = node
  BY DEF workerVars
<1>3. QED
  BY <1>1, <1>2 DEF PermanentInv, PermanentOnlyAfterResolve

(* A worker's job promotes only what it found resolved. *)
LEMMA JobPermanent ==
  ASSUME TypeOK, PermanentInv, UNCHANGED serverVars, NEW w \in Replica,
         ProcessNextJob(w) \/ JobStep(w)
  PROVE  PermanentInv'
<1>1. /\ job \in [Replica -> JobState] /\ node \in [Incident -> {"none", "pending", "permanent"}]
      /\ job[w].pc # "idle" => job[w].incident \in Incident
  BY DEF TypeOK, WorkerTypeOK, JobAtHand
<1>2. UNCHANGED <<incidents, resolvedOnce>>
  BY DEF serverVars, history, ProcessNextJob, JobStep, AlertLoad, AlertGraph, AlertSimilar,
         AlertRules, AlertSend, AlertSlack, ResolvedLoad, ResolvedUpsert, ResolvedPromote,
         storeVars
<1>3. SUFFICES /\ \A v \in Replica :
                    job'[v].pc \in {"upsert", "promote"} => job'[v].incident \in resolvedOnce
               /\ \A i \in Incident : node'[i] = "permanent" => i \in resolvedOnce
  BY <1>2 DEF PermanentInv, PermanentOnlyAfterResolve
<1>4. /\ \A v \in Replica :
           job[v].pc \in {"upsert", "promote"} => job[v].incident \in resolvedOnce
      /\ \A i \in Incident : node[i] = "permanent" => i \in resolvedOnce
  BY DEF PermanentInv, PermanentOnlyAfterResolve
<1>5. ASSUME NEW pc, JobGoTo(w, pc)
      PROVE  /\ job'[w].pc = pc /\ job'[w].incident = job[w].incident
             /\ \A v \in Replica : v # w => job'[v] = job[v]
  BY <1>1, <1>5 DEF JobGoTo, JobState
<1>6. ASSUME JobDone(w)
      PROVE  /\ job'[w].pc = "idle"
             /\ \A v \in Replica : v # w => job'[v] = job[v]
  BY <1>1, <1>6 DEF JobDone, JobIdle, JobState
<1>7. ASSUME NEW i, UpsertNode(i)
      PROVE  \A j \in Incident : node'[j] = "permanent" => node[j] = "permanent"
  BY <1>1, <1>7 DEF UpsertNode
<1>8. ASSUME NEW rules, Sending(w, rules)
      PROVE  /\ job'[w].pc \in {"slack", "send"}
             /\ \A v \in Replica : v # w => job'[v] = job[v]
  BY <1>1, <1>8 DEF Sending, JobState
<1>9. CASE ProcessNextJob(w)
  <2>1. /\ job'[w].pc \in {"loadAlert", "loadResolved"}
        /\ \A v \in Replica : v # w => job'[v] = job[v]
    BY <1>1, <1>9 DEF ProcessNextJob
  <2>2. QED
    BY <1>4, <1>9, <2>1 DEF ProcessNextJob
<1>10. CASE AlertLoad(w) \/ AlertSlack(w)
  BY <1>4, <1>5, <1>6, <1>10 DEF AlertLoad, AlertSlack
<1>11. CASE AlertGraph(w) \/ AlertSimilar(w)
  <2>1. /\ job'[w].pc \in {"similar", "rules", "slack"}
        /\ \A v \in Replica : v # w => job'[v] = job[v]
    BY <1>5, <1>11 DEF AlertGraph, AlertSimilar
  <2>2. \A j \in Incident : node'[j] = "permanent" => node[j] = "permanent"
    BY <1>7, <1>11 DEF AlertGraph, AlertSimilar
  <2>3. QED
    BY <1>4, <2>1, <2>2
<1>12. CASE AlertRules(w) \/ AlertSend(w)
  BY <1>4, <1>8, <1>12 DEF AlertRules, AlertSend
<1>13. CASE ResolvedLoad(w)
  <2>1. job[w].incident \in Incident
    BY <1>1, <1>13 DEF ResolvedLoad
  <2>2. incidents[job[w].incident].status = "resolved"
          => job[w].incident \in resolvedOnce
    BY <2>1 DEF PermanentInv
  <2>3. QED
    BY <1>4, <1>5, <1>6, <1>13, <2>2 DEF ResolvedLoad
<1>14. CASE ResolvedUpsert(w)
  BY <1>4, <1>5, <1>6, <1>7, <1>14 DEF ResolvedUpsert
<1>15. CASE ResolvedPromote(w)
  BY <1>1, <1>4, <1>6, <1>15 DEF ResolvedPromote
<1>16. QED
  BY <1>9, <1>10, <1>11, <1>12, <1>13, <1>14, <1>15 DEF JobStep

(* The worker never makes a node permanent for an incident that was not    *)
(* resolved, however its jobs interleave with resolving and reopening.     *)
THEOREM PermanentWasResolved == Spec => []PermanentOnlyAfterResolve
<1>1. Init => PermanentInv
  BY DEF Init, StoreInit, WorkerInit, JobIdle, PermanentInv, PermanentOnlyAfterResolve
<1>2. ASSUME TypeOK, PermanentInv, [Next]_vars
      PROVE  PermanentInv'
  <2>1. UNCHANGED <<incidents, resolvedOnce, job, node>> => PermanentInv'
    BY <1>2 DEF PermanentInv, PermanentOnlyAfterResolve
  <2>2. ASSUME NEW w \in Replica, ReplicaCrash(w), UNCHANGED serverVars
        PROVE  PermanentInv'
    <3>1. /\ job'[w].pc = "idle"
          /\ \A v \in Replica : v # w => job'[v] = job[v]
          /\ UNCHANGED <<incidents, resolvedOnce, node>>
      BY <1>2, <2>2 DEF ReplicaCrash, JobIdle, TypeOK, WorkerTypeOK, storeVars, serverVars, history
    <3>2. QED
      BY <1>2, <3>1 DEF PermanentInv, PermanentOnlyAfterResolve
  <2>3. CASE WorkerNext /\ UNCHANGED serverVars
    BY <1>2, <2>1, <2>2, <2>3, JobPermanent
    DEF WorkerNext, JobLost, PollClaim, PollStep, PollCheck, PollFire, serverVars, history,
        workerVars
  <2>4. CASE ServerNext /\ UNCHANGED workerVars
    BY <1>2, <2>4, ServerPermanent
  <2>5. QED
    BY <1>2, <2>1, <2>3, <2>4 DEF Next, vars, storeVars, serverVars, history, workerVars
<1>3. PermanentInv => PermanentOnlyAfterResolve
  BY DEF PermanentInv
<1>4. QED
  BY <1>1, <1>2, <1>3, TypeCorrect, PTL DEF Spec

----------------------------------------------------------------------------
(* Why nobody is told more often than Redis was asked: each alert that is  *)
(* about to be pushed, is in the queue, is at a replica or has been posted *)
(* goes back to the one INSERT of its row or to a re-sent push. Before the *)
(* row is there, there is none.                                            *)
AlertPc == {"loadAlert", "graph", "similar", "rules", "send", "slack"}

Pushing(i) == {r \in Request : req[r].pc = "enqueueAlert" /\ req[r].incident = i}

Waiting(i) == {k \in 1..Len(queue) : queue[k].type = "alert" /\ queue[k].incident = i}

Working(i) == {w \in Replica : job[w].pc \in AlertPc /\ job[w].incident = i}

Told(i) ==
  Cardinality(Pushing(i)) + Cardinality(Waiting(i)) + Cardinality(Working(i)) + slack[i]

Accounted(i) ==
  /\ Exists(i) \/ (Pushing(i) = {} /\ Waiting(i) = {} /\ Working(i) = {} /\ slack[i] = 0)
  /\ Told(i) <= Copies(i)

AccountedInv == \A i \in Incident : Accounted(i)

(* Everything that is counted is finite. *)
LEMMA CountsFinite ==
  ASSUME TypeOK, NEW i \in Incident
  PROVE  /\ IsFiniteSet(Pushing(i)) /\ Cardinality(Pushing(i)) \in Nat
         /\ IsFiniteSet(Waiting(i)) /\ Cardinality(Waiting(i)) \in Nat
         /\ IsFiniteSet(Working(i)) /\ Cardinality(Working(i)) \in Nat
         /\ slack[i] \in Nat /\ Copies(i) \in Nat /\ Copies(i) >= 1
<1>1. IsFiniteSet(Pushing(i))
  BY ServerAssumption, FS_Subset DEF Pushing
<1>2. IsFiniteSet(Working(i))
  BY WorkerAssumption, FS_Subset DEF Working
<1>3. IsFiniteSet(Waiting(i))
  <2>1. Len(queue) \in Int /\ Waiting(i) \in SUBSET (1..Len(queue))
    BY DEF TypeOK, StoreTypeOK, Waiting
  <2>2. QED
    <3>1. IsFiniteSet(1..Len(queue))
      BY <2>1, FS_Interval
    <3>2. QED
      BY <2>1, <3>1, FS_Subset
<1>4. slack[i] \in Nat /\ Copies(i) \in Nat /\ Copies(i) >= 1
  BY JobType DEF TypeOK, WorkerTypeOK, ServerTypeOK, Copies
<1>5. QED
  BY <1>1, <1>2, <1>3, <1>4, FS_CardinalityType

LEMMA CountsFiniteNext ==
  ASSUME TypeOK', NEW i \in Incident
  PROVE  /\ IsFiniteSet(Pushing(i)') /\ Cardinality(Pushing(i)') \in Nat
         /\ IsFiniteSet(Waiting(i)') /\ Cardinality(Waiting(i)') \in Nat
         /\ IsFiniteSet(Working(i)') /\ Cardinality(Working(i)') \in Nat
         /\ slack'[i] \in Nat /\ Copies(i)' \in Nat /\ Copies(i)' >= 1
<1>1. IsFiniteSet(Pushing(i)')
  BY ServerAssumption, FS_Subset DEF Pushing
<1>2. IsFiniteSet(Working(i)')
  BY WorkerAssumption, FS_Subset DEF Working
<1>3. IsFiniteSet(Waiting(i)')
  <2>1. Len(queue') \in Int /\ Waiting(i)' \in SUBSET (1..Len(queue'))
    BY DEF TypeOK, StoreTypeOK, Waiting
  <2>2. QED
    <3>1. IsFiniteSet(1..Len(queue'))
      BY <2>1, FS_Interval
    <3>2. QED
      BY <2>1, <3>1, FS_Subset
<1>4. slack'[i] \in Nat /\ Copies(i)' \in Nat /\ Copies(i)' >= 1
  BY JobType DEF TypeOK, WorkerTypeOK, ServerTypeOK, Copies
<1>5. QED
  BY <1>1, <1>2, <1>3, <1>4, FS_CardinalityType

(* Cardinalities of sets that gain or lose an element. *)
LEMMA CardGain ==
  ASSUME NEW S, NEW T, NEW x, IsFiniteSet(S), T \subseteq S \cup {x}
  PROVE  Cardinality(T) <= Cardinality(S) + 1
<1>1. /\ IsFiniteSet(S \cup {x}) /\ Cardinality(S \cup {x}) \in Nat /\ Cardinality(S) \in Nat
      /\ Cardinality(S \cup {x}) <= Cardinality(S) + 1
  BY FS_AddElement, FS_CardinalityType
<1>2. IsFiniteSet(T) /\ Cardinality(T) <= Cardinality(S \cup {x})
  BY <1>1, FS_Subset
<1>3. QED
  BY <1>1, <1>2, FS_CardinalityType

LEMMA CardLoss ==
  ASSUME NEW S, NEW T, NEW x \in S, IsFiniteSet(S), T \subseteq S \ {x}
  PROVE  Cardinality(T) + 1 <= Cardinality(S)
<1>1. /\ IsFiniteSet(S \ {x}) /\ Cardinality(S) \in Nat
      /\ Cardinality(S \ {x}) = Cardinality(S) - 1
  BY FS_RemoveElement, FS_CardinalityType
<1>2. IsFiniteSet(T) /\ Cardinality(T) <= Cardinality(S \ {x})
  BY <1>1, FS_Subset
<1>3. QED
  BY <1>1, <1>2, FS_CardinalityType

(* An RPUSH adds one place to the alerts of its incident, and none to the  *)
(* others.                                                                 *)
LEMMA PushCounts ==
  ASSUME TypeOK, NEW t \in {"alert", "incident_resolved"}, NEW x \in Incident,
         enqueueJob(t, x), NEW i \in Incident
  PROVE  /\ Cardinality(Waiting(i)') <= Cardinality(Waiting(i)) + 1
         /\ t # "alert" \/ x # i => Cardinality(Waiting(i)') <= Cardinality(Waiting(i))
<1> DEFINE j == [type |-> t, incident |-> x]
<1>1. j \in Job /\ queue' = Append(queue, j) /\ j.type = t /\ j.incident = x /\ queue \in Seq(Job)
  BY DEF Job, enqueueJob, TypeOK, StoreTypeOK
<1> HIDE DEF j
<1>2. /\ Len(queue') = Len(queue) + 1 /\ queue'[Len(queue) + 1] = j /\ Len(queue) \in Nat
      /\ \A k \in 1..Len(queue) : queue'[k] = queue[k]
  BY <1>1
<1>3. Waiting(i)' \subseteq Waiting(i) \cup {Len(queue) + 1}
  BY <1>1, <1>2 DEF Waiting
<1>4. t # "alert" \/ x # i => Waiting(i)' \in SUBSET Waiting(i)
  BY <1>1, <1>2 DEF Waiting
<1>5. QED
  BY <1>3, <1>4, CountsFinite, CardGain, FS_Subset

(* A BLPOP takes the first place; the others move up. *)
LEMMA PopCounts ==
  ASSUME TypeOK, TypeOK', NEW j \in Job, DequeueAlert(j), NEW i \in Incident
  PROVE  /\ Cardinality(Waiting(i)') <= Cardinality(Waiting(i))
         /\ j.type = "alert" /\ j.incident = i
              => Cardinality(Waiting(i)') + 1 <= Cardinality(Waiting(i))
<1>1. queue \in Seq(Job) /\ queue # << >> /\ j = Head(queue) /\ queue' = Tail(queue)
  BY DEF TypeOK, StoreTypeOK, DequeueAlert
<1>2. /\ Len(queue) \in Nat /\ Len(queue) > 0 /\ Len(queue') = Len(queue) - 1
      /\ j = queue[1] /\ \A k \in 1..Len(queue') : queue'[k] = queue[k + 1]
  BY <1>1
<1> DEFINE f == [k \in Waiting(i)' |-> k + 1]
           S == Waiting(i)'
           T == Waiting(i) \ {1}
<1>3. f \in [S -> T] /\ \A a, b \in S : f[a] = f[b] => a = b
  BY <1>2 DEF Waiting
<1>4. IsFiniteSet(T)
  BY CountsFinite, FS_RemoveElement
<1>5. Cardinality(S) <= Cardinality(T)
  <2>1. f \in Injection(S, T)
    BY <1>3, Fun_IsInj
  <2> HIDE DEF f, S, T
  <2>2. QED
    BY <1>4, <2>1, FS_Injection
<1>6. Cardinality(T) = IF 1 \in Waiting(i) THEN Cardinality(Waiting(i)) - 1 ELSE Cardinality(Waiting(i))
  BY CountsFinite, FS_RemoveElement
<1>7. j.type = "alert" /\ j.incident = i => 1 \in Waiting(i)
  BY <1>2 DEF Waiting
<1>8. Cardinality(S) \in Nat /\ Cardinality(Waiting(i)) \in Nat
  BY CountsFinite, CountsFiniteNext
<1> HIDE DEF S, T
<1>9. QED
  BY <1>5, <1>6, <1>7, <1>8 DEF S

(* Rows stay. *)
LEMMA RowsStay ==
  ASSUME TypeOK, [Next]_vars
  PROVE  \A i \in Incident : Exists(i) => Exists(i)'
<1>1. incidents \in [Incident -> IncidentRow]
  BY DEF TypeOK, StoreTypeOK
<1>2. incidents' = incidents => \A i \in Incident : Exists(i) => Exists(i)'
  BY DEF Exists
<1>3. ASSUME NEW r \in Request, WebhookCreate(r)
      PROVE  \A i \in Incident : Exists(i) => Exists(i)'
  BY <1>1, <1>2, <1>3 DEF WebhookCreate, CreateIncident, Exists
<1>4. ASSUME NEW r \in Request, WebhookResolve(r)
      PROVE  \A i \in Incident : Exists(i) => Exists(i)'
  BY <1>1, <1>2, <1>4 DEF WebhookResolve, ResolveIncidentByFingerprint, Exists, IncidentRow
<1>5. ASSUME NEW u \in User, UserUpdate(u)
      PROVE  \A i \in Incident : Exists(i) => Exists(i)'
  <2>1. usr[u].incident \in Incident /\ usr[u].op \in AllUserOps
    BY <1>5 DEF TypeOK, UsrAtHand, ServerTypeOK, UsrState, UserUpdate
  <2>2. StatusAfter(usr[u].op) # "absent"
    BY <2>1 DEF StatusAfter, AllUserOps
  <2>3. QED
    BY <1>1, <1>2, <1>5, <2>1, <2>2 DEF UserUpdate, UpdateStatus, Exists, IncidentRow
<1>6. CASE ServerNext
  BY <1>2, <1>3, <1>4, <1>5, <1>6
  DEF ServerNext, ReceiveWebhook, WebhookStep, WebhookFind, WebhookWinner,
      WebhookEnqueueAlert, WebhookFindResolved, WebhookEnqueueResolved, UserRequest,
      UserStep, AcknowledgeOnCall, AcknowledgeCancel, ResolveEnqueue, HandlerDies, storeVars
<1>7. CASE WorkerNext
  BY <1>2, <1>7
  DEF WorkerNext, ProcessNextJob, JobLost, JobStep, AlertLoad, AlertGraph, AlertSimilar, AlertRules,
      AlertSend, AlertSlack, ResolvedLoad, ResolvedUpsert, ResolvedPromote, PollClaim,
      PollStep, PollCheck, PollFire, ReplicaCrash, storeVars
<1>8. QED
  BY <1>2, <1>6, <1>7 DEF Next, vars, storeVars

(* Re-sends are only ever added. *)
LEMMA CopiesGrow ==
  ASSUME TypeOK, [Next]_vars
  PROVE  \A i \in Incident : Copies(i) <= Copies(i)'
<1>1. resent \in [Job -> Nat]
  BY DEF TypeOK, ServerTypeOK
<1>2. resent' = resent => \A i \in Incident : Copies(i) <= Copies(i)'
  <2> SUFFICES ASSUME resent' = resent, NEW i \in Incident PROVE Copies(i) <= Copies(i)'
    OBVIOUS
  <2>1. Copies(i) \in Nat /\ Copies(i)' = Copies(i)
    BY <1>1, JobType DEF Copies
  <2>2. QED
    BY <2>1
<1>3. ASSUME NEW t \in {"alert", "incident_resolved"}, NEW x \in Incident, AnswerLost(t, x)
      PROVE  \A i \in Incident : Copies(i) <= Copies(i)'
  <2>1. \A j \in Job : resent'[j] = resent[j] \/ resent'[j] = resent[j] + 1
    BY <1>1, <1>3, JobType DEF AnswerLost
  <2>2. SUFFICES ASSUME NEW i \in Incident PROVE Copies(i) <= Copies(i)'
    OBVIOUS
  <2>3. PICK j \in Job : j = [type |-> "alert", incident |-> i]
    BY JobType
  <2>4. Copies(i) = 1 + resent[j] /\ Copies(i)' = 1 + resent'[j] /\ resent[j] \in Nat
    BY <1>1, <2>3 DEF Copies
  <2>5. QED
    BY <2>1, <2>4
<1>4. ASSUME NEW r \in Request, WebhookStep(r)
      PROVE  \A i \in Incident : Copies(i) <= Copies(i)'
  <2>1. req[r].pc \in {"enqueueAlert", "enqueueResolved"} => req[r].incident \in Incident
    BY DEF TypeOK, ReqAtHand
  <2>2. CASE WebhookEnqueueAlert(r) \/ WebhookEnqueueResolved(r)
    BY <1>2, <1>3, <2>1, <2>2 DEF WebhookEnqueueAlert, WebhookEnqueueResolved, PushResolved
  <2>3. QED
    BY <1>2, <1>4, <2>2 DEF WebhookStep, WebhookFind, WebhookCreate, WebhookWinner,
                            WebhookFindResolved, WebhookResolve, history
<1>5. ASSUME NEW u \in User, UserStep(u)
      PROVE  \A i \in Incident : Copies(i) <= Copies(i)'
  <2>1. usr[u].pc = "enqueue" => usr[u].incident \in Incident
    BY DEF TypeOK, UsrAtHand
  <2>2. CASE ResolveEnqueue(u)
    BY <1>2, <1>3, <2>1, <2>2 DEF ResolveEnqueue, PushResolved
  <2>3. QED
    BY <1>2, <1>5, <2>2 DEF UserStep, AcknowledgeOnCall, UserUpdate, AcknowledgeCancel, history
<1>6. CASE ServerNext
  BY <1>2, <1>4, <1>5, <1>6 DEF ServerNext, ReceiveWebhook, UserRequest, HandlerDies, history
<1>7. QED
  BY <1>2, <1>6 DEF Next, vars, serverVars, history

(* A step that adds nothing that is counted keeps the account. *)
LEMMA NothingAdded ==
  ASSUME TypeOK, TypeOK', NEW i \in Incident, Accounted(i), Exists(i) => Exists(i)',
         Copies(i) <= Copies(i)', slack'[i] = slack[i],
         Pushing(i)' \subseteq Pushing(i),
         Cardinality(Waiting(i)') <= Cardinality(Waiting(i)),
         Working(i)' \subseteq Working(i)
  PROVE  Accounted(i)'
<1>1. /\ IsFiniteSet(Pushing(i)) /\ Cardinality(Pushing(i)) \in Nat
      /\ IsFiniteSet(Waiting(i)) /\ Cardinality(Waiting(i)) \in Nat
      /\ IsFiniteSet(Working(i)) /\ Cardinality(Working(i)) \in Nat
      /\ slack[i] \in Nat /\ Copies(i) \in Nat
  BY CountsFinite
<1>2. /\ IsFiniteSet(Waiting(i)') /\ Cardinality(Waiting(i)') \in Nat
      /\ Cardinality(Pushing(i)') \in Nat /\ Cardinality(Working(i)') \in Nat
      /\ Copies(i)' \in Nat
  BY CountsFiniteNext
<1>3. /\ Cardinality(Pushing(i)') <= Cardinality(Pushing(i))
      /\ Cardinality(Working(i)') <= Cardinality(Working(i))
  BY <1>1, FS_Subset
<1>4. Waiting(i) = {} => Waiting(i)' = {}
  BY <1>1, <1>2, FS_EmptySet
<1>5. Told(i)' <= Copies(i)'
  BY <1>1, <1>2, <1>3 DEF Told, Accounted
<1>6. QED
  BY <1>4, <1>5 DEF Accounted

(* What a step of the server that touches no alert leaves as it was. *)
LEMMA SameQueue ==
  ASSUME UNCHANGED queue, NEW i \in Incident, TypeOK
  PROVE  Cardinality(Waiting(i)') <= Cardinality(Waiting(i))
<1>1. Waiting(i)' = Waiting(i)
  BY DEF Waiting
<1>2. QED
  BY <1>1, CountsFinite

(* The INSERT makes one alert of a row that had none. *)
LEMMA CreateAccounted ==
  ASSUME TypeOK, TypeOK', AccountedInv, UNCHANGED workerVars, NEW r \in Request,
         WebhookCreate(r), [Next]_vars
  PROVE  AccountedInv'
<1>1. /\ req \in [Request -> ReqState] /\ UNCHANGED <<job, slack, queue, resent>>
      /\ incidents \in [Incident -> IncidentRow]
  BY DEF TypeOK, ServerTypeOK, StoreTypeOK, WebhookCreate, workerVars, history
<1>2. SUFFICES ASSUME NEW i \in Incident PROVE Accounted(i)'
  BY DEF AccountedInv
<1>3. /\ Accounted(i) /\ (Exists(i) => Exists(i)') /\ Copies(i) <= Copies(i)'
      /\ Cardinality(Waiting(i)') <= Cardinality(Waiting(i))
      /\ Working(i)' = Working(i) /\ slack'[i] = slack[i]
  BY <1>1, RowsStay, CopiesGrow, SameQueue DEF AccountedInv, Working
<1>4. CASE CreateIncident(i, req[r].fingerprint) /\ GoTo(r, "enqueueAlert", i)
  <2>1. ~Exists(i) /\ Exists(i)'
    BY <1>1, <1>4 DEF CreateIncident, Exists
  <2>2. Pushing(i) = {} /\ Waiting(i) = {} /\ Working(i) = {} /\ slack[i] = 0
    BY <1>3, <2>1 DEF Accounted
  <2>3. Pushing(i)' \subseteq Pushing(i) \cup {r} /\ Waiting(i)' = {} /\ Working(i)' = {}
    BY <1>1, <1>4, <2>2 DEF Pushing, Waiting, Working, GoTo
  <2>4. Cardinality(Pushing(i)') <= 1 /\ Cardinality(Waiting(i)') = 0 /\ Cardinality(Working(i)') = 0
    BY <2>2, <2>3, CardGain, FS_EmptySet
  <2>5. Cardinality(Pushing(i)') \in Nat /\ Copies(i)' >= 1 /\ Copies(i)' \in Nat
    BY CountsFiniteNext
  <2>6. QED
    BY <1>3, <2>1, <2>2, <2>4, <2>5 DEF Accounted, Told
<1>5. CASE ~(CreateIncident(i, req[r].fingerprint) /\ GoTo(r, "enqueueAlert", i))
  <2>1. \/ \E j \in Incident \ {i} : GoTo(r, "enqueueAlert", j)
        \/ GoTo(r, "winner", NoIncident)
        \/ Answered(r)
    BY <1>5 DEF WebhookCreate
  <2>2. Pushing(i)' \subseteq Pushing(i)
    BY <1>1, <2>1 DEF Pushing, GoTo, Answered, ReqState
  <2>3. QED
    BY <1>3, <2>2, NothingAdded
<1>6. QED
  BY <1>4, <1>5

(* The push hands the alert over to the queue, and so does each re-send. *)
LEMMA EnqueueAccounted ==
  ASSUME TypeOK, TypeOK', AccountedInv, UNCHANGED workerVars, NEW r \in Request,
         WebhookEnqueueAlert(r), [Next]_vars
  PROVE  AccountedInv'
<1>1. /\ req \in [Request -> ReqState] /\ UNCHANGED <<job, slack, incidents>>
      /\ req[r].pc = "enqueueAlert" /\ req[r].incident \in Incident
      /\ resent \in [Job -> Nat]
  BY DEF TypeOK, ServerTypeOK, ReqAtHand, WebhookEnqueueAlert, workerVars
<1>2. SUFFICES ASSUME NEW i \in Incident PROVE Accounted(i)'
  BY DEF AccountedInv
<1>3. /\ Accounted(i) /\ (Exists(i) => Exists(i)') /\ Copies(i) <= Copies(i)'
      /\ Working(i)' = Working(i) /\ slack'[i] = slack[i]
  BY <1>1, RowsStay, CopiesGrow DEF AccountedInv, Working
<1>4. Pushing(i)' \subseteq Pushing(i)
  BY <1>1 DEF WebhookEnqueueAlert, Answered, Pushing, ReqState
<1>5. /\ IsFiniteSet(Pushing(i)) /\ Cardinality(Pushing(i)) \in Nat
      /\ Cardinality(Waiting(i)) \in Nat /\ Cardinality(Working(i)) \in Nat
      /\ slack[i] \in Nat /\ Copies(i) \in Nat
  BY CountsFinite
<1>6. /\ Cardinality(Waiting(i)') \in Nat /\ Cardinality(Pushing(i)') \in Nat
      /\ Cardinality(Working(i)') \in Nat /\ Copies(i)' \in Nat
  BY CountsFiniteNext
<1>7. CASE i # req[r].incident \/ UNCHANGED queue
  <2>1. Cardinality(Waiting(i)') <= Cardinality(Waiting(i))
    BY <1>1, <1>7, PushCounts, SameQueue DEF WebhookEnqueueAlert, AnswerLost
  <2>2. QED
    BY <1>3, <1>4, <2>1, NothingAdded
<1>8. CASE i = req[r].incident /\ enqueueJob("alert", i)
  <2>1. Cardinality(Waiting(i)') <= Cardinality(Waiting(i)) + 1
    BY <1>8, PushCounts
  <2>2. r \in Pushing(i) /\ Exists(i) /\ Exists(i)'
    BY <1>1, <1>3, <1>8 DEF Pushing, Accounted
  <2>3. CASE Answered(r)
    <3>1. Pushing(i)' \subseteq Pushing(i) \ {r}
      BY <1>1, <1>4, <2>3 DEF Pushing, Answered, ReqState
    <3>2. Cardinality(Pushing(i)') + 1 <= Cardinality(Pushing(i))
      BY <1>5, <2>2, <3>1, CardLoss
    <3>3. QED
      BY <1>3, <1>5, <1>6, <2>1, <2>2, <3>2 DEF Accounted, Told
  <2>4. CASE AnswerLost("alert", i)
    <3>1. Copies(i)' = Copies(i) + 1
      BY <1>1, <2>4, JobType DEF AnswerLost, Copies
    <3>2. Cardinality(Pushing(i)') <= Cardinality(Pushing(i))
      BY <1>4, <1>5, FS_Subset
    <3>3. QED
      BY <1>3, <1>5, <1>6, <2>1, <2>2, <3>1, <3>2 DEF Accounted, Told
  <2>5. QED
    BY <1>8, <2>3, <2>4 DEF WebhookEnqueueAlert
<1>9. QED
  BY <1>7, <1>8 DEF WebhookEnqueueAlert, AnswerLost

(* No other step of the server makes or moves an alert. *)
LEMMA ServerAccounted ==
  ASSUME TypeOK, TypeOK', AccountedInv, UNCHANGED workerVars, ServerNext, [Next]_vars
  PROVE  AccountedInv'
<1>1. UNCHANGED <<job, slack>> /\ req \in [Request -> ReqState]
  BY DEF workerVars, TypeOK, ServerTypeOK
<1> DEFINE Quiet == \A i \in Incident : Cardinality(Waiting(i)') <= Cardinality(Waiting(i))
           NoPush == \A i \in Incident : Pushing(i)' \subseteq Pushing(i)
<1>2. ASSUME Quiet, NoPush PROVE AccountedInv'
  <2>1. \A i \in Incident : /\ Accounted(i) /\ (Exists(i) => Exists(i)') /\ Copies(i) <= Copies(i)'
                            /\ slack'[i] = slack[i] /\ Working(i)' \subseteq Working(i)
    BY <1>1, RowsStay, CopiesGrow DEF AccountedInv, Working
  <2>2. QED
    BY <1>2, <2>1, NothingAdded DEF AccountedInv
<1>3. UNCHANGED queue => Quiet
  BY SameQueue
<1>4. UNCHANGED req => NoPush
  BY DEF Pushing
<1>5. ASSUME NEW x \in Incident,
             PushResolved(x) \/ AnswerLost("incident_resolved", x)
      PROVE  Quiet
  BY <1>3, <1>5, PushCounts DEF PushResolved, AnswerLost
<1>6. ASSUME NEW r \in Request, Answered(r) PROVE NoPush
  BY <1>1, <1>6 DEF Answered, Pushing, ReqState
<1>7. ASSUME NEW r \in Request, NEW pc, NEW j, pc # "enqueueAlert", GoTo(r, pc, j) PROVE NoPush
  BY <1>1, <1>7 DEF GoTo, Pushing, ReqState
<1>8. ASSUME NEW r \in Request, WebhookEnqueueResolved(r) PROVE Quiet /\ NoPush
  <2>1. req[r].incident \in Incident
    BY <1>8 DEF TypeOK, ReqAtHand, WebhookEnqueueResolved
  <2>2. Quiet
    BY <1>5, <1>8, <2>1 DEF WebhookEnqueueResolved
  <2>3. NoPush
    BY <1>4, <1>6, <1>8 DEF WebhookEnqueueResolved
  <2>4. QED
    BY <2>2, <2>3
<1>9. ASSUME NEW u \in User, ResolveEnqueue(u) PROVE Quiet /\ NoPush
  <2>1. usr[u].incident \in Incident
    BY <1>9 DEF TypeOK, UsrAtHand, ResolveEnqueue
  <2>2. QED
    BY <1>4, <1>5, <1>9, <2>1 DEF ResolveEnqueue
<1>10. ASSUME NEW r \in Request, NEW f \in Fingerprint, NEW resolved \in BOOLEAN,
              ReceiveWebhook(r, f, resolved)
       PROVE  Quiet /\ NoPush
  <2>1. NoPush
    BY <1>1, <1>10 DEF ReceiveWebhook, Pushing, ReqState
  <2>2. QED
    BY <1>3, <1>10, <2>1 DEF ReceiveWebhook, storeVars
<1> HIDE DEF Quiet, NoPush
<1>11. ASSUME NEW r \in Request, WebhookFind(r) \/ WebhookWinner(r) \/ WebhookFindResolved(r)
                                   \/ WebhookResolve(r)
       PROVE  Quiet /\ NoPush
  BY <1>3, <1>6, <1>7, <1>11 DEF WebhookFind, WebhookWinner, WebhookFindResolved, WebhookResolve,
                                 storeVars
<1>12. ASSUME NEW u \in User, AcknowledgeOnCall(u) \/ UserUpdate(u) \/ AcknowledgeCancel(u)
                                \/ \E op \in UserOp, i \in Incident : UserRequest(u, op, i)
       PROVE  Quiet /\ NoPush
  BY <1>3, <1>4, <1>12 DEF AcknowledgeOnCall, UserUpdate, AcknowledgeCancel, UserRequest, storeVars
<1>13. CASE HandlerDies
  BY <1>2, <1>3, <1>4, <1>6, <1>13 DEF HandlerDies, storeVars
<1>14. CASE \E r \in Request : WebhookStep(r)
  BY <1>2, <1>8, <1>11, <1>14, CreateAccounted, EnqueueAccounted DEF WebhookStep
<1>15. CASE \E u \in User : UserStep(u)
  BY <1>2, <1>9, <1>12, <1>15 DEF UserStep
<1>16. QED
  BY <1>2, <1>10, <1>12, <1>13, <1>14, <1>15 DEF ServerNext

(* What a step does to the job of a replica. *)
LEMMA JobMoves ==
  ASSUME TypeOK, NEW w \in Replica, JobStep(w)
  PROVE  /\ job[w].pc # "idle" /\ \A v \in Replica \ {w} : job'[v] = job[v]
         /\ job'[w].pc \in AlertPc => job[w].pc \in AlertPc /\ job'[w].incident = job[w].incident
         /\ UNCHANGED <<incidents, queue>>
         /\ UNCHANGED slack \/ AlertSlack(w)
<1>1. job \in [Replica -> JobState]
  BY DEF TypeOK, WorkerTypeOK
<1>2. ASSUME NEW pc, JobGoTo(w, pc)
      PROVE  /\ job'[w].pc = pc /\ job'[w].incident = job[w].incident
             /\ \A v \in Replica \ {w} : job'[v] = job[v]
  BY <1>1, <1>2 DEF JobGoTo, JobState
<1>3. ASSUME JobDone(w)
      PROVE  job'[w].pc = "idle" /\ \A v \in Replica \ {w} : job'[v] = job[v]
  BY <1>1, <1>3 DEF JobDone, JobIdle, JobState
<1>4. ASSUME NEW rules, Sending(w, rules)
      PROVE  /\ job'[w].pc \in {"slack", "send"} /\ job'[w].incident = job[w].incident
             /\ \A v \in Replica \ {w} : job'[v] = job[v]
  BY <1>1, <1>4 DEF Sending, JobState
<1>5. CASE AlertLoad(w) \/ AlertGraph(w) \/ AlertSimilar(w) \/ AlertSlack(w)
  BY <1>2, <1>3, <1>5 DEF AlertLoad, AlertGraph, AlertSimilar, AlertSlack, AlertPc, storeVars
<1>6. CASE AlertRules(w) \/ AlertSend(w)
  BY <1>4, <1>6 DEF AlertRules, AlertSend, AlertPc, storeVars
<1>7. CASE ResolvedLoad(w) \/ ResolvedUpsert(w) \/ ResolvedPromote(w)
  BY <1>2, <1>3, <1>7 DEF ResolvedLoad, ResolvedUpsert, ResolvedPromote, AlertPc, storeVars
<1>8. QED
  BY <1>5, <1>6, <1>7 DEF JobStep

(* A job is at one replica and ends with one post. *)
LEMMA JobAccounted ==
  ASSUME TypeOK, TypeOK', AccountedInv, UNCHANGED serverVars, NEW w \in Replica, JobStep(w),
         [Next]_vars
  PROVE  AccountedInv'
<1>1. /\ job[w].pc # "idle" /\ \A v \in Replica \ {w} : job'[v] = job[v]
      /\ job'[w].pc \in AlertPc => job[w].pc \in AlertPc /\ job'[w].incident = job[w].incident
      /\ UNCHANGED <<incidents, queue>>
      /\ UNCHANGED slack \/ AlertSlack(w)
  BY JobMoves
<1>2. SUFFICES ASSUME NEW i \in Incident PROVE Accounted(i)'
  BY DEF AccountedInv
<1>3. /\ Accounted(i) /\ (Exists(i) => Exists(i)') /\ Copies(i) <= Copies(i)'
      /\ Cardinality(Waiting(i)') <= Cardinality(Waiting(i))
      /\ Pushing(i)' = Pushing(i) /\ Working(i)' \subseteq Working(i)
  BY <1>1, RowsStay, CopiesGrow, SameQueue DEF AccountedInv, Working, Pushing, serverVars
<1>4. CASE slack'[i] = slack[i]
  BY <1>3, <1>4, NothingAdded
<1>5. CASE AlertSlack(w) /\ job[w].incident = i
  <2>1. slack'[i] = slack[i] + 1 /\ job'[w].pc = "idle" /\ w \in Working(i)
    BY <1>5 DEF AlertSlack, JobDone, JobIdle, TypeOK, WorkerTypeOK, Working, AlertPc
  <2>2. Working(i)' \subseteq Working(i) \ {w}
    BY <1>3, <2>1 DEF Working, AlertPc
  <2>3. /\ IsFiniteSet(Working(i)) /\ Cardinality(Working(i)) \in Nat
        /\ Cardinality(Pushing(i)) \in Nat /\ Cardinality(Waiting(i)) \in Nat
        /\ slack[i] \in Nat /\ Copies(i) \in Nat
    BY CountsFinite
  <2>4. /\ Cardinality(Working(i)') \in Nat /\ Cardinality(Waiting(i)') \in Nat /\ Copies(i)' \in Nat
    BY CountsFiniteNext
  <2>5. Cardinality(Working(i)') + 1 <= Cardinality(Working(i))
    BY <2>1, <2>2, <2>3, CardLoss
  <2>6. Exists(i)'
    BY <1>3, <2>1 DEF Accounted
  <2>7. QED
    BY <1>3, <2>1, <2>3, <2>4, <2>5, <2>6 DEF Accounted, Told
<1>6. QED
  BY <1>1, <1>4, <1>5 DEF AlertSlack, TypeOK, WorkerTypeOK

(* BLPOP moves a job from the queue to the replica, or into nowhere. *)
LEMMA DequeueAccounted ==
  ASSUME TypeOK, TypeOK', AccountedInv, UNCHANGED serverVars, [Next]_vars,
         JobLost \/ \E w \in Replica : ProcessNextJob(w)
  PROVE  AccountedInv'
<1>1. SUFFICES ASSUME NEW i \in Incident PROVE Accounted(i)'
  BY DEF AccountedInv
<1>2. /\ Accounted(i) /\ (Exists(i) => Exists(i)') /\ Copies(i) <= Copies(i)'
      /\ Pushing(i)' = Pushing(i)
  BY RowsStay, CopiesGrow DEF AccountedInv, Pushing, serverVars
<1>3. CASE JobLost
  <2>1. PICK j \in Job : DequeueAlert(j)
    BY <1>3 DEF JobLost
  <2>2. slack'[i] = slack[i] /\ Working(i)' = Working(i)
    BY <1>3 DEF JobLost, Working, workerVars
  <2>3. QED
    BY <1>2, <2>1, <2>2, PopCounts, NothingAdded
<1>4. ASSUME NEW w \in Replica, ProcessNextJob(w)
      PROVE  Accounted(i)'
  <2>1. PICK j \in Job :
          /\ DequeueAlert(j)
          /\ job' = [job EXCEPT ![w] =
                       [pc |-> IF j.type = "alert" THEN "loadAlert" ELSE "loadResolved",
                        incident |-> j.incident, todo |-> {}]]
    BY <1>4 DEF ProcessNextJob
  <2>2. slack'[i] = slack[i] /\ job \in [Replica -> JobState]
    BY <1>4 DEF ProcessNextJob, TypeOK, WorkerTypeOK
  <2>3. CASE j.type = "alert" /\ j.incident = i
    <3>1. Working(i)' \subseteq Working(i) \cup {w}
      BY <2>1, <2>2 DEF Working
    <3>2. /\ IsFiniteSet(Working(i)) /\ Cardinality(Working(i)) \in Nat
          /\ Cardinality(Pushing(i)) \in Nat /\ Cardinality(Waiting(i)) \in Nat
          /\ IsFiniteSet(Waiting(i)) /\ slack[i] \in Nat /\ Copies(i) \in Nat
      BY CountsFinite
    <3>3. /\ Cardinality(Working(i)') \in Nat /\ Cardinality(Waiting(i)') \in Nat /\ Copies(i)' \in Nat
      BY CountsFiniteNext
    <3>4. /\ Cardinality(Working(i)') <= Cardinality(Working(i)) + 1
          /\ Cardinality(Waiting(i)') + 1 <= Cardinality(Waiting(i))
      BY <2>1, <2>3, <3>1, <3>2, CardGain, PopCounts
    <3>5. Exists(i)'
      <4>1. Waiting(i) # {}
        BY <3>2, <3>3, <3>4, FS_EmptySet
      <4>2. QED
        BY <1>2, <4>1 DEF Accounted
    <3>6. QED
      BY <1>2, <2>2, <3>2, <3>3, <3>4, <3>5 DEF Accounted, Told
  <2>4. CASE ~(j.type = "alert" /\ j.incident = i)
    <3>1. Working(i)' \subseteq Working(i)
      BY <2>1, <2>2, <2>4 DEF Working, AlertPc
    <3>2. QED
      BY <1>2, <2>1, <2>2, <3>1, PopCounts, NothingAdded
  <2>5. QED
    BY <2>3, <2>4
<1>5. QED
  BY <1>3, <1>4

(* fireTeamSlack is called for an incident at most once more than its push *)
(* was re-sent, however often the incident is reopened and resolved, how   *)
(* many webhooks carry it, and whichever handlers and replicas die.        *)
THEOREM TeamToldOnce == Spec => []SlackOncePerIncident
<1>1. Init => AccountedInv
  <2> SUFFICES ASSUME Init, NEW i \in Incident PROVE Accounted(i)
    BY DEF AccountedInv
  <2>1. Pushing(i) = {} /\ Waiting(i) = {} /\ Working(i) = {} /\ slack[i] = 0
    BY DEF Init, StoreInit, ServerInit, WorkerInit, JobIdle, Pushing, Waiting, Working, AlertPc
  <2>2. Copies(i) >= 1 /\ Copies(i) \in Nat
    BY InitTypeOK, CountsFinite
  <2>3. QED
    BY <2>1, <2>2, FS_EmptySet DEF Accounted, Told
<1>2. ASSUME TypeOK, TypeOK', AccountedInv, [Next]_vars
      PROVE  AccountedInv'
  <2>1. ASSUME UNCHANGED <<queue, req, slack>>,
               \A v \in Replica : job'[v] = job[v] \/ job'[v].pc = "idle"
        PROVE  AccountedInv'
    <3>1. \A i \in Incident : /\ Accounted(i) /\ (Exists(i) => Exists(i)') /\ slack'[i] = slack[i]
                              /\ Copies(i) <= Copies(i)'
                              /\ Cardinality(Waiting(i)') <= Cardinality(Waiting(i))
                              /\ Pushing(i)' \subseteq Pushing(i) /\ Working(i)' \subseteq Working(i)
      BY <1>2, <2>1, RowsStay, CopiesGrow, SameQueue DEF AccountedInv, Pushing, Working, AlertPc
    <3>2. QED
      BY <1>2, <3>1, NothingAdded DEF AccountedInv
  <2>2. ASSUME NEW w \in Replica, ReplicaCrash(w), UNCHANGED serverVars
        PROVE  AccountedInv'
    <3>1. /\ \A v \in Replica : job'[v] = job[v] \/ job'[v].pc = "idle"
          /\ UNCHANGED <<queue, req, slack>>
      BY <1>2, <2>2 DEF ReplicaCrash, JobIdle, TypeOK, WorkerTypeOK, storeVars, serverVars
    <3>2. QED
      BY <2>1, <3>1
  <2>3. CASE WorkerNext /\ UNCHANGED serverVars
    BY <1>2, <2>1, <2>2, <2>3, JobAccounted, DequeueAccounted
    DEF WorkerNext, PollClaim, PollStep, PollCheck, PollFire, serverVars
  <2>4. CASE ServerNext /\ UNCHANGED workerVars
    BY <1>2, <2>4, ServerAccounted
  <2>5. QED
    BY <1>2, <2>1, <2>3, <2>4 DEF Next, vars, storeVars, serverVars, workerVars
<1>3. TypeOK /\ AccountedInv => SlackOncePerIncident
  <2> SUFFICES ASSUME TypeOK, AccountedInv, NEW i \in Incident PROVE slack[i] <= Copies(i)
    BY DEF SlackOncePerIncident
  <2>1. QED
    BY CountsFinite DEF AccountedInv, Accounted, Told
<1>4. QED
  BY <1>1, <1>2, <1>3, TypeCorrect, PTL DEF Spec

----------------------------------------------------------------------------
(* Delayed notifications: nothing is sent twice and nothing that was       *)
(* cancelled is sent. The argument is the inductive invariant DelayedInv.  *)

delayedVars == <<pending, poll, fired>>

(* The rows and polls the lemmas below speak of. *)
DelayedType ==
  /\ pending \in [Notification -> PendingRow]
  /\ poll \in [Replica -> PollState]
  /\ fired \in [Notification -> Nat]

LEMMA TypeOKDelayed == TypeOK => DelayedType
  BY DEF TypeOK, StoreTypeOK, WorkerTypeOK, DelayedType

(* Nothing is claimed, sent or cancelled at the start. *)
LEMMA InitDelayed == Init => DelayedInv
<1> SUFFICES ASSUME Init PROVE DelayedInv
  OBVIOUS
<1>1. /\ pending = [n \in Notification |->
                     [incident |-> NoIncident, sent |-> FALSE, cancelled |-> FALSE]]
      /\ poll = [w \in Replica |-> [batch |-> {}, current |-> NoNotification]]
      /\ fired = [n \in Notification |-> 0]
  BY DEF Init, StoreInit, WorkerInit, PollIdle
<1>2. \A w \in Replica, n \in Notification : ~HeldBy(w, n)
  BY <1>1, WorkerAssumption DEF HeldBy
<1>3. QED
  BY <1>1, <1>2 DEF DelayedInv, OneHolder, HeldIsClaimed, SentOnceWhenClaimed,
                    ClaimedOrCancelled, Held

(* Steps that touch no row, poll or delivery keep the invariant. *)
LEMMA DelayedSame ==
  ASSUME DelayedInv, UNCHANGED delayedVars PROVE DelayedInv'
  BY DEF DelayedInv, delayedVars, OneHolder, HeldIsClaimed, SentOnceWhenClaimed,
         ClaimedOrCancelled, Held, HeldBy

(* When holders stay as they are, or let go, and rows and deliveries keep  *)
(* their claims, the invariant is a matter of the rows alone.              *)
LEMMA HoldersShrink ==
  ASSUME DelayedInv,
         \A w \in Replica, n \in Notification : HeldBy(w, n)' => HeldBy(w, n),
         \A w \in Replica : poll'[w].current \notin poll'[w].batch,
         \A n \in Notification : pending[n].sent => pending'[n].sent,
         fired' = fired,
         ClaimedOrCancelled'
  PROVE  DelayedInv'
<1>1. OneHolder'
  BY DEF DelayedInv, OneHolder
<1>2. HeldIsClaimed'
  BY DEF DelayedInv, HeldIsClaimed, Held
<1>3. SentOnceWhenClaimed'
  BY DEF DelayedInv, SentOnceWhenClaimed
<1>4. QED
  BY <1>1, <1>2, <1>3 DEF DelayedInv

(* The acknowledgement cancels only rows that no one has claimed. *)
LEMMA CancelDelayed ==
  ASSUME DelayedType, DelayedInv, NEW i, UNCHANGED <<poll, fired>>,
         CancelPendingNotificationsForIncident(i)
  PROVE  DelayedInv'
<1>1. \A n \in Notification :
        /\ pending'[n].sent = pending[n].sent
        /\ pending'[n].incident = pending[n].incident
        /\ ~(n \in Scheduled /\ pending[n].incident = i)
             => pending'[n].cancelled = pending[n].cancelled
  BY DEF DelayedType, PendingRow, CancelPendingNotificationsForIncident
<1>2. ClaimedOrCancelled'
  BY <1>1 DEF DelayedInv, ClaimedOrCancelled, Scheduled
<1>3. QED
  BY <1>1, <1>2, HoldersShrink DEF HeldBy, DelayedInv, OneHolder

(* A new delayed row is inserted on an unused id, which no one holds. *)
LEMMA QueueDelayed ==
  ASSUME DelayedType, DelayedInv, NEW n \in Notification, NEW i \in Incident,
         UNCHANGED <<poll, fired>>, QueuePendingNotification(n, i)
  PROVE  DelayedInv'
<1>1. /\ pending[n].incident = NoIncident
      /\ pending'[n] = [incident |-> i, sent |-> FALSE, cancelled |-> FALSE]
      /\ \A m \in Notification : m # n => pending'[m] = pending[m]
  BY DEF DelayedType, QueuePendingNotification, Unused
<1>2. ~pending[n].sent
  BY <1>1 DEF DelayedInv, ClaimedOrCancelled
<1>3. ClaimedOrCancelled'
  BY <1>1, StoreAssumption DEF DelayedInv, ClaimedOrCancelled
<1>4. \A m \in Notification : pending[m].sent => pending'[m].sent
  BY <1>1, <1>2
<1>5. QED
  BY <1>3, <1>4, HoldersShrink DEF HeldBy, DelayedInv, OneHolder

(* What Holding does to the holders: only w's rows change. *)
LEMMA HoldingEffect ==
  ASSUME DelayedType, NEW w \in Replica, NEW batch, NEW c, Holding(w, batch, c)
  PROVE  /\ poll'[w].batch = batch /\ poll'[w].current = c
         /\ \A n : \A v \in Replica : v # w => (HeldBy(v, n)' <=> HeldBy(v, n))
         /\ \A n : HeldBy(w, n)' <=> (n \in batch \/ n = c)
         /\ \A v \in Replica : v # w => poll'[v] = poll[v]
<1>1. poll' = [poll EXCEPT ![w] = [batch |-> batch, current |-> c]]
  BY DEF Holding
<1>2. poll'[w] = [batch |-> batch, current |-> c]
      /\ \A v \in Replica : v # w => poll'[v] = poll[v]
  BY <1>1 DEF DelayedType
<1>3. QED
  BY <1>2 DEF HeldBy

(* A claimed batch was scheduled, so neither held nor sent, and one        *)
(* replica takes all of it.                                                *)
LEMMA ClaimDelayed ==
  ASSUME DelayedType, DelayedInv, NEW w \in Replica, NEW batch, PollClaim(w, batch)
  PROVE  DelayedInv'
<1>1. /\ batch \subseteq Notification
      /\ \A n \in batch : ~pending[n].sent /\ ~pending[n].cancelled
                          /\ pending[n].incident # NoIncident
  BY DEF PollClaim, GetDuePendingNotifications, Scheduled
<1>2. \A n \in Notification :
        /\ pending'[n].cancelled = pending[n].cancelled
        /\ pending'[n].incident = pending[n].incident
        /\ pending'[n].sent = (n \in batch \/ pending[n].sent)
  BY DEF PollClaim, GetDuePendingNotifications, DelayedType, PendingRow
<1>3. fired' = fired
  BY DEF PollClaim
<1>4. /\ poll'[w].batch = batch /\ poll'[w].current = NoNotification
      /\ \A n : \A v \in Replica : v # w => (HeldBy(v, n)' <=> HeldBy(v, n))
      /\ \A n : HeldBy(w, n)' <=> (n \in batch \/ n = NoNotification)
      /\ \A v \in Replica : v # w => poll'[v] = poll[v]
  BY HoldingEffect DEF PollClaim
<1>5. \A v \in Replica, n \in batch : ~HeldBy(v, n)
  BY <1>1 DEF DelayedInv, HeldIsClaimed, Held
<1>6. OneHolder'
  BY <1>1, <1>4, <1>5, WorkerAssumption DEF DelayedInv, OneHolder
<1>7. \A n \in batch : fired[n] = 0
  BY <1>1 DEF DelayedInv, SentOnceWhenClaimed
<1>8. \A n \in Notification : Held(n)' => Held(n) \/ n \in batch
  BY <1>4, WorkerAssumption DEF Held
<1>9. HeldIsClaimed'
  BY <1>2, <1>3, <1>7, <1>8 DEF DelayedInv, HeldIsClaimed
<1>10. SentOnceWhenClaimed'
  BY <1>2, <1>3 DEF DelayedInv, SentOnceWhenClaimed
<1>11. ClaimedOrCancelled'
  BY <1>1, <1>2 DEF DelayedInv, ClaimedOrCancelled
<1>12. QED
  BY <1>6, <1>9, <1>10, <1>11 DEF DelayedInv

(* Marking a held row sent again changes nothing. *)
LEMMA MarkHeld ==
  ASSUME DelayedType, DelayedInv, NEW n \in Notification, Held(n),
         MarkPendingNotificationSent(n)
  PROVE  pending' = pending
<1>1. pending[n].sent = TRUE
  BY DEF DelayedInv, HeldIsClaimed, DelayedType, PendingRow
<1>2. pending[n] \in PendingRow
  BY DEF DelayedType
<1>3. [pending[n] EXCEPT !.sent = TRUE] = pending[n]
  BY <1>1, <1>2 DEF PendingRow
<1>4. QED
  BY <1>3 DEF MarkPendingNotificationSent, DelayedType

(* The check moves a row from the batch to the hand, or lets go of it. *)
LEMMA CheckDelayed ==
  ASSUME DelayedType, DelayedInv, NEW w \in Replica, NEW n, PollCheck(w, n)
  PROVE  DelayedInv' /\ pending' = pending
<1>1. n \in poll[w].batch /\ n \in Notification /\ poll[w].current = NoNotification
  BY DEF PollCheck, DelayedType, PollState
<1>2. HeldBy(w, n) /\ Held(n)
  BY <1>1 DEF Held, HeldBy
<1>3. pending' = pending
  BY <1>1, <1>2, MarkHeld DEF PollCheck
<1>4. PICK c \in {n, NoNotification} : Holding(w, poll[w].batch \ {n}, c)
  BY DEF PollCheck
<1>5. /\ poll'[w].batch = poll[w].batch \ {n} /\ poll'[w].current = c
      /\ \A m : \A v \in Replica : v # w => (HeldBy(v, m)' <=> HeldBy(v, m))
      /\ \A m : HeldBy(w, m)' <=> (m \in poll[w].batch \ {n} \/ m = c)
      /\ \A v \in Replica : v # w => poll'[v] = poll[v]
  BY <1>4, HoldingEffect
<1>6. NoNotification \notin poll[w].batch
  BY WorkerAssumption DEF DelayedType, PollState
<1>7. \A v \in Replica, m \in Notification : HeldBy(v, m)' => HeldBy(v, m)
  BY <1>1, <1>5, WorkerAssumption DEF HeldBy
<1>8. \A v \in Replica : poll'[v].current \notin poll'[v].batch
  BY <1>5, <1>6 DEF DelayedInv, OneHolder
<1>9. fired' = fired
  BY DEF PollCheck
<1>10. QED
  BY <1>3, <1>7, <1>8, <1>9, HoldersShrink DEF DelayedInv, ClaimedOrCancelled

(* Firing counts the row in hand, which no one else holds, and drops it. *)
LEMMA FireDelayed ==
  ASSUME DelayedType, DelayedInv, NEW w \in Replica, PollFire(w)
  PROVE  DelayedInv' /\ pending' = pending
<1> DEFINE n == poll[w].current
<1>1. n \in Notification
  BY DEF PollFire, DelayedType, PollState
<1>2. HeldBy(w, n) /\ Held(n)
  BY DEF Held, HeldBy
<1>3. pending' = pending
  BY <1>1, <1>2, MarkHeld DEF PollFire
<1>4. /\ poll'[w].batch = poll[w].batch /\ poll'[w].current = NoNotification
      /\ \A m : \A v \in Replica : v # w => (HeldBy(v, m)' <=> HeldBy(v, m))
      /\ \A m : HeldBy(w, m)' <=> (m \in poll[w].batch \/ m = NoNotification)
      /\ \A v \in Replica : v # w => poll'[v] = poll[v]
  BY HoldingEffect DEF PollFire
<1>5. pending[n].sent /\ fired[n] = 0
  BY <1>1, <1>2 DEF DelayedInv, HeldIsClaimed
<1>6. fired'[n] = 1 /\ \A m \in Notification : m # n => fired'[m] = fired[m]
  BY <1>1, <1>5 DEF PollFire, DelayedType
<1>7. NoNotification \notin poll[w].batch /\ n \notin poll[w].batch
  BY WorkerAssumption DEF DelayedType, PollState, DelayedInv, OneHolder
<1>8. \A v \in Replica, m \in Notification : HeldBy(v, m)' => HeldBy(v, m) /\ m # n
  <2>1. \A v \in Replica : v # w => ~HeldBy(v, n)
    BY <1>1, <1>2 DEF DelayedInv, OneHolder
  <2>2. QED
    BY <1>4, <1>7, <2>1, WorkerAssumption DEF HeldBy
<1>9. OneHolder'
  BY <1>4, <1>7, <1>8 DEF DelayedInv, OneHolder
<1>10. HeldIsClaimed'
  BY <1>3, <1>6, <1>8 DEF DelayedInv, HeldIsClaimed, Held
<1>11. SentOnceWhenClaimed'
  BY <1>3, <1>5, <1>6 DEF DelayedInv, SentOnceWhenClaimed
<1>12. QED
  BY <1>3, <1>9, <1>10, <1>11 DEF DelayedInv, ClaimedOrCancelled

(* A dead replica holds nothing; its rows stay claimed. *)
LEMMA CrashDelayed ==
  ASSUME DelayedType, DelayedInv, NEW w \in Replica, ReplicaCrash(w)
  PROVE  DelayedInv'
<1>1. /\ poll'[w] = [batch |-> {}, current |-> NoNotification]
      /\ \A v \in Replica : v # w => poll'[v] = poll[v]
  BY DEF ReplicaCrash, DelayedType, PollIdle
<1>2. \A v \in Replica, m \in Notification : HeldBy(v, m)' => HeldBy(v, m)
  BY <1>1, WorkerAssumption DEF HeldBy
<1>3. \A v \in Replica : poll'[v].current \notin poll'[v].batch
  BY <1>1 DEF DelayedInv, OneHolder
<1>4. pending' = pending /\ fired' = fired
  BY DEF ReplicaCrash, storeVars
<1>5. QED
  BY <1>2, <1>3, <1>4, HoldersShrink DEF DelayedInv, ClaimedOrCancelled

(* The server touches rows only to cancel them. *)
LEMMA ServerDelayed ==
  ASSUME DelayedType, DelayedInv, UNCHANGED workerVars, ServerNext
  PROVE  DelayedInv'
<1>1. UNCHANGED <<poll, fired>>
  BY DEF workerVars
<1>2. ASSUME NEW u \in User, AcknowledgeCancel(u)
      PROVE  DelayedInv'
  BY <1>1, <1>2, CancelDelayed, DelayedSame DEF AcknowledgeCancel, delayedVars
<1>3. CASE \E r \in Request : WebhookStep(r)
  BY <1>1, <1>3, DelayedSame
  DEF WebhookStep, WebhookFind, WebhookCreate, WebhookWinner, WebhookEnqueueAlert,
      WebhookFindResolved, WebhookResolve, WebhookEnqueueResolved, storeVars, delayedVars
<1>4. ASSUME NEW u \in User, UserStep(u)
      PROVE  DelayedInv'
  BY <1>1, <1>2, <1>4, DelayedSame
  DEF UserStep, AcknowledgeOnCall, UserUpdate, ResolveEnqueue, storeVars, delayedVars
<1>5. QED
  BY <1>1, <1>3, <1>4, DelayedSame
  DEF ServerNext, ReceiveWebhook, UserRequest, HandlerDies, storeVars, delayedVars

(* The worker inserts, claims, checks, fires and crashes. *)
LEMMA WorkerDelayed ==
  ASSUME TypeOK, DelayedType, DelayedInv, WorkerNext
  PROVE  DelayedInv'
<1>1. ASSUME NEW w \in Replica, AlertSend(w)
      PROVE  DelayedInv'
  <2>1. job[w].incident \in Incident
    BY <1>1 DEF AlertSend, TypeOK, JobAtHand
  <2>2. QED
    BY <1>1, <2>1, QueueDelayed, DelayedSame DEF AlertSend, delayedVars
<1>2. ASSUME NEW w \in Replica, JobStep(w)
      PROVE  DelayedInv'
  BY <1>1, <1>2, DelayedSame
  DEF JobStep, AlertLoad, AlertGraph, AlertSimilar, AlertRules, AlertSlack, ResolvedLoad,
      ResolvedUpsert, ResolvedPromote, storeVars, delayedVars
<1>3. ASSUME NEW w \in Replica, ProcessNextJob(w)
      PROVE  DelayedInv'
  BY <1>3, DelayedSame DEF ProcessNextJob, delayedVars
<1>4. CASE JobLost
  BY <1>4, DelayedSame DEF JobLost, delayedVars, workerVars
<1>5. QED
  BY <1>2, <1>3, <1>4, ClaimDelayed, CheckDelayed, FireDelayed, CrashDelayed
  DEF WorkerNext, PollStep

(* DelayedInv is inductive relative to the types. *)
THEOREM DelayedInductive == Spec => []DelayedInv
<1>1. ASSUME TypeOK, DelayedInv, [Next]_vars PROVE DelayedInv'
  <2>1. DelayedType
    BY <1>1, TypeOKDelayed
  <2>2. CASE Next
    BY <1>1, <2>1, <2>2, ServerDelayed, WorkerDelayed DEF Next
  <2>3. CASE UNCHANGED vars
    BY <1>1, <2>3, DelayedSame DEF vars, storeVars, workerVars, delayedVars
  <2>4. QED
    BY <1>1, <2>2, <2>3
<1>2. QED
  BY InitDelayed, TypeCorrect, <1>1, PTL DEF Spec

(* No delayed notification is sent twice and no two replicas hold the same *)
(* row, whatever the number of replicas and whenever they crash.           *)
THEOREM DelayedSentAtMostOnce == Spec => []DelayedAtMostOnce
<1>1. TypeOK /\ DelayedInv => DelayedAtMostOnce
  <2> SUFFICES ASSUME TypeOK, DelayedInv PROVE DelayedAtMostOnce
    OBVIOUS
  <2>1. \A n \in Notification : fired[n] <= 1
    BY DEF DelayedInv, SentOnceWhenClaimed
  <2>2. \A w \in Replica : poll[w].batch \subseteq Notification
    BY DEF TypeOK, WorkerTypeOK, PollState
  <2>3. \A v, w \in Replica : v # w => poll[v].batch \cap poll[w].batch = {}
    BY <2>2 DEF DelayedInv, OneHolder, HeldBy
  <2>4. QED
    BY <2>1, <2>3 DEF DelayedAtMostOnce
<1>2. QED
  BY <1>1, TypeCorrect, DelayedInductive, PTL

(* What an acknowledgement cancelled was not sent and never will be. *)
THEOREM CancelledNeverSent == Spec => []CancelledStaysSilent
<1>1. TypeOK /\ DelayedInv => CancelledStaysSilent
  BY DEF DelayedInv, HeldIsClaimed, SentOnceWhenClaimed, ClaimedOrCancelled,
         CancelledStaysSilent, TypeOK, WorkerTypeOK
<1>2. QED
  BY <1>1, TypeCorrect, DelayedInductive, PTL

----------------------------------------------------------------------------
(* The pipeline implements DeliveryContract: under the mapping Ledger,     *)
(* IsOpen, each of its steps is a step of the contract or a stutter.       *)

(* What the mapping makes of a row. *)
LEMMA FateValue ==
  ASSUME NEW row \in PendingRow, NEW times \in Nat, NEW held \in BOOLEAN
  PROVE  /\ row.incident = NoIncident => Fate(row, times, held) = "none"
         /\ row.incident # NoIncident =>
              /\ times > 0 => Fate(row, times, held) = "delivered"
              /\ times = 0 =>
                   /\ row.cancelled => Fate(row, times, held) = "withdrawn"
                   /\ ~row.cancelled /\ row.sent /\ ~held
                        => Fate(row, times, held) = "dropped"
                   /\ ~row.cancelled /\ (~row.sent \/ held)
                        => Fate(row, times, held) = "scheduled"
  BY DEF Fate, PendingRow

(* The ledger is the fate of each row; it changes only where one of its    *)
(* three arguments does.                                                   *)
LEMMA LedgerAt ==
  /\ Ledger = [n \in Notification |-> Ledger[n]]
  /\ \A n \in Notification : Ledger[n] = Fate(pending[n], fired[n], Held(n))
  BY DEF Ledger

LEMMA LedgerAtNext ==
  /\ Ledger' = [n \in Notification |-> Ledger'[n]]
  /\ \A n \in Notification : Ledger'[n] = Fate(pending'[n], fired'[n], Held(n)')
  BY DEF Ledger

(* The mapped incident status is always a function to Booleans. *)
LEMMA IsOpenType == IsOpen' \in [Notification -> BOOLEAN]
  BY DEF IsOpen

(* Init is an initial state of the contract. *)
LEMMA InitContract == Init => Contract!ContractInit
<1> SUFFICES ASSUME Init PROVE Contract!ContractInit
  OBVIOUS
<1>1. /\ \A n \in Notification : pending[n].incident = NoIncident
      /\ fired = [n \in Notification |-> 0]
  BY DEF Init, StoreInit, WorkerInit
<1>2. pending \in [Notification -> PendingRow]
  BY InitTypeOK DEF TypeOK, StoreTypeOK
<1>3. Ledger = [n \in Notification |-> "none"]
  <2>1. ASSUME NEW n \in Notification PROVE Fate(pending[n], fired[n], Held(n)) = "none"
    <3>1. pending[n] \in PendingRow /\ fired[n] \in Nat /\ Held(n) \in BOOLEAN
      BY <1>1, <1>2 DEF Held
    <3>2. QED
      BY <1>1, <3>1, FateValue
  <2>2. QED
    BY <2>1 DEF Ledger
<1>4. IsOpen = [n \in Notification |-> FALSE]
  BY <1>1 DEF IsOpen
<1>5. QED
  BY <1>1, <1>3, <1>4 DEF Contract!ContractInit

(* The steps of the contract, from what they do to the ledger. *)
LEMMA ContractStutter ==
  ASSUME \A n \in Notification : Ledger'[n] = Ledger[n], fired' = fired
  PROVE  Contract!ContractNext
<1>1. Ledger' = Ledger
  BY LedgerAt, LedgerAtNext
<1>2. QED
  BY <1>1, IsOpenType DEF Contract!ContractNext, Contract!IncidentChanges

LEMMA ContractSettle ==
  ASSUME NEW S \in SUBSET Notification, NEW outcome,
         \A n \in S : Ledger[n] = "scheduled" /\ Ledger'[n] = outcome,
         \A n \in Notification \ S : Ledger'[n] = Ledger[n]
  PROVE  Contract!Settle(S, outcome)
<1>1. Ledger' = [n \in Notification |-> IF n \in S THEN outcome ELSE Ledger[n]]
  BY LedgerAtNext
<1>2. QED
  BY <1>1 DEF Contract!Settle

(* Rows, polls and deliveries, now and after a step, have their types, so  *)
(* FateValue reads the ledger; an unsent row has fate scheduled, or none.  *)
LEMMA LedgerRows ==
  ASSUME DelayedType, NEW n \in Notification
  PROVE  pending[n] \in PendingRow /\ fired[n] \in Nat /\ Held(n) \in BOOLEAN
  BY DEF DelayedType, Held

LEMMA LedgerRowsNext ==
  ASSUME DelayedType', NEW n \in Notification
  PROVE  pending'[n] \in PendingRow /\ fired'[n] \in Nat /\ Held(n)' \in BOOLEAN
  BY DEF DelayedType, Held

(* A row that neither changes itself nor changes its being held keeps its  *)
(* place in the ledger.                                                    *)
LEMMA LedgerKeeps ==
  ASSUME NEW n \in Notification, pending'[n] = pending[n], fired'[n] = fired[n],
         Held(n)' <=> Held(n)
  PROVE  Ledger'[n] = Ledger[n]
<1>1. Held(n)' = Held(n)
  BY DEF Held
<1>2. QED
  BY <1>1, LedgerAt, LedgerAtNext

LEMMA CancelContract ==
  ASSUME DelayedType, DelayedType', DelayedInv, NEW i, UNCHANGED <<poll, fired>>,
         CancelPendingNotificationsForIncident(i)
  PROVE  Contract!ContractNext
<1> DEFINE S == {n \in Scheduled : pending[n].incident = i}
<1>1. S \in SUBSET Notification
  BY DEF Scheduled
<1>2. \A n \in Notification : Held(n)' <=> Held(n)
  BY DEF Held, HeldBy
<1>3. \A n \in Notification \ S : Ledger'[n] = Ledger[n]
  <2>1. \A n \in Notification \ S : pending'[n] = pending[n]
    BY DEF CancelPendingNotificationsForIncident
  <2>2. QED
    BY <1>2, <2>1, LedgerKeeps
<1>4. ASSUME NEW n \in S PROVE Ledger[n] = "scheduled" /\ Ledger'[n] = "withdrawn"
  <2>1. /\ n \in Notification /\ pending[n].incident # NoIncident
        /\ ~pending[n].sent /\ ~pending[n].cancelled
    BY DEF Scheduled
  <2>2. fired[n] = 0 /\ fired'[n] = 0
    BY <2>1 DEF DelayedInv, SentOnceWhenClaimed
  <2>3. pending'[n].cancelled /\ pending'[n].incident # NoIncident
    BY <2>1, LedgerRows DEF CancelPendingNotificationsForIncident, PendingRow
  <2>4. Ledger[n] = "scheduled"
    BY <2>1, <2>2, LedgerRows, LedgerAt, FateValue
  <2>5. Ledger'[n] = "withdrawn"
    BY <2>1, <2>2, <2>3, LedgerRowsNext, LedgerAtNext, FateValue
  <2>6. QED
    BY <2>4, <2>5
<1>5. Contract!Withdraw(S)
  BY <1>1, <1>3, <1>4, ContractSettle DEF Contract!Withdraw
<1>6. QED
  BY <1>1, <1>5, IsOpenType DEF Contract!ContractNext

LEMMA QueueContract ==
  ASSUME DelayedType, DelayedType', DelayedInv, NEW n \in Notification,
         NEW i \in Incident, UNCHANGED <<poll, fired>>, QueuePendingNotification(n, i)
  PROVE  Contract!ContractNext
<1>1. /\ pending[n].incident = NoIncident
      /\ pending'[n] = [incident |-> i, sent |-> FALSE, cancelled |-> FALSE]
      /\ \A m \in Notification : m # n => pending'[m] = pending[m]
  BY DEF DelayedType, QueuePendingNotification, Unused
<1>2. \A m \in Notification : Held(m)' <=> Held(m)
  BY DEF Held, HeldBy
<1>3. \A m \in Notification : m # n => Ledger'[m] = Ledger[m]
  BY <1>1, <1>2, LedgerKeeps
<1>4. Ledger[n] = "none"
  BY <1>1, LedgerRows, LedgerAt, FateValue
<1>5. fired[n] = 0 /\ fired'[n] = 0
  BY <1>1 DEF DelayedInv, SentOnceWhenClaimed, ClaimedOrCancelled
<1>6. Ledger'[n] = "scheduled"
  BY <1>1, <1>5, LedgerRowsNext, LedgerAtNext, FateValue, StoreAssumption
<1>7. Ledger' = [Ledger EXCEPT ![n] = "scheduled"]
  BY <1>3, <1>6, LedgerAt, LedgerAtNext
<1>8. Contract!Schedule(n)
  BY <1>4, <1>7 DEF Contract!Schedule
<1>9. QED
  BY <1>8, IsOpenType DEF Contract!ContractNext

(* A claim is invisible: the rows are now held instead of due. *)
LEMMA ClaimContract ==
  ASSUME DelayedType, DelayedType', DelayedInv, NEW w \in Replica, NEW batch,
         PollClaim(w, batch)
  PROVE  Contract!ContractNext
<1>1. /\ batch \subseteq Notification
      /\ \A n \in batch : ~pending[n].sent /\ ~pending[n].cancelled
                          /\ pending[n].incident # NoIncident
      /\ poll[w] = PollIdle
  BY DEF PollClaim, GetDuePendingNotifications, Scheduled
<1>2. fired' = fired
  BY DEF PollClaim
<1>3. /\ \A n : \A v \in Replica : v # w => (HeldBy(v, n)' <=> HeldBy(v, n))
      /\ \A n : HeldBy(w, n)' <=> (n \in batch \/ n = NoNotification)
  BY HoldingEffect DEF PollClaim
<1>4. \A n \in Notification : ~HeldBy(w, n)
  BY <1>1, WorkerAssumption DEF PollIdle, HeldBy
<1>5. ASSUME NEW n \in Notification, n \notin batch PROVE Ledger'[n] = Ledger[n]
  <2>1. pending'[n] = pending[n]
    BY <1>5 DEF PollClaim, GetDuePendingNotifications
  <2>2. Held(n)' <=> Held(n)
    BY <1>3, <1>4, <1>5, WorkerAssumption DEF Held
  <2>3. QED
    BY <1>2, <2>1, <2>2, LedgerKeeps
<1>6. ASSUME NEW n \in batch PROVE Ledger'[n] = Ledger[n]
  <2>1. n \in Notification /\ fired[n] = 0 /\ fired'[n] = 0
    BY <1>1, <1>2 DEF DelayedInv, SentOnceWhenClaimed
  <2>2. Held(n)'
    BY <1>3 DEF Held
  <2>3. ~pending'[n].cancelled /\ pending'[n].incident # NoIncident
    BY <1>1, <2>1, LedgerRows DEF PollClaim, GetDuePendingNotifications, PendingRow
  <2>4. Ledger[n] = "scheduled"
    BY <1>1, <2>1, LedgerRows, LedgerAt, FateValue
  <2>5. Ledger'[n] = "scheduled"
    BY <2>1, <2>2, <2>3, LedgerRowsNext, LedgerAtNext, FateValue
  <2>6. QED
    BY <2>4, <2>5
<1>7. QED
  BY <1>2, <1>5, <1>6, ContractStutter

(* A held row is still scheduled as far as the contract can tell. *)
LEMMA HeldIsScheduled ==
  ASSUME DelayedType, DelayedInv, NEW n \in Notification, Held(n)
  PROVE  Ledger[n] = "scheduled" /\ pending[n].incident # NoIncident
         /\ pending[n].sent /\ ~pending[n].cancelled /\ fired[n] = 0
<1>1. /\ pending[n].sent /\ fired[n] = 0
      /\ ~pending[n].cancelled /\ pending[n].incident # NoIncident
  BY DEF DelayedInv, HeldIsClaimed, ClaimedOrCancelled
<1>2. QED
  BY <1>1, LedgerRows, LedgerAt, FateValue

(* A held row that its holder lets go of unsent is dropped. *)
LEMMA LetGoIsDropped ==
  ASSUME DelayedType, DelayedInv, DelayedType', NEW n \in Notification, Held(n), ~Held(n)',
         pending'[n] = pending[n], fired'[n] = fired[n]
  PROVE  Ledger[n] = "scheduled" /\ Ledger'[n] = "dropped"
  BY HeldIsScheduled, LedgerRowsNext, LedgerAtNext, FateValue

(* The check is invisible when it takes the row in hand and a drop when it *)
(* finds the incident not open or fails.                                   *)
LEMMA CheckContract ==
  ASSUME DelayedType, DelayedType', DelayedInv, NEW w \in Replica, NEW n, PollCheck(w, n)
  PROVE  Contract!ContractNext
<1>1. n \in poll[w].batch /\ n \in Notification /\ poll[w].current = NoNotification
  BY DEF PollCheck, DelayedType, PollState
<1>2. pending' = pending /\ fired' = fired
  BY CheckDelayed DEF PollCheck
<1>3. HeldBy(w, n) /\ Held(n)
  BY <1>1 DEF Held, HeldBy
<1>4. CASE Holding(w, poll[w].batch \ {n}, n)
  <2>1. /\ \A m : \A v \in Replica : v # w => (HeldBy(v, m)' <=> HeldBy(v, m))
        /\ \A m : HeldBy(w, m)' <=> (m \in poll[w].batch \ {n} \/ m = n)
    BY <1>4, HoldingEffect
  <2>2. \A v \in Replica, m \in Notification : HeldBy(v, m)' <=> HeldBy(v, m)
    BY <1>1, <2>1, WorkerAssumption DEF HeldBy
  <2>3. \A m \in Notification : Held(m)' <=> Held(m)
    BY <2>2 DEF Held
  <2>4. QED
    BY <1>2, <2>3, LedgerKeeps, ContractStutter
<1>5. CASE /\ Holding(w, poll[w].batch \ {n}, NoNotification)
           /\ \/ incidents[pending[n].incident].status # "open"
              \/ Faults \cap {"db", "member"} # {}
  <2>1. /\ \A m : \A v \in Replica : v # w => (HeldBy(v, m)' <=> HeldBy(v, m))
        /\ \A m : HeldBy(w, m)' <=> (m \in poll[w].batch \ {n} \/ m = NoNotification)
    BY <1>5, HoldingEffect
  <2>2. \A v \in Replica, m \in Notification :
          m # n => (HeldBy(v, m)' <=> HeldBy(v, m))
    BY <1>1, <2>1, WorkerAssumption DEF HeldBy
  <2>3. \A m \in Notification \ {n} : Ledger'[m] = Ledger[m]
    <3>1. \A m \in Notification \ {n} : Held(m)' <=> Held(m)
      BY <2>2 DEF Held
    <3>2. QED
      BY <1>2, <3>1, LedgerKeeps
  <2>4. ~Held(n)'
    <3>1. \A v \in Replica : v # w => ~HeldBy(v, n)
      BY <1>1, <1>3 DEF DelayedInv, OneHolder
    <3>2. QED
      BY <1>1, <2>1, <3>1, WorkerAssumption DEF Held
  <2>5. Ledger[n] = "scheduled" /\ Ledger'[n] = "dropped"
    BY <1>1, <1>2, <1>3, <2>4, LetGoIsDropped
  <2>6. Contract!Settle({n}, "dropped")
    BY <1>1, <2>3, <2>5, ContractSettle
  <2>7. Lossy \/ ~IsOpen[n]
    BY <1>1, <1>5 DEF Lossy, IsOpen
  <2>8. Contract!Drop({n})
    BY <1>2, <2>6, <2>7 DEF Contract!Drop
  <2>9. QED
    BY <1>1, <2>8, IsOpenType DEF Contract!ContractNext
<1>6. QED
  BY <1>4, <1>5 DEF PollCheck

(* Firing delivers the row in hand. *)
LEMMA FireContract ==
  ASSUME DelayedType, DelayedType', DelayedInv, NEW w \in Replica, PollFire(w)
  PROVE  Contract!ContractNext
<1> DEFINE n == poll[w].current
<1>1. n \in Notification
  BY DEF PollFire, DelayedType, PollState
<1>2. HeldBy(w, n) /\ Held(n)
  BY DEF Held, HeldBy
<1>3. pending' = pending
  BY FireDelayed
<1>4. /\ \A m : \A v \in Replica : v # w => (HeldBy(v, m)' <=> HeldBy(v, m))
      /\ \A m : HeldBy(w, m)' <=> (m \in poll[w].batch \/ m = NoNotification)
  BY HoldingEffect DEF PollFire
<1>5. fired' = [fired EXCEPT ![n] = @ + 1]
  BY DEF PollFire
<1>6. \A m \in Notification \ {n} : Ledger'[m] = Ledger[m]
  <2>1. \A v \in Replica, m \in Notification :
          m # n => (HeldBy(v, m)' <=> HeldBy(v, m))
    BY <1>4, WorkerAssumption DEF HeldBy
  <2>2. \A m \in Notification \ {n} : Held(m)' <=> Held(m)
    BY <2>1 DEF Held
  <2>3. \A m \in Notification \ {n} : fired'[m] = fired[m]
    BY <1>5 DEF DelayedType
  <2>4. QED
    BY <1>3, <2>2, <2>3, LedgerKeeps
<1>7. Ledger[n] = "scheduled" /\ pending[n].incident # NoIncident /\ fired[n] = 0
  BY <1>1, <1>2, HeldIsScheduled
<1>8. fired'[n] = 1
  BY <1>1, <1>5, <1>7 DEF DelayedType
<1>9. Ledger'[n] = "delivered"
  BY <1>1, <1>3, <1>7, <1>8, LedgerRowsNext, LedgerAtNext, FateValue
<1>10. Contract!Settle({n}, "delivered")
  BY <1>1, <1>6, <1>7, <1>9, ContractSettle
<1>11. Contract!Deliver(n)
  BY <1>5, <1>10 DEF Contract!Deliver
<1>12. QED
  BY <1>1, <1>11, IsOpenType DEF Contract!ContractNext

(* A crash drops every row the replica held. *)
LEMMA CrashContract ==
  ASSUME DelayedType, DelayedType', DelayedInv, NEW w \in Replica, ReplicaCrash(w)
  PROVE  Contract!ContractNext
<1> DEFINE S == {n \in Notification : HeldBy(w, n)}
<1>1. /\ poll'[w] = [batch |-> {}, current |-> NoNotification]
      /\ \A v \in Replica : v # w => poll'[v] = poll[v]
  BY DEF ReplicaCrash, DelayedType, PollIdle
<1>2. pending' = pending /\ fired' = fired
  BY DEF ReplicaCrash, storeVars
<1>3. /\ \A n : \A v \in Replica : v # w => (HeldBy(v, n)' <=> HeldBy(v, n))
      /\ \A n \in Notification : ~HeldBy(w, n)'
  BY <1>1, WorkerAssumption DEF HeldBy
<1>4. \A n \in Notification \ S : Ledger'[n] = Ledger[n]
  <2>1. \A n \in Notification \ S : Held(n)' <=> Held(n)
    BY <1>3 DEF Held
  <2>2. QED
    BY <1>2, <2>1, LedgerKeeps
<1>5. ASSUME NEW n \in S PROVE Ledger[n] = "scheduled" /\ Ledger'[n] = "dropped"
  <2>1. \A v \in Replica : v # w => ~HeldBy(v, n)
    BY DEF DelayedInv, OneHolder
  <2>2. Held(n) /\ ~Held(n)'
    BY <1>3, <2>1 DEF Held
  <2>3. QED
    BY <1>2, <2>2, LetGoIsDropped
<1>6. Contract!Settle(S, "dropped")
  BY <1>4, <1>5, ContractSettle
<1>7. Contract!Drop(S)
  BY <1>2, <1>6 DEF Contract!Drop, ReplicaCrash, Lossy
<1>8. QED
  BY <1>7, IsOpenType DEF Contract!ContractNext

(* A step that leaves rows, polls and deliveries alone. *)
LEMMA SameContract ==
  ASSUME UNCHANGED delayedVars PROVE Contract!ContractNext
<1>1. \A n \in Notification : Held(n)' <=> Held(n)
  BY DEF Held, HeldBy, delayedVars
<1>2. QED
  BY <1>1, LedgerKeeps, ContractStutter DEF delayedVars

LEMMA ServerContract ==
  ASSUME DelayedType, DelayedType', DelayedInv, UNCHANGED workerVars, ServerNext
  PROVE  Contract!ContractNext
<1>1. UNCHANGED <<poll, fired>>
  BY DEF workerVars
<1>2. ASSUME NEW u \in User, AcknowledgeCancel(u)
      PROVE  Contract!ContractNext
  BY <1>1, <1>2, CancelContract, SameContract DEF AcknowledgeCancel, delayedVars
<1>3. CASE \E r \in Request : WebhookStep(r)
  BY <1>1, <1>3, SameContract
  DEF WebhookStep, WebhookFind, WebhookCreate, WebhookWinner, WebhookEnqueueAlert,
      WebhookFindResolved, WebhookResolve, WebhookEnqueueResolved, storeVars, delayedVars
<1>4. ASSUME NEW u \in User, UserStep(u)
      PROVE  Contract!ContractNext
  BY <1>1, <1>2, <1>4, SameContract
  DEF UserStep, AcknowledgeOnCall, UserUpdate, ResolveEnqueue, storeVars, delayedVars
<1>5. QED
  BY <1>1, <1>3, <1>4, SameContract
  DEF ServerNext, ReceiveWebhook, UserRequest, HandlerDies, storeVars, delayedVars

LEMMA WorkerContract ==
  ASSUME TypeOK, DelayedType, DelayedType', DelayedInv, WorkerNext
  PROVE  Contract!ContractNext
<1>1. ASSUME NEW w \in Replica, AlertSend(w)
      PROVE  Contract!ContractNext
  <2>1. job[w].incident \in Incident
    BY <1>1 DEF AlertSend, TypeOK, JobAtHand
  <2>2. QED
    BY <1>1, <2>1, QueueContract, SameContract DEF AlertSend, delayedVars
<1>2. ASSUME NEW w \in Replica, JobStep(w)
      PROVE  Contract!ContractNext
  BY <1>1, <1>2, SameContract
  DEF JobStep, AlertLoad, AlertGraph, AlertSimilar, AlertRules, AlertSlack, ResolvedLoad,
      ResolvedUpsert, ResolvedPromote, storeVars, delayedVars
<1>3. ASSUME NEW w \in Replica, ProcessNextJob(w)
      PROVE  Contract!ContractNext
  BY <1>3, SameContract DEF ProcessNextJob, delayedVars
<1>4. CASE JobLost
  BY <1>4, SameContract DEF JobLost, delayedVars, workerVars
<1>5. QED
  BY <1>2, <1>3, <1>4, ClaimContract, CheckContract, FireContract, CrashContract
  DEF WorkerNext, PollStep

(* The pipeline implements the delivery contract for every number of       *)
(* requests, users and replicas and every set of faults: a delayed         *)
(* notification ends once and for good, delivered, withdrawn or dropped,   *)
(* and without faults it is dropped only while its incident is not open.   *)
THEOREM PipelineImplementsContract == Spec => ImplementsContract
<1>1. ASSUME TypeOK, TypeOK', DelayedInv, [Next]_vars
      PROVE  [Contract!ContractNext]_(Contract!contractVars)
  <2>1. DelayedType /\ DelayedType'
    BY <1>1 DEF TypeOK, StoreTypeOK, WorkerTypeOK, DelayedType
  <2>2. CASE Next
    BY <1>1, <2>1, <2>2, ServerContract, WorkerContract DEF Next
  <2>3. CASE UNCHANGED vars
    BY <2>3, SameContract DEF vars, storeVars, workerVars, delayedVars
  <2>4. QED
    BY <1>1, <2>2, <2>3
<1>2. QED
  BY InitContract, TypeCorrect, DelayedInductive, <1>1, PTL
  DEF Spec, ImplementsContract, Contract!ContractSpec
============================================================================

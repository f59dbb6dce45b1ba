------------------------------- MODULE Server -------------------------------
(***************************************************************************)
(* The HTTP handlers of cmd/server that change an incident: the webhook    *)
(* that receives alerts and the four user operations. A handler is a       *)
(* process that issues one statement per step; any number of replicas and  *)
(* connections is covered by the slots of Request and User.                *)
(***************************************************************************)
EXTENDS IncidentStore

CONSTANTS
  Request,         \* concurrent webhook requests
  User,            \* concurrent user operations
  UserOp,          \* the user operations enabled: subset of AllUserOps
  MaxQueue,        \* bound: a user operation starts only below this length
  MaxResends       \* bound: nothing is re-sent once some job was this often

AllUserOps == {"acknowledge", "resolve", "reopen", "snooze"}

ASSUME ServerAssumption ==
  /\ UserOp \subseteq AllUserOps
  /\ MaxQueue \in Nat /\ MaxResends \in Nat
  /\ IsFiniteSet(Request)

VARIABLES
  req,             \* webhook handlers: what each request is doing
  usr,             \* user-operation handlers
  resolvedOnce,    \* history: incidents that have ever been resolved
  resolvedJobs,    \* history: incidents a resolved job was enqueued for
  resent           \* history: how often the push of a job was re-sent

history == <<resolvedOnce, resolvedJobs, resent>>
serverVars == <<req, usr, history>>

ReqState == [pc : {"idle", "find", "create", "winner", "enqueueAlert",
                   "findResolved", "resolve", "enqueueResolved"},
             fingerprint : Fingerprint,
             incident : Incident \cup {NoIncident}]

UsrState == [pc : {"idle", "oncall", "update", "cancel", "enqueue"},
             op : AllUserOps,
             incident : Incident \cup {NoIncident}]

ServerTypeOK ==
  /\ req \in [Request -> ReqState]
  /\ usr \in [User -> UsrState]
  /\ resolvedOnce \in SUBSET Incident
  /\ resolvedJobs \in SUBSET Incident
  /\ resent \in [Job -> Nat]

ServerInit ==
  /\ \E f \in Fingerprint :
       req = [r \in Request |-> [pc |-> "idle", fingerprint |-> f,
                                 incident |-> NoIncident]]
  /\ usr = [u \in User |-> [pc |-> "idle", op |-> "resolve",
                            incident |-> NoIncident]]
  /\ resolvedOnce = {}
  /\ resolvedJobs = {}
  /\ resent = [j \in Job |-> 0]

NewlyResolved ==
  {i \in Incident : /\ incidents'[i].status = "resolved"
                    /\ incidents[i].status # "resolved"}

(* The handler writes its response and returns. *)
Answered(r) == req' = [req EXCEPT ![r].pc = "idle", ![r].incident = NoIncident]

GoTo(r, pc, i) == req' = [req EXCEPT ![r].pc = pc, ![r].incident = i]

(* The push was carried out and its answer was lost: the client, which     *)
(* ParseURL leaves with its retries, will send it again.                   *)
AnswerLost(t, i) ==
  /\ "redis" \in Faults
  /\ \A j \in Job : resent[j] < MaxResends                          \* bound
  /\ enqueueJob(t, i)
  /\ resent' = [resent EXCEPT ![[type |-> t, incident |-> i]] = @ + 1]

----------------------------------------------------------------------------
(* handleWebhook *)

(* Bound: a firing request starts only if it will find an unused row id. *)
RowLeft ==
  Cardinality({q \in Request : req[q].pc \in {"find", "create"}})
    < Cardinality({i \in Incident : ~Exists(i)})

(* Rate limit, team look-up, secret and body have been accepted; the body  *)
(* parses to a fingerprint and to firing or resolved.                      *)
ReceiveWebhook(r, f, resolved) ==
  /\ req[r].pc = "idle"
  /\ resolved \/ RowLeft                            \* bound on rows
  /\ Len(queue) < MaxQueue
  /\ req' = [req EXCEPT ![r] = [pc |-> IF resolved THEN "findResolved" ELSE "find",
                                fingerprint |-> f, incident |-> NoIncident]]
  /\ UNCHANGED <<storeVars, usr, history>>

(* Application-level dedup; a failed look-up falls through to the INSERT. *)
WebhookFind(r) ==
  /\ req[r].pc = "find"
  /\ \/ \E i \in FindOpenIncidentByFingerprint(req[r].fingerprint) :
          IF i = NoIncident THEN GoTo(r, "create", NoIncident)
                            ELSE Answered(r)
     \/ "db" \in Faults /\ GoTo(r, "create", NoIncident)
  /\ UNCHANGED <<storeVars, usr, history>>

WebhookCreate(r) ==
  /\ req[r].pc = "create"
  /\ \/ \E i \in Incident :
          /\ CreateIncident(i, req[r].fingerprint)
          /\ GoTo(r, "enqueueAlert", i)
     \/ /\ DuplicateIncident(req[r].fingerprint)
        /\ GoTo(r, "winner", NoIncident)
        /\ UNCHANGED incidents
     \/ "db" \in Faults /\ Answered(r) /\ UNCHANGED incidents    \* with a 500
  /\ UNCHANGED <<pending, queue, usr, history>>

(* Mutant: the loser enqueues the incident of the winner, to be sure. *)
WebhookWinner_Enqueues(r) ==
  /\ req[r].pc = "winner"
  /\ \E i \in FindOpenIncidentByFingerprint(req[r].fingerprint) :
       IF i = NoIncident THEN UNCHANGED queue ELSE enqueueJob("alert", i)
  /\ Answered(r)
  /\ UNCHANGED <<incidents, pending, usr, history>>

(* The INSERT lost to the unique index: look up the incident that won and  *)
(* answer with it, or with a 500 when it is no longer active.              *)
WebhookWinner(r) ==
  /\ req[r].pc = "winner"
  /\ Answered(r)
  /\ UNCHANGED <<storeVars, usr, history>>

(* Mutant: the handler answers without the push. *)
WebhookEnqueueAlert_Dropped(r) ==
  /\ req[r].pc = "enqueueAlert"
  /\ Answered(r)
  /\ UNCHANGED <<storeVars, usr, history>>

(* A failed RPUSH is only logged; the request is accepted either way. *)
WebhookEnqueueAlert(r) ==
  /\ req[r].pc = "enqueueAlert"
  /\ \/ /\ \/ enqueueJob("alert", req[r].incident)
           \/ "redis" \in Faults /\ UNCHANGED queue
        /\ Answered(r)
        /\ UNCHANGED resent
     \/ AnswerLost("alert", req[r].incident) /\ UNCHANGED req
  /\ UNCHANGED <<incidents, pending, usr, resolvedOnce, resolvedJobs>>

(* The resolve path reads the incident first; a failed read counts as none *)
WebhookFindResolved(r) ==
  /\ req[r].pc = "findResolved"
  /\ \/ \E i \in FindOpenIncidentByFingerprint(req[r].fingerprint) :
          GoTo(r, "resolve", i)
     \/ "db" \in Faults /\ GoTo(r, "resolve", NoIncident)
  /\ UNCHANGED <<storeVars, usr, history>>

(* ... then resolves whatever is active by fingerprint ... *)
WebhookResolve(r) ==
  /\ req[r].pc = "resolve"
  /\ \/ /\ ResolveIncidentByFingerprint(req[r].fingerprint)
        /\ resolvedOnce' = resolvedOnce \cup NewlyResolved
        /\ IF req[r].incident = NoIncident
           THEN Answered(r)
           ELSE GoTo(r, "enqueueResolved", req[r].incident)
     \/ /\ "db" \in Faults
        /\ Answered(r)
        /\ UNCHANGED <<incidents, resolvedOnce>>
  /\ UNCHANGED <<pending, queue, usr, resolvedJobs, resent>>

PushResolved(i) ==
  /\ \/ /\ enqueueJob("incident_resolved", i)
        /\ resolvedJobs' = resolvedJobs \cup {i}
     \/ "redis" \in Faults /\ UNCHANGED <<queue, resolvedJobs>>
  /\ UNCHANGED resent

(* ... and enqueues the graph job for the incident it read. *)
WebhookEnqueueResolved(r) ==
  /\ req[r].pc = "enqueueResolved"
  /\ \/ PushResolved(req[r].incident) /\ Answered(r)
     \/ AnswerLost("incident_resolved", req[r].incident) /\ UNCHANGED <<req, resolvedJobs>>
  /\ UNCHANGED <<incidents, pending, usr, resolvedOnce>>

----------------------------------------------------------------------------
(* handleAcknowledgeIncident, handleResolveIncident, handleReopenIncident, *)
(* handleSnoozeIncident                                                    *)

UserGoTo(u, pc) == usr' = [usr EXCEPT ![u].pc = pc]

UserDone(u) == usr' = [usr EXCEPT ![u].pc = "idle", ![u].incident = NoIncident]

(* Access checks passed and GetIncident found the row; with a failing      *)
(* database the handler answers 404 here and nothing happens.              *)
UserRequest(u, op, i) ==
  /\ usr[u].pc = "idle"
  /\ Exists(i)
  /\ Len(queue) < MaxQueue
  /\ usr' = [usr EXCEPT
               ![u] = [pc |-> IF op = "acknowledge" THEN "oncall" ELSE "update",
                       op |-> op, incident |-> i]]
  /\ UNCHANGED <<storeVars, req, history>>

(* The acknowledger is whoever is on call; a failed look-up is a 500. *)
AcknowledgeOnCall(u) ==
  /\ usr[u].pc = "oncall"
  /\ \/ UserGoTo(u, "update")
     \/ "db" \in Faults /\ UserDone(u)
  /\ UNCHANGED <<storeVars, req, history>>

(* Mutant: a status the table's readers do not know. *)
StatusAfter_Misspelt(op) ==
  CASE op = "acknowledge" -> "acked"
    [] op = "resolve"     -> "closed"
    [] op = "reopen"      -> "reopened"
    [] op = "snooze"      -> "snooze"

StatusAfter(op) ==
  CASE op = "acknowledge" -> "acknowledged"
    [] op = "resolve"     -> "resolved"
    [] op = "reopen"      -> "open"
    [] op = "snooze"      -> "snoozed"

(* The UPDATE is unconditional in the status it finds: a resolved incident *)
(* can be acknowledged or snoozed again.                                   *)
UserUpdate(u) ==
  LET i == usr[u].incident
      s == StatusAfter(usr[u].op)
  IN /\ usr[u].pc = "update"
     /\ \/ /\ UpdateStatus(i, s)
           /\ resolvedOnce' = resolvedOnce \cup NewlyResolved
           /\ CASE usr[u].op = "acknowledge" -> UserGoTo(u, "cancel")
                [] usr[u].op = "resolve"     -> UserGoTo(u, "enqueue")
                [] OTHER                     -> UserDone(u)
        \/ /\ ~StatusUpdateAllowed(i, s) \/ "db" \in Faults
           /\ UserDone(u)
           /\ UNCHANGED <<incidents, resolvedOnce>>
     /\ UNCHANGED <<pending, queue, req, resolvedJobs, resent>>

(* Only the acknowledge handler cancels; a failure is logged. *)
AcknowledgeCancel(u) ==
  /\ usr[u].pc = "cancel"
  /\ \/ CancelPendingNotificationsForIncident(usr[u].incident)
     \/ "db" \in Faults /\ UNCHANGED pending
  /\ UserDone(u)
  /\ UNCHANGED <<incidents, queue, req, history>>

ResolveEnqueue(u) ==
  /\ usr[u].pc = "enqueue"
  /\ \/ PushResolved(usr[u].incident) /\ UserDone(u)
     \/ AnswerLost("incident_resolved", usr[u].incident) /\ UNCHANGED <<usr, resolvedJobs>>
  /\ UNCHANGED <<incidents, pending, req, resolvedOnce>>

(* A replica dies or the client goes away (every statement runs under      *)
(* r.Context()): the handler stops between two statements.                 *)
HandlerDies ==
  /\ "crash" \in Faults
  /\ \/ /\ \E r \in Request : req[r].pc # "idle" /\ Answered(r)
        /\ UNCHANGED usr
     \/ /\ \E u \in User : usr[u].pc # "idle" /\ UserDone(u)
        /\ UNCHANGED req
  /\ UNCHANGED <<storeVars, history>>

----------------------------------------------------------------------------
WebhookStep(r) ==
  \/ WebhookFind(r)
  \/ WebhookCreate(r)
  \/ WebhookWinner(r)
  \/ WebhookEnqueueAlert(r)
  \/ WebhookFindResolved(r)
  \/ WebhookResolve(r)
  \/ WebhookEnqueueResolved(r)

UserStep(u) ==
  \/ AcknowledgeOnCall(u)
  \/ UserUpdate(u)
  \/ AcknowledgeCancel(u)
  \/ ResolveEnqueue(u)

ServerNext ==
  \/ \E r \in Request, f \in Fingerprint, resolved \in BOOLEAN :
       ReceiveWebhook(r, f, resolved)
  \/ \E r \in Request : WebhookStep(r)
  \/ \E u \in User, op \in UserOp, i \in Incident : UserRequest(u, op, i)
  \/ \E u \in User : UserStep(u)
  \/ HandlerDies
============================================================================

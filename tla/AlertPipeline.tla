--------------------------- MODULE AlertPipeline ---------------------------
(***************************************************************************)
(* Server and worker replicas together, interacting only through the       *)
(* tables and the job list of IncidentStore: the path of an alert from the *)
(* webhook to the last delayed notification and to the knowledge graph.    *)
(***************************************************************************)
EXTENDS Server, Worker

vars == <<storeVars, serverVars, workerVars>>

Init == StoreInit /\ ServerInit /\ WorkerInit

Next ==
  \/ ServerNext /\ UNCHANGED workerVars
  \/ WorkerNext /\ UNCHANGED serverVars

Spec == Init /\ [][Next]_vars

(* Handlers and loops run on; new requests, users and crashes are never    *)
(* owed. A row that is due is claimed by the poll of some replica.         *)
Fairness ==
  /\ \A r \in Request : WF_vars(WebhookStep(r) /\ UNCHANGED workerVars)
  /\ \A u \in User : WF_vars(UserStep(u) /\ UNCHANGED workerVars)
  /\ \A w \in Replica :
       /\ WF_vars(JobStep(w) /\ UNCHANGED serverVars)
       /\ WF_vars(PollStep(w) /\ UNCHANGED serverVars)
       /\ WF_vars(ProcessNextJob(w) /\ UNCHANGED serverVars)
       /\ WF_vars(PollClaim(w, Scheduled) /\ UNCHANGED serverVars)

FairSpec == Spec /\ Fairness

----------------------------------------------------------------------------
(* A handler or job that has got past its first read knows its incident. *)
ReqAtHand == \A r \in Request :
  req[r].pc \in {"enqueueAlert", "enqueueResolved"} => req[r].incident \in Incident
UsrAtHand == \A u \in User : usr[u].pc # "idle" => usr[u].incident \in Incident
JobAtHand == \A w \in Replica : job[w].pc # "idle" => job[w].incident \in Incident

(* Every table, handler and loop keeps its shape: jobs, rows and snapshots *)
(* always name an incident when they are used (nil is never followed).     *)
TypeOK ==
  /\ StoreTypeOK
  /\ ServerTypeOK /\ ReqAtHand /\ UsrAtHand
  /\ WorkerTypeOK /\ JobAtHand

(* Two webhooks, a reopen and an acknowledgement of an old incident can    *)
(* all try to make an incident active at once: a fingerprint never has two *)
(* active incidents (dedup in handleWebhook, the index, every UPDATE).     *)
OneActivePerFingerprint ==
  \A i, j \in Incident :
    /\ incidents[i].status \in ActiveStatus
    /\ incidents[j].status \in ActiveStatus
    /\ incidents[i].fingerprint = incidents[j].fingerprint
    => i = j

(* GetDuePendingNotifications promises "no double-firing": whichever       *)
(* replicas poll, crash and restart, a delayed notification is sent at     *)
(* most once, and never by two replicas that hold the same row.            *)
DelayedAtMostOnce ==
  /\ \A n \in Notification : fired[n] <= 1
  /\ \A v, w \in Replica :
       v # w => poll[v].batch \cap poll[w].batch = {}

HeldBy(w, n) == n \in poll[w].batch \/ n = poll[w].current

Held(n) == \E w \in Replica : HeldBy(w, n)

(* An acknowledgement silences what it cancels: a cancelled notification   *)
(* was not sent, no replica holds it, and it is never sent later.          *)
CancelledStaysSilent ==
  \A n \in Notification :
    pending[n].cancelled => fired[n] = 0 /\ ~pending[n].sent /\ ~Held(n)

(* Why the two properties above hold: a row has one holder, which lets go  *)
(* of it when it sends it; a held row is claimed and unsent; a sent row    *)
(* stays claimed; no row is both claimed and cancelled; and an unused row  *)
(* is neither.                                                             *)
OneHolder ==
  /\ \A v, w \in Replica, n \in Notification : HeldBy(v, n) /\ HeldBy(w, n) => v = w
  /\ \A w \in Replica : poll[w].current \notin poll[w].batch

HeldIsClaimed ==
  \A n \in Notification : Held(n) => pending[n].sent /\ fired[n] = 0

SentOnceWhenClaimed ==
  \A n \in Notification : fired[n] = 0 \/ (fired[n] = 1 /\ pending[n].sent)

ClaimedOrCancelled ==
  \A n \in Notification :
    /\ ~(pending[n].sent /\ pending[n].cancelled)
    /\ pending[n].incident = NoIncident => ~pending[n].sent /\ ~pending[n].cancelled

DelayedInv ==
  OneHolder /\ HeldIsClaimed /\ SentOnceWhenClaimed /\ ClaimedOrCancelled

(* fireTeamSlack, "one post per incident": only a push that Redis carried  *)
(* out and the client re-sent adds a post. Concurrent webhooks of one      *)
(* alert, reopening, resolving, crashes and failing statements do not.     *)
Copies(i) == 1 + resent[[type |-> "alert", incident |-> i]]

SlackOncePerIncident == \A i \in Incident : slack[i] <= Copies(i)

(* The contamination guarantee of the graph schema: the worker makes a     *)
(* node permanent only for an incident that has been resolved.             *)
PermanentOnlyAfterResolve ==
  \A i \in Incident : node[i] = "permanent" => i \in resolvedOnce

(* The delayed notifications of the pipeline, seen through the contract.   *)
Lossy == Faults \cap {"db", "member", "crash"} # {}

Fate(row, times, held) ==
  CASE row.incident = NoIncident -> "none"
    [] row.incident # NoIncident /\ times > 0 -> "delivered"
    [] row.incident # NoIncident /\ times = 0 /\ row.cancelled -> "withdrawn"
    [] OTHER -> IF row.sent /\ ~held THEN "dropped" ELSE "scheduled"

Ledger == [n \in Notification |-> Fate(pending[n], fired[n], Held(n))]

IsOpen == [n \in Notification |->
             /\ pending[n].incident # NoIncident
             /\ incidents[pending[n].incident].status = "open"]

Contract == INSTANCE DeliveryContract
              WITH ledger <- Ledger, delivered <- fired, isOpen <- IsOpen

(* Claiming, checking, firing, cancelling and crashing implement the       *)
(* contract: every step of the pipeline is one of its steps or a stutter.  *)
ImplementsContract == Contract!ContractSpec

(* Without faults every incident reaches the team: a created incident's    *)
(* job is enqueued, taken by a replica and posted (handleWebhook through   *)
(* processAlertJob), whatever users do to the incident meanwhile.          *)
EveryIncidentIsPosted ==
  \A i \in Incident : Exists(i) ~> slack[i] = 1

(* Without faults a scheduled notification is sent, unless it is cancelled *)
(* or its incident was found not open (firePendingNotifications).          *)
DelayedIsSettled ==
  \A n \in Notification :
    n \in Scheduled ~> \/ fired[n] = 1
                      \/ pending[n].cancelled
                      \/ /\ pending[n].sent
                         /\ incidents[pending[n].incident].status # "open"

----------------------------------------------------------------------------
(* What a comment says, and the code does not do.                          *)

ServerIdle ==
  /\ \A r \in Request : req[r].pc = "idle"
  /\ \A u \in User : usr[u].pc = "idle"

(* The graph schema: nodes become permanent "on incident resolve". For     *)
(* that every resolution, by webhook or user, must enqueue the graph job   *)
(* of the incident it resolved.                                            *)
EveryResolveIsQueued ==
  ServerIdle => resolvedOnce \subseteq resolvedJobs
============================================================================

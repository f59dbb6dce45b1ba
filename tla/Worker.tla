------------------------------- MODULE Worker -------------------------------
(***************************************************************************)
(* The job loop and the delayed-notification loop of cmd/worker, several   *)
(* replicas of it. Each replica runs the two loops as separate goroutines; *)
(* a crash ends both. Escalation, the third loop, has its own module.      *)
(***************************************************************************)
EXTENDS IncidentStore

CONSTANTS
  Replica,         \* worker pods
  Rule,            \* notification rules a user can have for "new_alert"
  DelayedRule,     \* the rules whose delay_minutes is not 0
  NoNotification   \* no row at hand

ASSUME WorkerAssumption ==
  /\ DelayedRule \subseteq Rule
  /\ NoNotification \notin Notification
  /\ IsFiniteSet(Replica)

VARIABLES
  job,             \* job loop of each replica
  poll,            \* delayed-notification loop of each replica
  node,            \* status of each incident's node in the knowledge graph
  slack,           \* history: team Slack posts per incident
  fired            \* history: how often each delayed notification was sent

workerVars == <<job, poll, node, slack, fired>>

JobState == [pc : {"idle", "loadAlert", "graph", "similar", "rules", "send", "slack",
                   "loadResolved", "upsert", "promote"},
             incident : Incident \cup {NoIncident},
             todo : SUBSET Rule]

PollState == [batch : SUBSET Notification,
              current : Notification \cup {NoNotification}]

WorkerTypeOK ==
  /\ job \in [Replica -> JobState]
  /\ poll \in [Replica -> PollState]
  /\ node \in [Incident -> {"none", "pending", "permanent"}]
  /\ slack \in [Incident -> Nat]
  /\ fired \in [Notification -> Nat]

JobIdle  == [pc |-> "idle", incident |-> NoIncident, todo |-> {}]
PollIdle == [batch |-> {}, current |-> NoNotification]

WorkerInit ==
  /\ job = [w \in Replica |-> JobIdle]
  /\ poll = [w \in Replica |-> PollIdle]
  /\ node = [i \in Incident |-> "none"]
  /\ slack = [i \in Incident |-> 0]
  /\ fired = [n \in Notification |-> 0]

JobGoTo(w, pc) == job' = [job EXCEPT ![w].pc = pc]
JobDone(w)     == job' = [job EXCEPT ![w] = JobIdle]

(* Mutant: the node is written as permanent from the first alert on. *)
UpsertNode_Permanent(i) == node' = [node EXCEPT ![i] = "permanent"]

(* UpsertNode with status pending never demotes a permanent node. *)
UpsertNode(i) ==
  node' = [node EXCEPT ![i] = IF @ = "permanent" THEN @ ELSE "pending"]

----------------------------------------------------------------------------
(* processNextJob *)

ProcessNextJob(w) ==
  /\ job[w].pc = "idle"
  /\ \E j \in Job :
       /\ DequeueAlert(j)
       /\ job' = [job EXCEPT ![w] =
                    [pc |-> IF j.type = "alert" THEN "loadAlert" ELSE "loadResolved",
                     incident |-> j.incident, todo |-> {}]]
  /\ UNCHANGED <<incidents, pending, poll, node, slack, fired>>

(* BLPOP was carried out and its answer was lost: the client sends it      *)
(* again and gets the next job.                                            *)
JobLost ==
  /\ "redis" \in Faults
  /\ \E w \in Replica : job[w].pc = "idle"
  /\ \E j \in Job : DequeueAlert(j)
  /\ UNCHANGED <<incidents, pending, workerVars>>

(* processAlertJob: GetIncident; a failing read drops the job. *)
AlertLoad(w) ==
  /\ job[w].pc = "loadAlert"
  /\ \/ JobGoTo(w, "graph")
     \/ "db" \in Faults /\ JobDone(w)
  /\ UNCHANGED <<storeVars, poll, node, slack, fired>>

(* writePendingIncidentToGraph, which never blocks the alert. *)
AlertGraph(w) ==
  /\ job[w].pc = "graph"
  /\ \/ UpsertNode(job[w].incident)
     \/ "graph" \in Faults /\ UNCHANGED node
  /\ JobGoTo(w, "similar")
  /\ UNCHANGED <<storeVars, poll, slack, fired>>

(* Minutes later, with the context collected and the analysis made,        *)
(* findSimilarIncidentForNotification writes the node again. The on-call   *)
(* member was looked up before; none skips the personal notifications.     *)
AlertSimilar(w) ==
  /\ job[w].pc = "similar"
  /\ \/ UpsertNode(job[w].incident)
     \/ "graph" \in Faults /\ UNCHANGED node
  /\ \/ JobGoTo(w, "rules")
     \/ JobGoTo(w, "slack")
  /\ UNCHANGED <<storeVars, poll, slack, fired>>

(* The rules still to be carried out; after the last one, the team post. *)
Sending(w, rules) ==
  job' = [job EXCEPT ![w] = [pc |-> IF rules = {} THEN "slack" ELSE "send",
                             incident |-> job[w].incident, todo |-> rules]]

(* sendNotifications reads the user's enabled rules, whatever they are     *)
(* now; with none, or when the read fails, every channel fires at once.    *)
AlertRules(w) ==
  /\ job[w].pc = "rules"
  /\ \E rules \in SUBSET Rule : Sending(w, rules)
  /\ UNCHANGED <<storeVars, poll, node, slack, fired>>

(* One rule: fire now, or insert a delayed row. Rules come ordered by      *)
(* delay. A failed insert is only logged.                                  *)
AlertSend(w) ==
  /\ job[w].pc = "send"
  /\ \E rule \in job[w].todo :
       /\ rule \in DelayedRule => job[w].todo \subseteq DelayedRule
       /\ Sending(w, job[w].todo \ {rule})
       /\ \/ /\ rule \in DelayedRule
             /\ \E n \in Notification : QueuePendingNotification(n, job[w].incident)
          \/ /\ rule \notin DelayedRule \/ "db" \in Faults
             /\ UNCHANGED pending
  /\ UNCHANGED <<incidents, queue, poll, node, slack, fired>>

(* fireTeamSlack, and the job is finished. *)
AlertSlack(w) ==
  /\ job[w].pc = "slack"
  /\ slack' = [slack EXCEPT ![job[w].incident] = @ + 1]
  /\ JobDone(w)
  /\ UNCHANGED <<storeVars, poll, node, fired>>

(* processResolvedIncidentJob: skipped unless still resolved right now. *)
ResolvedLoad(w) ==
  /\ job[w].pc = "loadResolved"
  /\ \/ /\ incidents[job[w].incident].status = "resolved"
        /\ JobGoTo(w, "upsert")
     \/ /\ incidents[job[w].incident].status # "resolved" \/ "db" \in Faults
        /\ JobDone(w)
  /\ UNCHANGED <<storeVars, poll, node, slack, fired>>

(* persistResolvedIncidentNode: upsert, then promote; each may fail. *)
ResolvedUpsert(w) ==
  /\ job[w].pc = "upsert"
  /\ \/ UpsertNode(job[w].incident) /\ JobGoTo(w, "promote")
     \/ "graph" \in Faults /\ JobDone(w) /\ UNCHANGED node
  /\ UNCHANGED <<storeVars, poll, slack, fired>>

ResolvedPromote(w) ==
  /\ job[w].pc = "promote"
  /\ \/ node' = [node EXCEPT ![job[w].incident] = "permanent"]
     \/ "graph" \in Faults /\ UNCHANGED node
  /\ JobDone(w)
  /\ UNCHANGED <<storeVars, poll, slack, fired>>

----------------------------------------------------------------------------
(* firePendingNotifications *)

(* The rows a replica has claimed and the one it is about to send. *)
Holding(w, batch, n) ==
  poll' = [poll EXCEPT ![w] = [batch |-> batch, current |-> n]]

PollClaim(w, batch) ==
  /\ poll[w] = PollIdle
  /\ GetDuePendingNotifications(batch)
  /\ Holding(w, batch, NoNotification)
  /\ UNCHANGED <<incidents, queue, job, node, slack, fired>>

(* Mutant: the test for a status other than open is inverted. *)
PollCheck_Inverted(w, n) ==
  /\ poll[w].current = NoNotification
  /\ n \in poll[w].batch
  /\ \/ /\ incidents[pending[n].incident].status # "open"
        /\ Holding(w, poll[w].batch \ {n}, n)
        /\ UNCHANGED pending
     \/ /\ incidents[pending[n].incident].status = "open"
        /\ Holding(w, poll[w].batch \ {n}, NoNotification)
        /\ MarkPendingNotificationSent(n)
  /\ UNCHANGED <<incidents, queue, job, node, slack, fired>>

(* Only an incident that reads as open is notified; any other outcome      *)
(* consumes the row. A recipient who is gone consumes it too.              *)
PollCheck(w, n) ==
  /\ poll[w].current = NoNotification
  /\ n \in poll[w].batch
  /\ \/ /\ incidents[pending[n].incident].status = "open"
        /\ Holding(w, poll[w].batch \ {n}, n)
        /\ UNCHANGED pending
     \/ /\ \/ incidents[pending[n].incident].status # "open"
           \/ Faults \cap {"db", "member"} # {}
        /\ Holding(w, poll[w].batch \ {n}, NoNotification)
        /\ MarkPendingNotificationSent(n)
  /\ UNCHANGED <<incidents, queue, job, node, slack, fired>>

(* fireChannel, then MarkPendingNotificationSent. *)
PollFire(w) ==
  /\ poll[w].current # NoNotification
  /\ fired' = [fired EXCEPT ![poll[w].current] = @ + 1]
  /\ MarkPendingNotificationSent(poll[w].current)
  /\ Holding(w, poll[w].batch, NoNotification)
  /\ UNCHANGED <<incidents, queue, job, node, slack>>

----------------------------------------------------------------------------
(* A pod is killed, or stops without waiting for its loops: the jobs and   *)
(* rows it held are gone from the queue and from the due set.              *)
ReplicaCrash(w) ==
  /\ "crash" \in Faults
  /\ job[w] # JobIdle \/ poll[w] # PollIdle
  /\ job' = [job EXCEPT ![w] = JobIdle]
  /\ poll' = [poll EXCEPT ![w] = PollIdle]
  /\ UNCHANGED <<storeVars, node, slack, fired>>

JobStep(w) ==
  \/ AlertLoad(w)
  \/ AlertGraph(w)
  \/ AlertSimilar(w)
  \/ AlertRules(w)
  \/ AlertSend(w)
  \/ AlertSlack(w)
  \/ ResolvedLoad(w)
  \/ ResolvedUpsert(w)
  \/ ResolvedPromote(w)

PollStep(w) ==
  \/ \E n \in poll[w].batch : PollCheck(w, n)
  \/ PollFire(w)

WorkerNext ==
  \/ \E w \in Replica : ProcessNextJob(w)
  \/ JobLost
  \/ \E w \in Replica : JobStep(w)
  \/ \E w \in Replica, batch \in SUBSET Scheduled : PollClaim(w, batch)
  \/ \E w \in Replica : PollStep(w)
  \/ \E w \in Replica : ReplicaCrash(w)
============================================================================

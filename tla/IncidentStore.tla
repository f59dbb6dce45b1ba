--------------------------- MODULE IncidentStore ---------------------------
(***************************************************************************)
(* The durable state every wachd process shares: the incidents and         *)
(* pending_notifications tables of Postgres and the job list of Redis.     *)
(* The operators are the SQL statements and Redis commands the server and  *)
(* the worker issue; each one is atomic, and each constrains only the      *)
(* variable it writes. One team is modelled: the unique index, the         *)
(* look-ups and the updates are all scoped by team_id.                     *)
(***************************************************************************)
EXTENDS Naturals, Sequences, FiniteSets

CONSTANTS
  Incident,        \* ids of incident rows (bounds how many alerts can fire)
  Fingerprint,     \* values of incidentFingerprint: source, title, service
  Notification,    \* ids of pending_notifications rows
  NoIncident,      \* the nil *store.Incident
  Faults           \* what may fail: subset of AllFaults

(* db: a statement fails; redis: a push fails, or the answer to a command  *)
(* is lost; graph: a graph write is skipped because it fails or the team   *)
(* has the graph disabled; member: a notification's recipient no longer    *)
(* exists; crash: a process dies.                                          *)
AllFaults == {"db", "redis", "graph", "member", "crash"}

ASSUME StoreAssumption ==
  /\ NoIncident \notin Incident
  /\ Fingerprint # {}
  /\ Faults \subseteq AllFaults

VARIABLES
  incidents,       \* incidents table: id -> row
  pending,         \* pending_notifications table: id -> row
  queue            \* Redis list wachd:alerts, head first

storeVars == <<incidents, pending, queue>>

ActiveStatus == {"open", "acknowledged", "snoozed"}
Status       == ActiveStatus \cup {"resolved"}

(* "absent" is an id that no INSERT has used yet. *)
IncidentRow == [status : Status \cup {"absent"}, fingerprint : Fingerprint]

(* incident = NoIncident is an id that no INSERT has used yet. sent stands *)
(* for sent_at IS NOT NULL, cancelled for cancelled_at IS NOT NULL.        *)
PendingRow == [incident : Incident \cup {NoIncident},
               sent : BOOLEAN, cancelled : BOOLEAN]

Job == [type : {"alert", "incident_resolved"}, incident : Incident]

StoreTypeOK ==
  /\ incidents \in [Incident -> IncidentRow]
  /\ pending \in [Notification -> PendingRow]
  /\ queue \in Seq(Job)

StoreInit ==
  /\ \E f \in Fingerprint :
       incidents = [i \in Incident |-> [status |-> "absent", fingerprint |-> f]]
  /\ pending = [n \in Notification |->
                 [incident |-> NoIncident, sent |-> FALSE, cancelled |-> FALSE]]
  /\ queue = << >>

----------------------------------------------------------------------------
(* incidents *)

Exists(i) == incidents[i].status # "absent"

ActiveFor(f) ==
  {i \in Incident : /\ incidents[i].status \in ActiveStatus
                    /\ incidents[i].fingerprint = f}

(* idx_incidents_active_fingerprint_unique: a row may carry an active      *)
(* status only if no other active row has its fingerprint.                 *)
IndexAllows_OpenOnly(i, f) ==            \* mutant: WHERE status = 'open'
  {j \in ActiveFor(f) : incidents[j].status = "open"} \subseteq {i}

IndexAllows(i, f) == ActiveFor(f) \subseteq {i}

(* The SELECT orders by fired_at and takes one row; the index leaves at    *)
(* most one to choose from.                                                *)
FindOpenIncidentByFingerprint(f) ==
  IF ActiveFor(f) = {} THEN {NoIncident} ELSE ActiveFor(f)

CreateIncident(i, f) ==
  /\ ~Exists(i)
  /\ IndexAllows(i, f)
  /\ incidents' = [incidents EXCEPT ![i] = [status |-> "open", fingerprint |-> f]]

(* The INSERT of CreateIncident fails with 23505, ErrDuplicateIncident.    *)
DuplicateIncident(f) == ActiveFor(f) # {}

(* UPDATE incidents SET status WHERE id; an UPDATE to an active status     *)
(* that the unique index refuses is an error of the handler.               *)
StatusUpdateAllowed(i, s) ==
  s \in ActiveStatus => IndexAllows(i, incidents[i].fingerprint)

UpdateStatus(i, s) ==
  /\ StatusUpdateAllowed(i, s)
  /\ incidents' = [incidents EXCEPT ![i].status = s]

ResolveIncidentByFingerprint(f) ==
  incidents' = [i \in Incident |->
                  IF i \in ActiveFor(f)
                  THEN [incidents[i] EXCEPT !.status = "resolved"]
                  ELSE incidents[i]]

----------------------------------------------------------------------------
(* pending_notifications *)

Unused == {n \in Notification : pending[n].incident = NoIncident}

Scheduled ==
  {n \in Notification : /\ pending[n].incident # NoIncident
                        /\ ~pending[n].sent
                        /\ ~pending[n].cancelled}

QueuePendingNotification(n, i) ==
  /\ n \in Unused
  /\ pending' = [pending EXCEPT
                   ![n] = [incident |-> i, sent |-> FALSE, cancelled |-> FALSE]]

(* Mutant: the rows are read and left for MarkPendingNotificationSent. *)
GetDuePendingNotifications_NoClaim(batch) ==
  /\ batch # {}
  /\ batch \subseteq Scheduled
  /\ UNCHANGED pending

(* One transaction: SELECT ... FOR UPDATE SKIP LOCKED of due rows, then    *)
(* sent_at = now() for all of them. Which scheduled rows are due, unlocked *)
(* and within LIMIT 100 is the caller's choice of batch.                   *)
GetDuePendingNotifications(batch) ==
  /\ batch # {}
  /\ batch \subseteq Scheduled
  /\ pending' = [n \in Notification |->
                   IF n \in batch THEN [pending[n] EXCEPT !.sent = TRUE]
                                  ELSE pending[n]]

MarkPendingNotificationSent(n) ==
  pending' = [pending EXCEPT ![n].sent = TRUE]

(* Mutant: the UPDATE without sent_at IS NULL. *)
CancelPendingNotificationsForIncident_SentToo(i) ==
  pending' = [n \in Notification |->
                IF pending[n].incident = i
                THEN [pending[n] EXCEPT !.cancelled = TRUE]
                ELSE pending[n]]

CancelPendingNotificationsForIncident(i) ==
  pending' = [n \in Notification |->
                IF n \in Scheduled /\ pending[n].incident = i
                THEN [pending[n] EXCEPT !.cancelled = TRUE]
                ELSE pending[n]]

----------------------------------------------------------------------------
(* Redis *)

(* RPUSH, each time the client sends it *)
enqueueJob(t, i) == queue' = Append(queue, [type |-> t, incident |-> i])

(* BLPOP: the job leaves the list before it is processed. *)
DequeueAlert(job) ==
  /\ queue # << >>
  /\ job = Head(queue)
  /\ queue' = Tail(queue)
============================================================================

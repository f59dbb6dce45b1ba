# wachd: TLA+ specifications and proofs

wachd receives alerts by webhook, turns them into incidents, collects context,
notifies the person on call over several channels, escalates what nobody takes
and keeps a graph of past incidents. This directory models the path of an alert,
from the agent in a cluster and the webhook to the last notification, who is on call,
and who may log in and see which team; checks the models with TLC; and proves the
safety of all of it with TLAPS: every invariant that a run checks is a theorem for every
value of the constants.

## The system

Server and worker replicas share Postgres and Redis and nothing else; agents in customers'
clusters reach the server through its webhook.

| Part | State | Operations | What is hard |
|---|---|---|---|
| Incident store (`internal/store`, `schema.sql`) | tables `incidents`, `pending_notifications`, `escalation_policies`, ... | single SQL statements, one transaction (`GetDuePendingNotifications`) | statements of different processes interleave; a unique index is the last guard of dedup |
| Job queue (`internal/queue`) | Redis list | `RPUSH`, `BLPOP` | a push may fail after the row is committed, or be carried out and sent again; a popped job dies with its worker |
| Webhook intake (`handleWebhook`) | none of its own | find, create, look up the winner, enqueue; find, resolve, enqueue | concurrent alerts of one fingerprint; a read that is stale when used |
| Incident operations (`handleAcknowledge/Resolve/Reopen/SnoozeIncident`) | none of its own | one UPDATE, then cancel or enqueue | unconditional in the status found; race with the worker |
| Worker job loop (`processNextJob`) | the job at hand | alert job, resolved job | minutes long, several replicas, every failure only logged |
| Delayed notifications (`firePendingNotifications`) | the claimed batch | claim, check, send | at most one sending with several pollers and crashes; cancellation against claim |
| Escalation (`runEscalationLoop`) | the rows of a poll | poll, check, compare-and-set, page | stale reads on several replicas, policy arithmetic, a batch limit |
| Knowledge graph (`internal/graph`, `cmd/worker/graph.go`) | nodes and edges, pending or permanent | upsert, promote, delete, similarity | jobs out of order; rows deleted or replaced between a job's read and its INSERT |
| On-call schedules (`internal/oncall`, `schedules.go`) | schedules, overrides | replace, override, withdraw; who is on call at a time | window and turn arithmetic; four readers written separately; a race of first writes |
| Webhook gate (`main.go`) | token bucket per address | parse, fingerprint, allow, clean-up | an address taken from a header, a bucket that is removed and made anew, four dialects told by the types of their fields, a fingerprint joined from them |
| Local accounts (`internal/auth`, `local_users.go`) | users, tokens, policy; sessions in Redis | log in, lock, change, refresh, reset, bootstrap | copies of rows used statements later; a token beside a cookie of somebody else; replicas that start together |
| Single sign-on (`internal/auth`, `store/auth.go`) | providers, mappings, team access | callback, sync, provision, administration | a sync without a transaction, run twice at once |
| Cluster agent (`cmd/agent`) | seen keys, last counts, two stages of channels | list, watch, poll, forward | watches that close, snapshots of different age, full channels, posts that fail |
| Collectors, analysis, senders, licence, settings, web | mostly stateless | outgoing requests, settings | - |

The server calls the store and pushes jobs; workers pop jobs, read and write the
store, and send. Users act through the server. No server or worker calls another, so
every interaction in these models goes through the tables, the sessions and the list.

What makes each part correct:

- intake: a fingerprint has at most one active incident; an accepted alert is posted
  to the team, and once per push of its job;
- delayed notifications: sent at most once, never after they were cancelled, and
  each is settled;
- escalation: a step is paged once, not before its time, not beyond the policy, and
  an overdue incident is escalated;
- graph: by the worker's own doing only resolved incidents become permanent; edges join
  permanent nodes; a draft shows up in no other incident's graph; a saved analysis
  is in the permanent node, unless a job that had none wrote last;
- on call: an override holds however often the schedule is replaced; pager, escalation
  loop, chain and timeline name the same person; windows, turns and order mean what
  they say;
- gate: each source is held to its rate, and only then refused; what a post opens, the
  post that ends the alert closes, for alerts that can be told apart;
- accounts: a password set by somebody else opens nothing but its change (but see below); locks need
  failures; sessions end; a printed password works;
- team access: what all syncs found is held in the end, what none found is not;
- agent: a condition fires once until it recovers (and once more for a stale list of the
  poller), and what lasts is posted, unless its one post failed.

## Modules

| Module | Models |
|---|---|
| `IncidentStore` | the two tables and the Redis list; one operator per statement or command, each constraining only what it writes |
| `Server` | the webhook handler and the four user operations, as processes taking one statement per step |
| `Worker` | the job loop and the delayed-notification loop of each replica, the status of an incident's graph node |
| `AlertPipeline` | server and worker composed over the store; fairness and properties |
| `DeliveryContract` | what delayed notifications promise, with no replica, claim or poll in it |
| `Escalation` | the third loop of the worker with its clock and policy; its own small view of the incident rows |
| `KnowledgeGraph` | nodes and edges of one team, the graph statements of the jobs of several replicas, the admin's endpoints |
| `OnCall` | rotation arithmetic as operators, the tables of schedules and overrides, the endpoints, the readers |
| `WebhookGate` | what comes before `Server`: the client address, the limiter, the dialects and the fingerprint |
| `Accounts` | local users, sessions, tokens, the policy, the bootstrap of the administrator |
| `TeamAccess` | providers, group mappings, `SyncTeamAccess`, the provisioning goroutine |
| `Agent` | the collectors of the cluster agent, its channels, its forwarder and the cluster around it |
| `MC...` | symmetry sets, policies, rotations, routes and alerts used by the runs |
| `PipelineProofs`, `EscalationProofs`, `GraphProofs`, `OnCallProofs`, `WebhookGateProofs`, `AccountsProofs`, `TeamAccessProofs`, `AgentProofs` | theorems, one module per model; `PipelineProofs` is about `AlertPipeline` and its refinement of `DeliveryContract` |

### How the code is represented

*Handlers.* `req[r].pc` and `usr[u].pc` say which statement a handler issues next,
`incident` what its last read returned (the local `existing` or `incident` of the Go
code). Authorisation, parsing and the rate limit (`WebhookGate`) come before the first step, so
`ReceiveWebhook` starts with a fingerprint and the resolved flag, and `UserRequest`
with an existing incident. A failing read in `handleWebhook` falls through to the
INSERT, as in the code; a failing push is ignored. `HandlerDies` covers a server that
stops and a client that goes away: the context of the request is that of all its
statements.

*Jobs.* One step per read or write of shared state: `AlertLoad`, `AlertGraph`,
`AlertSimilar` (the second write of the node, after collection and analysis),
`AlertRules`, `AlertSend` per rule, `AlertSlack`; `ResolvedLoad`, `ResolvedUpsert`,
`ResolvedPromote`. The rules are read as any set of rules, immediate ones first. A job
has left the list before its first step, and `ReplicaCrash` loses it.

*Delayed rows.* `sent` and `cancelled` stand for the two timestamps being set. The
transaction of `GetDuePendingNotifications` is one step, `PollClaim`, over any non-empty
set of scheduled rows: which are due and unlocked is left open, so time needs no clock
here. `PollCheck` and `PollFire` are separate steps because the incident may change
between the read and the send. `fired` counts sends.

*Graph node in the pipeline.* `node[i]` is none, pending or permanent. `UpsertNode` keeps a permanent
node permanent, `PromoteNode` makes it so. The admin's own promotion endpoint is not in
the model: the property is about what the worker does by itself.

*Knowledge graph.* `KnowledgeGraph` has the rows themselves. A row has a key (the
incident, service or commit that type and external id name), a status and whether its
properties hold an analysis; a deleted row is kept as deleted, since its uuid never comes
back, and its key may get a new row. Each SQL statement of a job is a step, the row a
job has promoted and those it is to draw edges to are its locals `node` and `targets`.
An INSERT of an edge whose ends are gone is refused by the foreign keys and logged, so
the job goes on. `FindSimilar` returns any permanent incident nodes up to the limit: the
score is not modelled. `GetSubgraph` is the set of nodes that a walk of at most `Depth` steps
along permanent edges reaches (`Walks`), as the recursive query has it. The alert job writes its node twice, bare when the alert fires
(`WritePending`) and with the analysis before it looks for similar incidents
(`WriteDraft`). A team that disables the graph between two jobs is the fault `graph`.
`handleDeleteGraphService` deletes service nodes it has listed. A resolved job copies
`analysed`, whether the row of the incident had an analysis, when it starts, and writes what it
copied; an alert job writes what its backend answered (`Analyse`), which may be nothing. `overtaken` records the
incidents whose node was last written by a job that had no analysis while one was saved, or whose
alert job ended between its two writes. A resolved job may come for
any incident and any number of times, which covers repeated resolves and reopening.

*Escalation.* A poll reads the oldest `Limit` open incidents that are more than a minute
old, with their steps (`todo`), and works through them in order of age. The policy is
read for each incident, the step is the one of the poll, and the UPDATE compares it.
`firedAt` never changes after the INSERT, so reading it from the row is reading the copy.
Statuses other than open are one value, since the loop tells no more apart. A layer that
nobody covers is passed over (`skip`). `pages` records what was paged.

*On call.* Time is counted in units of which `DayLength` make a day, from a Monday midnight;
window arithmetic is that of minutes in the code, on a smaller circle. `LayeredRotation` and
`WeeklyRotation` are the documents as the code unmarshals them. The stable sort of layers puts
layer `j` at the place that the layers in front of it (`InFront`) leave; `LayersInOrder` compares
the answer with the order itself (`Precedes`). `UpsertSchedule` is an UPDATE and, when it hit no row, an INSERT in a later
step; `raced` records that two requests were between the two. An override is checked,
attached to the schedule that is read, and inserted, in three steps. Readers are operators
of a time, not actions: they change nothing. The escalation loop's `resolveLayerMember` is
here and not in `Escalation`, where coverage is a choice.

*Webhook gate.* A request takes a route of machines; each but the first appends the address
it was called from to the header, and the sender may have written anything into it,
garbage included. `Source` says, without the code's loop, who is to be charged; a header that
does not parse is charged to the peer there as in the code. A bucket is
the tokens at its last use and the time since. `excess` is the leaky-bucket measure of what
was let through. A field of a payload is missing, of another JSON type, or a text; a text is a
sequence of words and bars, so that `incidentFingerprint` can join fields as the code does, with
nothing escaped (the hash and the team are left out: they keep apart what is apart). `Posts` gives
the payloads a sender may make of an alert: the fields of its dialect as they must be, the others
missing, foreign or mistyped, in any letter case. An alert of which only the labels name the service
(`label`) has no `service` in its posts, and an Alertmanager no title, as in
`docs/grafana-alert-setup.md`. `Identity` is what the server makes of an alert; `Recognised` says
that it is nobody else's and has no bar in it.

*Accounts.* A time is what is left of it; the clock is far coarser than a request, so it
stands still while one runs. A request keeps copies of what it read: the lock is computed
from the copied count, the session gets the copied flag, a refresh writes the copied
session. A change of password has a user, from a bearer token, a session token sent as one or
the cookie, and beside it any valid cookie or none, since `BearerOrCookie` does not compare the two;
`crossed` are the sessions refreshed for another user's change. A password is known by who set it. Deleting a user removes the row and the
tokens and leaves the sessions, as in the code.

*Team access.* `SyncTeamAccess` is one step per statement: the grants, an upsert per grant,
the existing rows, a delete per row to be revoked. `asked` is what the syncs since the last
calm found (a set of sets of grants), `disturbed` the identities for which one failed. Whether the
provider comes from the cache is a choice, as is the success of Graph and of discovery.

*Agent.* A loop lists (a snapshot), then takes the changes since from its watch until that
closes, which drops what it had not brought. `seen`, shared by the pod watcher, the node
watcher and the poller, changes under a mutex, so each mark is one step; the events a
pass produced wait in `out` for room in the channel. A channel and the goroutine that
empties it are one queue with one more place. `credit` counts, per key, what the cluster
gave reason to fire, less what fired: one to begin with, one per recovery, and one when a
recovery overtakes a list of `checkPending` that still has the reported pod (`Overtaken`), since
the poller then marks and fires the pod again from that list. A post succeeds (`told`) or fails
(`lost`): the code logs a failure and forgets the event. A deleted pod takes its keys out of `told`;
what it leaves in `seen`, or in a list or watch not worked off, is `lost` to the next pod of the name.

*Faults* is a constant: a statement fails (`db`), a push fails (`redis`), a graph write
is skipped (`graph`), a recipient is gone (`member`), a layer has nobody (`coverage`), a
process dies (`crash`). A statement whose success is reported as a failure is not a case of
its own: the state it leaves is that of a process that died after it. A Redis command is: the
client is made with the options of `ParseURL`, so it sends a command again whose answer was lost.
`AnswerLost` is a push that was carried out and will be sent again, `JobLost` a job popped for
nobody.

*History variables*: `slack`, `fired`, `pages` (what was sent), `resolvedOnce`,
`resolvedJobs`, `resent` (pushes sent again; only a bound reads it); `overtaken` (graph); `excess`,
`firing` (gate); `chosen`, `wrong`, `printed`, `crossed` (accounts);
`asked`, `disturbed` (team access); `told`, `lost`, `credit`, `fires` (agent); `raced` (on call). No guard reads them.

## Runs

Passing:

| Run | Properties | Instance |
|---|---|---|
| `Intake` | `OneActivePerFingerprint`, `SlackOncePerIncident` | 2 webhooks, 1 user (reopen, snooze), 1 worker, 2 rows of one fingerprint, failing database, Redis commands that fail or are sent again |
| `Delivery` | `TypeOK`, `DelayedAtMostOnce`, `CancelledStaysSilent`, `ImplementsContract` | 2 replicas, 2 delayed rows, 1 incident, acknowledge and reopen, database failures, missing recipients, crashes |
| `Progress` | `PermanentOnlyAfterResolve`, `EveryIncidentIsPosted`, `DelayedIsSettled` | 2 replicas, 1 incident, an immediate and a delayed rule, acknowledge, resolve and reopen, graph writes that are skipped and no other fault, fairness |
| `EscalationSafety` | `TypeOK`, `PagedAtMostOnce`, `StepsAreDue`, `EscalationEnds` | 2 replicas, 1 incident, three kinds of policy, one replacement, 7 minutes, all faults |
| `EscalationProgress` | `OverdueIsEscalated` | 2 replicas, 2 incidents, limit 2, a repeating policy, no faults, fairness |
| `Graph` | `TypeOK`, `EdgesJoinPermanent`, `PendingIsAlone`, `PermanentIsDescribed` | 2 replicas, 1 admin, 2 incidents, 1 service, 1 commit, 3 rows, 2 jobs or promotions at a time, failing statements and crashes |
| `Accounts` | `TypeOK`, `ForcedFirstChange`, `LockNeedsFailures`, `SessionEnds`, `PrintedPasswordWorks` | 2 users, 2 requests, 1 session, 1 token, 2 starting servers, limits 0 and 2 |
| `TeamAccess` | `TypeOK`, `SyncAgrees` | 1 identity, 2 groups, 1 team, 2 roles, 1 provider, 2 syncs at once, every fault |
| `Agent` | `TypeOK`, `NoRefire`, `FailureReported` | 1 pod of 2 containers, 1 node, 1 workload, channels of 1, 3 changes, restarts or failed posts, fairness |
| `OnCall` | `TypeOK`, `OverrideHolds`, `TimelineAgrees`, `ChainAgrees`, `WindowsAreArcs`, `TurnsAreFair`, `LayersInOrder` | 2 people, 2 requests, 2 overrides, 4 rotations with the edge cases named in `MCOnCall` |
| `WebhookGate` | `TypeOK`, `RateIsKept`, `IdleIsPruned`, `ResolutionMatches` | 3 addresses, one of them a proxy, 5 routes, 4 headers, 6 alerts in 4 dialects, of which two share an identity and two a fingerprint |

One run shows where the code and what is said about it disagree (TLC finds the property
violated):

| Run | Said | Done |
|---|---|---|
| `StaleResolve` | `schema.sql:444`: nodes become permanent "on incident resolve" | the webhook enqueues the job of the incident it read before the UPDATE; one created in between is resolved without a job |

### Behaviours met on the way

Seen while modelling, in the models where the part is modelled, and without a run of
their own:

- Resolving does not cancel delayed notifications, although `notification_rules.go:213`
  says so; an incident that is reopened before the next poll is notified by them.
- Nothing reads `snoozed_until`; the dialogue (`page.tsx:373`) promises a return.
- A webhook that lost the INSERT is answered with a 500 if the winner is resolved before
  the look-up (`main.go:875-877`).
- Finished escalations stay among the 200 oldest incidents of the query
  (`incidents.go:290`) and can hide younger ones; `OverdueIsEscalated` is checked with no
  more incidents than the limit.
- The provisioning goroutine syncs a member with the mapped group alone
  (`admin_handler.go:905`), which revokes access through other groups until the next login.
  A login that cannot reach Graph revokes all teams (`handler.go:184`).
- Two first PUTs of a schedule can both insert; `docs/oncall.md:122` says "there is always at most
  one schedule per team". `OverrideHolds` leaves that race out by `raced`.
- The timeline takes an override that touches the day at all, the pager the one that covers
  the moment; `TimelineAgrees` is about the days on which these are the same.
- Kubescape findings that appear while the agent is reconnecting are counted by the list
  and never fired (`kubescape/collector.go:170`).
- `listGraphServiceNodes` filters the 200 permanent nodes updated last, so an older service is
  neither listed nor deletable by its endpoint (`graph_services.go:90`).
- A password refresh that races with a logout writes the session back (`session.go:155`).
- A pod that recovers between the list of `checkPending` and its turn in that list is reported
  as pending once more (`k8shealth/collector.go:357`): the recovery clears `seen`, the
  stale copy marks it anew. `NoRefire` counts that case, so nothing else may repeat a report.
- The agent's posts carry no status, so nothing it reports is ever resolved by a post
  (`forwarder.go:67`); a sender has to post the same title when an alert ends.
- A push whose answer is lost is sent again by the Redis client (`redis.go:49` keeps the retries
  of `ParseURL`) and nothing recognises the copy, so the team can get two posts of an incident,
  where `cmd/worker/main.go:439` says "one post per incident". `SlackOncePerIncident` counts the
  copies.
- A resolved job builds the node from the incident as it read it (`cmd/worker/main.go:447`). If
  that was before `updateIncidentAnalysis` (`:425`) and it writes after the alert job, the node has
  no analysis although one is saved (`overtaken`). An alert job without an analysis
  (backend missing or failing) does the same to a node that had one.
- `HandleChangePassword` refreshes the session of the cookie (`handler.go:557`) for the user of the
  bearer token (`middleware.go:164`). A change of one user's password with the cookie of another
  clears the other's forced change (`crossed`).
- `docs/authentication.md:388` says that of several mappings to one team "the highest-privilege role
  wins"; `SyncTeamAccess` upserts the grants in the order of a query without ORDER BY, so the last
  one wins (`store/auth.go:156`, `:188`). `SyncAgrees` leaves the role open for that reason; with the
  highest role demanded, TLC finds the instance of `TeamAccess` to violate it.
- `docs/authentication.md:381` says that mappings without a provider "will not match any login"; the
  query matches those whose provider is `entra` (`store/auth.go:161`).
- A post of the agent that fails is logged and its event forgotten (`forwarder.go:109`), while the
  collector keeps the key: the condition is not reported until it has recovered and come back
  (`lost`). The keys carry the name of a pod, so a pod made anew under the name of one deleted is
  not reported for what the old one had reported.
- The fingerprint joins source, title and service with a bar and escapes nothing
  (`main.go:751`): `a|b` and `c` are `a` and `b|c`. And the service is a top-level field
  (`main.go:813`), while `docs/grafana-alert-setup.md:24-85` and `:143-155` put it into the labels; an
  Alertmanager post has no title either and becomes `Alert`. So alerts of different services do
  collapse into one incident, which the comment at `main.go:746` excludes, and the first that ends
  resolves it. `Recognised` leaves such alerts out.
- A typed field of another JSON type makes a post another dialect's (`main.go:243`, `:293`): a
  Datadog post whose `alert_id` is a string is generic, and as it carries no `status` never resolves.

### Bounds

- `Incident`, `Notification`: rows that can ever be inserted. Two incidents of one
  fingerprint are what dedup, a stale read and a reopened predecessor need; two delayed
  rows are what a batch needs so that a replica sends one and holds another.
- `Request`, `User`, `Replica`: concurrent processes; each slot is used again and again.
  Two of a kind race; the theorems cover any number.
- `MaxQueue` bounds when new requests start, not what running handlers push. `MaxResends`: after one
  push of a job was sent again, none is; one copy is what a second post needs.
- `RowLeft` keeps a firing webhook from starting when no row id would be left for it.
- `MaxTime`, `MaxUpserts`: the clock of `Escalation` stops after 7 (3, 4) minutes and
  one policy change. Delays in the policies are 0 or 1 minute, so two full cycles of the
  repeating policy fit into the safety run. In `EscalationProgress` 3 minutes let a step
  become due in the first cycle and be overdue for ever if it is not taken.
- `NodeId` bounds the graph rows ever inserted; one more than there are keys lets a row be
  deleted and created anew while a job still holds the old id. `RowLeft` of
  `KnowledgeGraph` keeps a delete from using up the last of them. `SimilarLimit` stands
  for 10, and 1 is all two incidents can use; `MaxBusy` 2 jobs or promotions run at a time, which
  is all that overtaking takes; `Depth` 2 reaches every node of such a graph.
- `Limit` stands for 200; `EscalationProgress` has as many incidents as that.
- `Accounts`: the replicas start together before the first request, which is when they can
  race; `MaxWrong` 2 wrong passwords reach the limit of 2.
  `SessionTTL` 2 and `LockoutDuration` 1 let a session outlive a lock and be refreshed with
  time gone.
- `TeamAccess`: two roles, so that a stale upsert of one can be seen; `MaxMappings` 2 gives the team
  two groups with the same role or different ones.
- `Agent`: `MaxChanges` 3 is a failure of each container and a recovery, or a restart or a failed
  post in between. `Found` are the states of the pod that the agent may come to: none, never
  scheduled, healthy, all broken; the others are reached by changes; `MaxStream` 2 lets a closing watch lose changes; `Capacity` 1 makes every send wait.
  Either collector runs alone: they meet in `fanIn` only, whose channels are separate. A pod is
  stuck only when the loops have caught up, as the minutes it takes are longer than that.
- `OnCall`: `MaxOverrides` 2 overlap; one person stays, so that somebody can be on call. Each
  rotation is checked as the stored one; a `PUT` replaces it by `Nights`, or disables it.
- `WebhookGate`: `SmallAlerts` has, beside alerts that are recognised, two that only labels tell
  apart and two that a bar makes one; `SmallStray` is a field missing, mistyped or of a foreign text.
  Without either condition of `Recognised` TLC finds the two collide. `Burst` 2 and `IdleAfter` 1
  keep the ratio that matters (an idle bucket is full
  when it is pruned); the theorems hold for all values with that ratio.

Symmetry is used in the safety runs only; the sets are model values that no definition
tells apart. Deadlock is checked in every run: a handler or loop that gets stuck would
be reported if nothing else could move.

### Fairness

Weak fairness of each handler's next statement, of each replica's job and poll steps, of
taking a job from a non-empty list and of claiming all that is scheduled. The code
justifies it: handlers run to completion in their own goroutines; the job loop blocks in
`BLPOP` and returns to it whatever a job answers; the poll is a ticker whose query takes
every due row up to 100. In `Escalation`: time passes, and each loop goes on. In `Agent`: the
goroutines go on, the API server answers a list and ends every watch (its watches have a
timeout), a post ends after its own. New requests,
user operations, policy changes and crashes are never owed.

## Proofs

Every theorem holds for all values of the constants under the named assumptions, which the
runs evaluate on their instances:

| Assumption | Says |
|---|---|
| `StoreAssumption`, `ServerAssumption`, `WorkerAssumption` | the nil values are no ids; faults and operations are among the known ones |
| `EscalationAssumption` | policies are records of natural numbers with at least one layer |
| `GraphAssumption` | the kinds of graph keys are disjoint |
| `AccountsAssumption` | limits and durations are natural numbers, durations positive; at any time finitely many requests |
| `TeamAccessAssumption` | the nil values are no ids; faults are among the known ones |
| `OnCallAssumption` | a day has a positive length; settings, spans and policies have their types |
| `DocumentAssumption` | rotations are layered or weekly documents with times from 00:00 to 24:00; days, orders and restrictions are arbitrary. The API stores any JSON: what it does with other documents is not modelled |
| `GateAssumption` | routes are not empty; the bar is no word; the names the code gives to sources and titles are words |
| `AlertAssumption` | an alert has a dialect, texts for title and service, and a source of its own exactly if it is of the explicit dialect |
| `LimiterAssumption` | a bucket is full before it is idle enough to be pruned (20 tokens, 600 seconds) |
| `AgentAssumption` | channels have room for one event; a pod has a container; pods and nodes have different keys; clusters are finite |
| `FoundAssumption` | the states a pod may be found in are states of a pod |

| Theorem | Shows |
|---|---|
| `PipelineProofs!TypeCorrect` | `TypeOK`: types, and no handler or job follows a nil incident |
| `PipelineProofs!DelayedInductive` | `DelayedInv` |
| `PipelineProofs!DelayedSentAtMostOnce` | `DelayedAtMostOnce` |
| `PipelineProofs!CancelledNeverSent` | `CancelledStaysSilent` |
| `PipelineProofs!PipelineImplementsContract` | `ImplementsContract` |
| `PipelineProofs!Deduplicated` | `OneActivePerFingerprint` |
| `PipelineProofs!PermanentWasResolved` | `PermanentOnlyAfterResolve` |
| `PipelineProofs!TeamToldOnce` | `SlackOncePerIncident` |
| `EscalationProofs!EscalationTypeCorrect` | `TypeOK` of `Escalation` |
| `EscalationProofs!StepsPagedAtMostOnce` | `PagedAtMostOnce` |
| `EscalationProofs!NoStepIsEarly` | `StepsAreDue` |
| `EscalationProofs!EscalationIsBounded` | `EscalationEnds` |
| `GraphProofs!GraphInductive` | `GraphInv` |
| `GraphProofs!GraphTypeCorrect` | `TypeOK` of `KnowledgeGraph` |
| `GraphProofs!EdgesWellJoined` | `EdgesJoinPermanent` |
| `GraphProofs!PermanentDescribed` | `PermanentIsDescribed` |
| `GraphProofs!DraftsStayAlone` | `PendingIsAlone` |
| `OnCallProofs!CoversAnArc` | a window covers the arc from its start to its end, on a week of any length |
| `OnCallProofs!OnCallInductive` | `OnCallInv` |
| `OnCallProofs!OnCallTypeCorrect` | `TypeOK` of `OnCall` |
| `OnCallProofs!OverridesHold` | `OverrideHolds` |
| `OnCallProofs!WindowsCoverArcs` | `WindowsAreArcs` |
| `OnCallProofs!LayersKeepTheirOrder` | `LayersInOrder` |
| `OnCallProofs!TurnsAreAlwaysFair` | `TurnsAreFair` |
| `OnCallProofs!TimelineTellsTheTruth` | `TimelineAgrees` |
| `OnCallProofs!ChainsAgree` | `ChainAgrees` |
| `WebhookGateProofs!GateInductive` | `GateInv` |
| `WebhookGateProofs!GateTypeCorrect` | `TypeOK` of `WebhookGate` |
| `WebhookGateProofs!RateKept` | `RateIsKept` |
| `WebhookGateProofs!IdlePruned` | `IdleIsPruned` |
| `WebhookGateProofs!ResolutionsMatch` | `ResolutionMatches` |
| `AccountsProofs!AccountsTypeCorrect` | `TypeOK` of `Accounts` |
| `AccountsProofs!AccountsInductive` | `AccountsInv` |
| `AccountsProofs!NobodySkipsTheFirstChange` | `ForcedFirstChange` |
| `AccountsProofs!LocksNeedFailures` | `LockNeedsFailures` |
| `AccountsProofs!SessionsEndInTime` | `SessionEnds` |
| `AccountsProofs!PrintedPasswordsWork` | `PrintedPasswordWorks` |
| `TeamAccessProofs!TeamAccessTypeCorrect` | `TypeOK` of `TeamAccess` |
| `TeamAccessProofs!AccessInductive` | `AccessInv` |
| `TeamAccessProofs!UndisturbedSyncsAgree` | `SyncAgrees` |
| `AgentProofs!AgentTypeCorrect` | `TypeOK` of `Agent` |
| `AgentProofs!LedgersInductive` | `LedgerInv` |
| `AgentProofs!ConditionsAreNotRefired` | `NoRefire` |

The arguments:

- *Delayed notifications.* That `fired` is at most 1 is not inductive: a replica holding a
  row that was already sent would break it. `DelayedInv` adds that a row has one holder
  (`OneHolder`), that a held row is claimed and unsent (`HeldIsClaimed`), that a sent row
  stays claimed (`SentOnceWhenClaimed`) and that no row is both claimed and cancelled
  (`ClaimedOrCancelled`). The claim establishes the first two because it takes unclaimed
  rows only; the cancellation keeps the last because it takes unclaimed rows only. TLC
  has checked `DelayedInv` on the instance of `Delivery`.
- *Refinement.* `Ledger` maps a row to none, scheduled, delivered, withdrawn or dropped.
  A claim maps to a stutter, a send to `Deliver`, a cancellation to `Withdraw`, a check
  that fails and a crash to `Drop`. `DelayedInv` is what makes each of them a step of the
  contract: a held row is scheduled in the ledger.
- *Dedup.* `OneActivePerFingerprint` is inductive with `TypeOK`: the INSERT and every
  UPDATE to an active status pass the unique index, and resolving only removes rows.
- *Told once.* `AccountedInv` counts, for each incident, the places its alert is at: a handler
  about to push it, the jobs in the list, the replicas at work, the posts made. Together they are no
  more than the pushes Redis was asked for, one and those sent again, and none before the row is
  there. A step moves the alert on or loses it; only the INSERT makes it, and a row is inserted
  once; only `AnswerLost` copies it, and is counted.
- *Graph node.* `PermanentInv` adds that a job past its status check works on an incident that
  has been resolved, which a reopen in between does not undo.
- *Graph edges.* A job draws an edge with what it read before. `GraphInv` adds that the
  rows it has promoted or read are permanent or deleted (`ReadsStaySettled`), and that
  service and deployment rows never are pending (`KeysSettle`). A settled row that an
  INSERT accepts exists, so it is permanent. No statement unsettles a row: the upsert
  keeps a permanent status, and a new row under an old key has a new id. TLC has checked
  `GraphInv` on the instance of `Graph`.
- *Described nodes.* A bare row of an incident whose analysis was saved, permanent or not, has an
  alert job between its two writes or is `overtaken` (`BareIsDrafted`). A job that writes with an
  analysis takes the incident out of `overtaken`, one that writes without puts it in, and a key has one row
  (`OneRowPerKey`), so the last writer decides. A job that has no analysis at hand when one is saved
  is therefore the only way to lose it.
- *Overrides.* `OnCallInv` adds that a request about to insert found the table empty, unless
  `raced`. So there is one row, every override refers to it, and the newest override that
  covers a time is the one the query returns.
- *Drafts.* The last step of a walk ends at a permanent node and the first leaves by a permanent
  edge, so by `EdgesJoinPermanent` no walk of any depth touches a draft. No induction is needed.
- *Windows, layers and turns.* A window is an arc by modular arithmetic on a week of any
  length. The places that `InFront` gives are different for different layers, so by counting each
  place is taken once and the sorted list is a permutation in order; the first active layer is then
  the least covering one. A cycle of turns maps one to one to pairs of a slot and a time within
  the interval, so every member has as many units as the interval, wherever the cycle begins.
- *Readers.* Each of the four readers is unfolded to the override that is active, or else to
  the first covering layer; the first user in the timeline's list of all layers is that
  layer's (`AllLayersAgree`).
- *Rate.* `RateIsKept` says nothing of a bucket's tokens. `Balanced` adds that a bucket lacks
  exactly the excess of its source, that one that is absent has none, and that idle times
  stay below the bound by the time since the last pruning. A pruned bucket was full,
  since `IdleAfter` units refill it; so a new one changes nothing. The lemma `Charged` shows
  that the loop of `webhookClientIP` finds the source, for every route and header.
- *Resolutions.* `PostsAreRead`: whatever a post of an alert carries besides, its dialect is
  recognised, its fingerprint is that of the alert (`OnePrint`), and it resolves exactly when the alert
  ends. `PrintsApart`: the fingerprint of an alert that is recognised is no other's, although others
  may share theirs. If the parts of a joined text have no bar, the two bars of the text are those
  between them, and any other way to join it has its bars there too (`JoinedApart`). So the open
  incident of such an alert is its own.
- *Accounts.* `ForcedFirstChange` speaks of sessions; a login creates them from a copy of the row
  and a change of password from a copy of the session. `TrustInv` says the same of rows and
  copies, but for `crossed` sessions, and that a token keeps its owner while a request refers to it. `LockInv` counts: the
  failures of the row and those that requests are still to add are at most the wrong passwords.
  `PrintInv` adds that a printed password belongs to a row that was inserted.
- *Team access.* `AccessInv`, while undisturbed syncs are under way: the grants of each are among
  those asked; a team that all of them found is held or one that has not finished is still to write
  it; a team held with a role that none found has a sync that is still to write it or to take it away.
  When none is left, both halves are `SyncAgrees`.
- *Agent.* That credit is not negative is not inductive: a list or a watch may hold back many
  items that show a failure, and items of different age. `LedgerInv` gives each item held back a
  number, the credit that the recoveries after it brought: the numbers never rise along the
  backlog, fall between an item that shows the failure and a later one that clears it, and are
  covered by the credit of the key. It is proved on an abstract ledger, one lemma per thing that may
  happen to it, and each action of the agent is an instance for every key.
- *Paging.* `PagesFollowClaims`: no page and no claim is ahead of `escalation_step`, and a
  step about to be paged was not paged and has one claimant.
- *Time.* `DueInv` carries the check over to the claim: a step that was due when it was
  checked is due when it is claimed, since the clock does not go back, and the row has
  the step that was read.
  `EscalationEnds` follows from `StepsAreDue` by arithmetic on division.

TLC has checked `AccountsInv` and `AccessInv` on the instances of their runs. `LedgerInv` chooses among functions into all natural
numbers, which TLC cannot enumerate; it is only proved.

The attempt to prove `NoRefire` as it stood first failed for a reason: with more changes than the
run had, a list of the poller that is older than a recovery reports the pod again. The property now
says so, and the run's mutants still break it.

Only model-checked: the liveness properties (`EveryIncidentIsPosted`, `DelayedIsSettled`,
`OverdueIsEscalated`, `FailureReported`), since fairness is out of the prover's reach.

## Not modelled

The hash of the fingerprint; the content of notifications, context and analysis; the
similarity score of graph nodes; local groups, whose writes are single statements that
nothing else here depends on; the expiry of the provider cache; password rules; team settings; the licence;
the collectors and senders, which keep no state and whose failures the callers ignore. The
reasons are in `PROJECT.json`.

## Plan

1. Composition of the job loop with escalation over one incident row: the first page of an
   incident whose alert job was lost, acknowledgement against both loops.
2. Local groups and the teams a session carries after they change.
3. Theorems about what a single step may do (a permanent node stays so until it is deleted, a claim is never given
   back), from the invariants above.

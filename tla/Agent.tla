------------------------------- MODULE Agent -------------------------------
(***************************************************************************)
(* The agent in a customer's cluster: the watchers of pods and nodes, the  *)
(* poller of stuck pods, the watcher of Kubescape summaries, the channels  *)
(* between the collectors and the forwarder, and the forwarder itself. The *)
(* cluster's API server is modelled from how the collectors use it: a list *)
(* is a snapshot, the watch that follows it brings every later change in   *)
(* order until it is closed.                                               *)
(***************************************************************************)
EXTENDS Integers, Sequences, FiniteSets, SequencesExt

CONSTANTS
  Pod, Container, Node, Condition, Workload,
  Waiting,         \* reasons of a waiting container that are actionable
  Found,           \* states the agent may find a pod in
  Setups,          \* choices of K8SHEALTH_ENABLED and KUBESCAPE_ENABLED
  MinSeverity,     \* KUBESCAPE_MIN_SEVERITY: "high" or "critical"
  Capacity,        \* of a channel with the hand that empties it
  MaxChanges,      \* bound: changes of the cluster, restarts, failed posts
  MaxStream        \* bound: changes a watch holds back

Source == {"k8shealth", "kubescape"}

ASSUME AgentAssumption ==
  /\ Setups \subseteq SUBSET Source
  /\ MinSeverity \in {"high", "critical"}
  /\ Capacity \in Nat \ {0} /\ MaxChanges \in Nat /\ MaxStream \in Nat
  /\ Waiting \cap {"starting", "ready", "OOMKilled", "Pending"} = {}
  /\ Container # {} /\ Pod \cap Node = {}
  /\ IsFiniteSet(Pod) /\ IsFiniteSet(Node) /\ IsFiniteSet(Condition) /\ IsFiniteSet(Workload)

VARIABLES
  enabled,              \* the collectors that run
  pods, nodes, scans,   \* the cluster
  clock,                \* changes, restarts and failed posts so far
  watch,                \* the three list-and-watch loops
  poll,                 \* the poller: pods still to look at, event to send
  seen,                 \* k8shealth: Collector.seen
  entries,              \* kubescape: State.entries
  queue,                \* per collector: its channel and fanIn's hand
  merged,               \* the merged channel and the event being posted
  told,                 \* history: keys posted since their recovery was seen
  lost,                 \* history: keys whose one post failed, or was a former pod's
  credit,               \* history: events the cluster gave reason for, less those fired
  fires                 \* history: events fired for each workload

cluster == <<pods, nodes, scans, clock>>
health == <<poll, seen>>
history == <<told, lost, credit, fires>>
vars == <<enabled, cluster, watch, health, entries, queue, merged, history>>

Watcher == {"pods", "nodes", "scans"}
SourceOf(w) == IF w = "scans" THEN "kubescape" ELSE "k8shealth"

(* What a container status says; an OOM kill has its start time. *)
FailureState == Waiting \X {0} \cup {"OOMKilled"} \X (1 .. MaxChanges)
ContainerState == {"starting", "ready"} \X {0} \cup FailureState

(* A pending pod is young or has been there for pendingMinutes. *)
PodStatus == [phase : {"absent", "young", "stuck", "running"},
              container : [Container -> ContainerState]]

ASSUME FoundAssumption == Found \subseteq PodStatus

(* The counts relevantOrAll returns; those of an incomplete scan are not used. *)
Scan == [status : {"absent", "scanning"}, critical : {0}, high : {0}]
          \cup [status : {"ready"}, critical : 0 .. 1, high : 0 .. 1]

NoPod == [phase |-> "absent", container |-> [c \in Container |-> <<"starting", 0>>]]
NoScan == [status |-> "absent", critical |-> 0, high |-> 0]

(* The keys of markSeen. *)
PendingKey(p) == <<p, "pod", <<"Pending", 0>>>>
PodKeys(p) == {PendingKey(p)} \cup ({p} \X Container \X FailureState)
NodeKey(n, cond) == <<n, "node", <<cond, 0>>>>
NodeKeys(n) == {NodeKey(n, cond) : cond \in Condition}
Key == (UNION {PodKeys(p) : p \in Pod}) \cup (UNION {NodeKeys(n) : n \in Node})

(* An event has the key of its condition, or the workload and its total. *)
ScanKey(x, total) == <<x, "scan", <<"total", total>>>>
Event == Key \cup {ScanKey(x, total) : x \in Workload, total \in 0 .. 2}

(* list: what the list returned and is still to be reconciled; stream: the *)
(* changes since, for the watch; out: events still to be sent.             *)
Item(w) ==
  CASE w = "pods" -> Pod \X PodStatus
    [] w = "nodes" -> Node \X SUBSET Condition
    [] w = "scans" -> Workload \X Scan

Loop(w) == [up : BOOLEAN, list : Seq(Item(w)), stream : Seq(Item(w)), out : Seq(Event)]

NoLoop == [up |-> FALSE, list |-> <<>>, stream |-> <<>>, out |-> <<>>]

AllReady(pod) ==
  /\ pod.phase = "running"
  /\ \A c \in Container : pod.container[c][1] = "ready"

(* Every condition may be reported once. *)
StartCredit == [k \in Key |-> 1]

TypeOK ==
  /\ enabled \in Setups
  /\ pods \in [Pod -> PodStatus] /\ nodes \in [Node -> SUBSET Condition]
  /\ scans \in [Workload -> Scan] /\ clock \in 0 .. MaxChanges
  /\ DOMAIN watch = Watcher
  /\ \A w \in Watcher : watch[w] \in Loop(w) /\ (watch[w].up \/ watch[w] = NoLoop)
  /\ poll \in [rest : SUBSET Pod, out : Seq(Event)]
  /\ seen \subseteq Key /\ told \subseteq Key /\ lost \subseteq Key
  /\ entries \in [Workload -> 0 .. 2] /\ fires \in [Workload -> Nat]
  /\ queue \in [Source -> Seq(Event)] /\ \A s \in Source : Len(queue[s]) <= Capacity
  /\ merged \in Seq(Event) /\ Len(merged) <= Capacity
  /\ credit \in [Key -> Int]

(* The agent comes into a cluster that is there. *)
Init ==
  /\ enabled \in Setups
  /\ pods \in [Pod -> Found]
  /\ nodes = [n \in Node |-> {}]
  /\ scans = [x \in Workload |-> NoScan] /\ clock = 0
  /\ watch = [w \in Watcher |-> NoLoop]
  /\ poll = [rest |-> {}, out |-> <<>>]
  /\ seen = {} /\ entries = [x \in Workload |-> 0]
  /\ queue = [s \in Source |-> <<>>] /\ merged = <<>>
  /\ told = {} /\ lost = {} /\ credit = StartCredit
  /\ fires = [x \in Workload |-> 0]

----------------------------------------------------------------------------
(* The cluster *)

(* A change of an object reaches the watch that is open, or none. Bound:   *)
(* only what somebody watches changes.                                     *)
Changes(w, x, status) ==
  /\ SourceOf(w) \in enabled
  /\ clock < MaxChanges /\ Len(watch[w].stream) < MaxStream
  /\ clock' = clock + 1
  /\ watch' = [watch EXCEPT ![w].stream =
                 IF watch[w].up THEN Append(@, <<x, status>>) ELSE @]
  /\ UNCHANGED <<enabled, health, entries, queue, merged, told, lost, fires>>

PodBecomes(p, pod) ==
  /\ pods' = [pods EXCEPT ![p] = pod]
  /\ Changes("pods", p, pod)
  /\ credit' = [k \in Key |-> IF k \in PodKeys(p) /\ AllReady(pod) THEN credit[k] + 1 ELSE credit[k]]
  /\ UNCHANGED <<nodes, scans>>

PodCreated(p) == pods[p] = NoPod /\ PodBecomes(p, [NoPod EXCEPT !.phase = "young"])

PodStarts(p) ==
  pods[p].phase \in {"young", "stuck"} /\ PodBecomes(p, [pods[p] EXCEPT !.phase = "running"])

ContainerChanges(p, c) ==
  /\ pods[p].phase # "absent"
  /\ \E s \in ({"ready"} \cup Waiting) \X {0} \cup {<<"OOMKilled", clock + 1>>} :
       /\ s # pods[p].container[c]
       /\ pods[p].phase = "running" \/ s[1] \in Waiting
       /\ PodBecomes(p, [pods[p] EXCEPT !.container[c] = s])

(* Time passes, or the pod is deleted: no Added or Modified event. *)
PodSilently(p, pod) ==
  /\ "k8shealth" \in enabled
  /\ pods' = [pods EXCEPT ![p] = pod]
  /\ clock < MaxChanges /\ clock' = clock + 1
  /\ UNCHANGED <<enabled, nodes, scans, watch, health, entries, queue, merged, credit, fires>>

(* Bound: pendingMinutes are longer than a list or a watch falls behind. *)
PodSticks(p) ==
  /\ pods[p].phase = "young"
  /\ watch["pods"].list = <<>> /\ watch["pods"].stream = <<>> /\ poll.rest = {}
  /\ PodSilently(p, [pods[p] EXCEPT !.phase = "stuck"])
  /\ UNCHANGED <<told, lost>>

(* The failures of a pod's containers, as keys. *)
Failures(p, pod) ==
  {<<p, c, pod.container[c]>> :
     c \in {c \in Container : pod.container[c] \in FailureState}}

(* A key has the name of the pod: what a deleted pod has in seen, or shows *)
(* in what its watch holds back, the next pod of the name cannot report.   *)
PodDeleted(p) ==
  LET held == ToSet(watch["pods"].list) \cup ToSet(watch["pods"].stream)
      shown == UNION {Failures(p, item[2]) : item \in {item \in held : item[1] = p}}
  IN /\ pods[p] # NoPod
     /\ PodSilently(p, NoPod)
     /\ told' = told \ PodKeys(p)
     /\ lost' = lost \cup (PodKeys(p) \cap (seen \cup shown))

NodeChanges(n, cond) ==
  LET bad == IF cond \in nodes[n] THEN nodes[n] \ {cond} ELSE nodes[n] \cup {cond}
  IN /\ nodes' = [nodes EXCEPT ![n] = bad]
     /\ Changes("nodes", n, bad)
     /\ credit' = [credit EXCEPT ![NodeKey(n, cond)] = IF cond \in bad THEN @ ELSE @ + 1]
     /\ UNCHANGED <<pods, scans>>

ScanChanges(x, scan) ==
  /\ scan # scans[x]
  /\ scans' = [scans EXCEPT ![x] = scan]
  /\ Changes("scans", x, scan)
  /\ UNCHANGED <<pods, nodes, credit>>

----------------------------------------------------------------------------
(* Lists and watches *)

Threshold(scan) == scan.critical > 0 \/ (scan.high > 0 /\ MinSeverity # "critical")

(* What a summary counts for: nothing before its scan is complete. *)
Counted(scan) ==
  IF scan.status = "ready" /\ Threshold(scan) THEN scan.critical + scan.high ELSE 0

Listed(w) ==
  CASE w = "pods" -> {<<p, pods[p]>> : p \in {p \in Pod : pods[p] # NoPod}}
    [] w = "nodes" -> {<<n, nodes[n]>> : n \in Node}
    [] w = "scans" -> {<<x, scans[x]>> : x \in {x \in Workload : scans[x] # NoScan}}

(* A loop lists the objects there are; its watch starts from this version. *)
ListObjects(w) ==
  /\ SourceOf(w) \in enabled
  /\ ~watch[w].up
  /\ watch' = [watch EXCEPT ![w] = [NoLoop EXCEPT !.up = TRUE, !.list = SetToSeq(Listed(w))]]
  /\ UNCHANGED <<enabled, cluster, health, entries, queue, merged, history>>

(* Mutant: what the old watch had not brought is still in the loop. *)
WatchCloses_KeepsStream(w) ==
  /\ watch[w].up /\ watch[w].list = <<>> /\ watch[w].out = <<>>
  /\ watch' = [watch EXCEPT ![w].up = FALSE]
  /\ UNCHANGED <<enabled, cluster, health, entries, queue, merged, history>>

(* The watch cannot be opened or its channel is closed: what it had not    *)
(* brought is lost, and the loop lists again.                              *)
WatchCloses(w) ==
  /\ watch[w].up /\ watch[w].list = <<>> /\ watch[w].out = <<>>
  /\ watch' = [watch EXCEPT ![w] = NoLoop]
  /\ UNCHANGED <<enabled, cluster, health, entries, queue, merged, history>>

(* The next object of the loop: from the list, then from the watch. *)
NextItem(w) == IF watch[w].list # <<>> THEN Head(watch[w].list) ELSE Head(watch[w].stream)

HasItem(w) == watch[w].out = <<>> /\ (watch[w].list # <<>> \/ watch[w].stream # <<>>)

(* The object is done with, these events have to be sent. *)
Takes(w, out) ==
  watch' = [watch EXCEPT ![w].out = out,
                         ![w].list = IF @ # <<>> THEN Tail(@) ELSE @,
                         ![w].stream = IF watch[w].list = <<>> THEN Tail(@) ELSE @]

(* markSeen: a key that is not there yet is recorded, and fires. *)
MarkSeen(keys) == seen' = seen \cup keys

(* clearPod: by the prefix of the pod. *)
ClearPod(p) ==
  /\ seen' = seen \ PodKeys(p)
  /\ told' = told \ PodKeys(p) /\ lost' = lost \ PodKeys(p)

(* State.isNew *)
IsNew(x, total) == total > entries[x]

(* A fired condition uses up what the cluster gave reason for. *)
Fires(keys) == credit' = [k \in Key |-> IF k \in keys THEN credit[k] - 1 ELSE credit[k]]

(* A recovery overtakes a list of the poller that still has the pod: what  *)
(* it lists as stuck was fired, is cleared, and may be fired once more.    *)
Overtaken(p) ==
  credit' = [credit EXCEPT ![PendingKey(p)] =
               IF p \in poll.rest /\ PendingKey(p) \in seen THEN @ + 1 ELSE @]

----------------------------------------------------------------------------
(* The collectors *)

(* Mutant: a pod without a failure counts as recovered. *)
ReconcilePod_ClearsEarly ==
  LET p == NextItem("pods")[1]
      pod == NextItem("pods")[2]
  IN /\ HasItem("pods")
     /\ \/ /\ Failures(p, pod) = {}
           /\ ClearPod(p)
           /\ Takes("pods", <<>>)
           /\ Overtaken(p)
        \/ /\ \E k \in Failures(p, pod) \ seen :
                MarkSeen({k}) /\ Takes("pods", <<k>>) /\ Fires({k})
           /\ UNCHANGED <<told, lost>>
        \/ /\ Failures(p, pod) # {} /\ Failures(p, pod) \subseteq seen
           /\ Takes("pods", <<>>)
           /\ UNCHANGED <<seen, told, lost, credit>>
     /\ UNCHANGED <<enabled, cluster, poll, entries, queue, merged, fires>>

(* reconcilePod: a recovery clears the keys of the pod; otherwise the first *)
(* failure that is not seen yet is marked and fired, the others wait.       *)
ReconcilePod ==
  LET p == NextItem("pods")[1]
      pod == NextItem("pods")[2]
  IN /\ HasItem("pods")
     /\ \/ /\ AllReady(pod)
           /\ ClearPod(p)
           /\ Takes("pods", <<>>)
           /\ Overtaken(p)
        \/ /\ ~AllReady(pod)
           /\ \E k \in Failures(p, pod) \ seen :
                MarkSeen({k}) /\ Takes("pods", <<k>>) /\ Fires({k})
           /\ UNCHANGED <<told, lost>>
        \/ /\ ~AllReady(pod) /\ Failures(p, pod) \subseteq seen
           /\ Takes("pods", <<>>)
           /\ UNCHANGED <<seen, told, lost, credit>>
     /\ UNCHANGED <<enabled, cluster, poll, entries, queue, merged, fires>>

(* reconcileNode: every condition that is bad and was not, in one pass. *)
ReconcileNode ==
  LET n == NextItem("nodes")[1]
      bad == {NodeKey(n, cond) : cond \in NextItem("nodes")[2]}
      good == NodeKeys(n) \ bad
  IN /\ HasItem("nodes")
     /\ seen' = (seen \ good) \cup bad
     /\ told' = told \ good /\ lost' = lost \ good
     /\ Takes("nodes", SetToSeq(bad \ seen))
     /\ Fires(bad \ seen)
     /\ UNCHANGED <<enabled, cluster, poll, entries, queue, merged, fires>>

(* checkPending: a list of the pending pods, then one pod after the other. *)
PollList ==
  /\ "k8shealth" \in enabled
  /\ poll.rest = {} /\ poll.out = <<>>
  /\ poll' = [poll EXCEPT !.rest = {p \in Pod : pods[p].phase = "stuck"}]
  /\ UNCHANGED <<enabled, cluster, watch, seen, entries, queue, merged, history>>

CheckPending ==
  /\ poll.out = <<>>
  /\ \E p \in poll.rest :
       LET new == {PendingKey(p)} \ seen
       IN /\ MarkSeen(new)
          /\ poll' = [rest |-> poll.rest \ {p}, out |-> SetToSeq(new)]
          /\ Fires(new)
  /\ UNCHANGED <<enabled, cluster, watch, entries, queue, merged, told, lost, fires>>

(* runWatch of kubescape: what the list brings is counted and not fired;   *)
(* for what the watch brings the summary is fetched again, which may fail. *)
ReconcileScan ==
  LET x == NextItem("scans")[1]
      listed == watch["scans"].list # <<>>
      total == Counted(IF listed THEN NextItem("scans")[2] ELSE scans[x])
  IN /\ HasItem("scans")
     /\ \/ /\ IsNew(x, total)
           /\ entries' = [entries EXCEPT ![x] = total]
           /\ Takes("scans", IF listed THEN <<>> ELSE <<ScanKey(x, total)>>)
           /\ fires' = [fires EXCEPT ![x] = IF listed THEN @ ELSE @ + 1]
        \/ /\ ~IsNew(x, total) \/ ~listed
           /\ Takes("scans", <<>>)
           /\ UNCHANGED <<entries, fires>>
     /\ UNCHANGED <<enabled, cluster, health, queue, merged, told, lost, credit>>

----------------------------------------------------------------------------
(* Channels and forwarder *)

(* A send waits while the channel is full. *)
SendEvent(w) ==
  /\ watch[w].out # <<>> /\ Len(queue[SourceOf(w)]) < Capacity
  /\ queue' = [queue EXCEPT ![SourceOf(w)] = Append(@, Head(watch[w].out))]
  /\ watch' = [watch EXCEPT ![w].out = Tail(@)]
  /\ UNCHANGED <<enabled, cluster, health, entries, merged, history>>

SendPending ==
  /\ poll.out # <<>> /\ Len(queue["k8shealth"]) < Capacity
  /\ queue' = [queue EXCEPT !["k8shealth"] = Append(@, Head(poll.out))]
  /\ poll' = [poll EXCEPT !.out = Tail(@)]
  /\ UNCHANGED <<enabled, cluster, watch, seen, entries, merged, history>>

(* Mutant: an event is dropped when the merged channel is full. *)
FanIn_Drops(s) ==
  /\ queue[s] # <<>>
  /\ merged' = IF Len(merged) < Capacity THEN Append(merged, Head(queue[s])) ELSE merged
  /\ queue' = [queue EXCEPT ![s] = Tail(@)]
  /\ UNCHANGED <<enabled, cluster, watch, health, entries, history>>

(* fanIn *)
FanIn(s) ==
  /\ queue[s] # <<>> /\ Len(merged) < Capacity
  /\ merged' = Append(merged, Head(queue[s]))
  /\ queue' = [queue EXCEPT ![s] = Tail(@)]
  /\ UNCHANGED <<enabled, cluster, watch, health, entries, history>>

(* Run: one attempt; an error is logged and the event is gone. *)
Forward ==
  /\ merged # <<>>
  /\ merged' = Tail(merged)
  /\ \/ /\ told' = told \cup ({Head(merged)} \cap Key)
        /\ UNCHANGED <<lost, clock>>
     \/ /\ clock < MaxChanges /\ clock' = clock + 1
        /\ lost' = lost \cup ({Head(merged)} \cap Key)
        /\ UNCHANGED told
  /\ UNCHANGED <<enabled, pods, nodes, scans, watch, health, entries, queue, credit, fires>>

(* The agent has its state in memory only. *)
AgentRestarts ==
  /\ clock < MaxChanges /\ clock' = clock + 1
  /\ watch' = [w \in Watcher |-> NoLoop] /\ poll' = [rest |-> {}, out |-> <<>>]
  /\ seen' = {} /\ entries' = [x \in Workload |-> 0]
  /\ queue' = [s \in Source |-> <<>>] /\ merged' = <<>>
  /\ told' = {} /\ lost' = {} /\ credit' = StartCredit
  /\ fires' = [x \in Workload |-> 0]
  /\ UNCHANGED <<enabled, pods, nodes, scans>>

Reconcile(w) ==
  \/ w = "pods" /\ ReconcilePod
  \/ w = "nodes" /\ ReconcileNode
  \/ w = "scans" /\ ReconcileScan

LoopStep(w) == ListObjects(w) \/ Reconcile(w) \/ SendEvent(w)

PollStep == PollList \/ CheckPending \/ SendPending

ClusterStep ==
  \/ \E p \in Pod : PodCreated(p) \/ PodStarts(p) \/ PodSticks(p) \/ PodDeleted(p)
  \/ \E p \in Pod, c \in Container : ContainerChanges(p, c)
  \/ \E n \in Node, cond \in Condition : NodeChanges(n, cond)
  \/ \E x \in Workload, scan \in Scan : ScanChanges(x, scan)

Next ==
  \/ ClusterStep
  \/ \E w \in Watcher : LoopStep(w) \/ WatchCloses(w)
  \/ PollStep
  \/ \E s \in Source : FanIn(s)
  \/ Forward
  \/ AgentRestarts

(* The goroutines go on; the API server answers a list sooner or later and *)
(* ends every watch; a post ends after its timeout.                        *)
Fairness ==
  /\ \A w \in Watcher : WF_vars(LoopStep(w)) /\ WF_vars(WatchCloses(w))
  /\ WF_vars(PollStep)
  /\ \A s \in Source : WF_vars(FanIn(s))
  /\ WF_vars(Forward)

Spec == Init /\ [][Next]_vars /\ Fairness

----------------------------------------------------------------------------
(* "State is tracked in memory to avoid re-firing for the same active      *)
(* condition" (package k8shealth): no key fires more often than once, plus *)
(* once per recovery of its object, plus once per list of checkPending     *)
(* that the recovery of a reported pod overtakes, although the watcher and *)
(* the poller mark keys from snapshots of different age and every          *)
(* reconnect reports all objects again; and a workload has no more events  *)
(* than findings.                                                          *)
NoRefire ==
  /\ \A k \in Key : credit[k] >= 0
  /\ \A x \in Workload : fires[x] <= entries[x]

Failing(k) ==
  \/ k[1] \in Pod /\ k \in Failures(k[1], pods[k[1]])
  \/ k[1] \in Node /\ k[3][1] \in nodes[k[1]]

(* A failure that lasts is posted, whatever the other failures of the pod, *)
(* full channels and watches that close in between: reconcilePod fires one *)
(* failure at a time, and the next list brings the next. So again and      *)
(* again everything that fails has been posted, but for what the collector *)
(* cannot fire again: a key whose post was tried and failed, and one that  *)
(* a deleted pod of the same name has used up, until the object recovers.  *)
FailureReported ==
  "k8shealth" \in enabled => []<>(\A k \in Key : Failing(k) => k \in told \cup lost)
============================================================================

----------------------------- MODULE Escalation -----------------------------
(***************************************************************************)
(* The escalation loop of cmd/worker: every replica polls the open         *)
(* incidents and pages the next layer of the team's policy when it is due, *)
(* claiming the step first with a compare-and-set on escalation_step.      *)
(* Time is counted in minutes.                                             *)
(***************************************************************************)
EXTENDS Naturals, Sequences, FiniteSets

CONSTANTS
  Incident,        \* ids of incident rows
  Replica,         \* worker pods
  Policy,          \* the escalation policies an admin may save
  NoPolicy,        \* no usable policy: absent, not decodable or without layers
  NoIncident,      \* no incident at hand
  Limit,           \* the LIMIT of GetOpenIncidentsForEscalation
  Faults,          \* what may fail: subset of {"db", "coverage", "crash"}
  MaxTime,         \* bound: the clock stops here
  MaxUpserts       \* bound: how often the policy is replaced

(* layers: notify_after_minutes of each layer; repeat: minutes between two *)
(* cycles, 0 for none; max: max_repeats, 0 for no limit.                   *)
ASSUME EscalationAssumption ==
  /\ Policy \subseteq [layers : Seq(Nat) \ {<< >>}, repeat : Nat, max : Nat]
  /\ NoPolicy \notin Policy
  /\ NoIncident \notin Incident
  /\ Limit \in Nat \ {0}
  /\ Faults \subseteq {"db", "coverage", "crash"}
  /\ MaxTime \in Nat /\ MaxUpserts \in Nat

VARIABLES
  incidents,       \* incidents table: status, escalation_step, fired_at
  policy,          \* the team's row of escalation_policies
  upserts,         \* how often it was replaced
  now,             \* the clock
  loop,            \* escalation loop of each replica
  pages            \* history: the steps that were paged, in order

vars == <<incidents, policy, upserts, now, loop, pages>>

(* Escalation only tells "open" from the other statuses ("closed" here).   *)
IncidentRow == [status : {"absent", "open", "closed"}, step : Nat, firedAt : Nat]

(* What a poll read of an incident: escalation_step may be stale later. *)
Seen == [incident : Incident, step : Nat]

Nothing == [incident |-> NoIncident, step |-> 0]

(* claim: the step is due and someone covers the layer; skip: nobody does; *)
(* fire: the step was claimed and the channels are about to fire.          *)
LoopState == [pc : {"check", "claim", "skip", "fire"},
              todo : SUBSET Seen,
              at : Seen \cup {Nothing}]

LoopGoesTo(w, pc, at, todo) ==
  loop' = [loop EXCEPT ![w] = [pc |-> pc, todo |-> todo, at |-> at]]

Idle == [pc |-> "check", todo |-> {}, at |-> Nothing]

TypeOK ==
  /\ incidents \in [Incident -> IncidentRow]
  /\ policy \in Policy \cup {NoPolicy}
  /\ upserts \in Nat
  /\ now \in Nat
  /\ loop \in [Replica -> LoopState]
  /\ pages \in Seq(Seen)
  /\ \A w \in Replica : loop[w].pc # "check" => loop[w].at \in Seen

Init ==
  /\ incidents = [i \in Incident |-> [status |-> "absent", step |-> 0, firedAt |-> 0]]
  /\ policy \in Policy \cup {NoPolicy}
  /\ upserts = 0
  /\ now = 0
  /\ loop = [w \in Replica |-> Idle]
  /\ pages = << >>

----------------------------------------------------------------------------
(* What the rest of the system does to the columns escalation reads. *)

CreateIncident(i) ==
  /\ incidents[i].status = "absent"
  /\ incidents' = [incidents EXCEPT ![i] = [status |-> "open", step |-> 0, firedAt |-> now]]
  /\ UNCHANGED <<policy, upserts, now, loop, pages>>

(* Acknowledge, resolve and snooze leave step and fired_at alone, and so   *)
(* does reopen: escalation goes on where it stopped.                       *)
SetStatus(i, s) ==
  /\ incidents[i].status \notin {"absent", s}
  /\ incidents' = [incidents EXCEPT ![i].status = s]
  /\ UNCHANGED <<policy, upserts, now, loop, pages>>

UpsertEscalationPolicy(p) ==
  /\ upserts < MaxUpserts
  /\ policy' = p
  /\ upserts' = upserts + 1
  /\ UNCHANGED <<incidents, now, loop, pages>>

Tick ==
  /\ now < MaxTime
  /\ now' = now + 1
  /\ UNCHANGED <<incidents, policy, upserts, loop, pages>>

----------------------------------------------------------------------------
(* GetOpenIncidentsForEscalation: the oldest Limit open incidents that     *)
(* fired more than a minute ago.                                           *)
MinAge == 1

Candidates ==
  {i \in Incident : incidents[i].status = "open" /\ incidents[i].firedAt + MinAge < now}

Older(i, j) == incidents[i].firedAt < incidents[j].firedAt

OpenIncidentsForEscalation ==
  {S \in SUBSET Candidates :
     /\ Cardinality(S) <= Limit
     /\ Cardinality(S) = Limit \/ S = Candidates
     /\ \A i \in Candidates \ S, j \in S : ~Older(i, j)}

(* checkEscalations: one poll of the ticker. *)
CheckEscalations(w) ==
  /\ loop[w] = Idle
  /\ \E S \in OpenIncidentsForEscalation :
       /\ S # {}
       /\ LoopGoesTo(w, "check", Nothing,
                     {[incident |-> i, step |-> incidents[i].step] : i \in S})
  /\ UNCHANGED <<incidents, policy, upserts, now, pages>>

(* The steps of a policy: layer k of repeat r is step r * Len(layers) + k. *)
Repeat(p, s) == s \div Len(p.layers)
Layer(p, s)  == p.layers[(s % Len(p.layers)) + 1]

(* Mutant: the limit on repeats is passed once. *)
Continues_OffByOne(p, s) ==
  /\ ~(p.max > 0 /\ Repeat(p, s) > p.max + 1)
  /\ ~(p.repeat = 0 /\ Repeat(p, s) > 0)

Continues(p, s) ==
  /\ ~(p.max > 0 /\ Repeat(p, s) > p.max)
  /\ ~(p.repeat = 0 /\ Repeat(p, s) > 0)

(* Minutes after fired_at when a step is due. *)
Threshold(p, s) ==
  (p.layers[Len(p.layers)] + p.repeat) * Repeat(p, s) + Layer(p, s)

(* Mutant: a step is due by the layer's own delay, in every repeat. *)
Due_ByLayer(p, seen) ==
  /\ p # NoPolicy
  /\ Continues(p, seen.step + 1)
  /\ now - incidents[seen.incident].firedAt >= Layer(p, seen.step + 1)

(* The step after the one that was read exists and its time has come. *)
Due(p, seen) ==
  /\ p # NoPolicy
  /\ Continues(p, seen.step + 1)
  /\ now - incidents[seen.incident].firedAt >= Threshold(p, seen.step + 1)

(* checkEscalationForIncident up to the claim: the policy as it is now,    *)
(* the step as it was read. A fixed user or a schedule covers the layer,   *)
(* or nobody does ("coverage" among the faults).                           *)
CheckEscalationForIncident(w, seen) ==
  /\ loop[w].pc = "check"
  /\ seen \in loop[w].todo
  /\ \A other \in loop[w].todo : ~Older(other.incident, seen.incident)
  /\ \/ /\ Due(policy, seen)
        /\ \E pc \in {"claim"} \cup (IF "coverage" \in Faults THEN {"skip"} ELSE {}) :
             LoopGoesTo(w, pc, seen, loop[w].todo \ {seen})
     \/ /\ ~Due(policy, seen) \/ "db" \in Faults
        /\ LoopGoesTo(w, "check", Nothing, loop[w].todo \ {seen})
  /\ UNCHANGED <<incidents, policy, upserts, now, pages>>

(* Mutant: what the loop was doing is not reset. *)
NextIncident_KeepsPc(w) ==
  LoopGoesTo(w, loop[w].pc, Nothing, loop[w].todo)

(* On to the next incident of the poll. *)
NextIncident(w) == LoopGoesTo(w, "check", Nothing, loop[w].todo)

(* Mutant: the UPDATE without AND escalation_step = fromStep. *)
Claimable_AnyStep(seen) == incidents[seen.incident].status = "open"

Claimable(seen) ==
  /\ incidents[seen.incident].status = "open"
  /\ incidents[seen.incident].step = seen.step

(* Mutant: a lost compare-and-set is tried again. *)
IncrementEscalationStep_Retry(w) ==
  LET seen == loop[w].at
  IN /\ loop[w].pc \in {"claim", "skip"}
     /\ Claimable(seen)
     /\ incidents' = [incidents EXCEPT ![seen.incident].step = @ + 1]
     /\ \/ /\ loop[w].pc = "claim"
           /\ LoopGoesTo(w, "fire", seen, loop[w].todo)
        \/ loop[w].pc = "skip" /\ NextIncident(w)
     /\ UNCHANGED <<policy, upserts, now, pages>>

(* IncrementEscalationStep: compare and set, in one UPDATE. A step whose   *)
(* layer nobody covers is passed over silently.                            *)
IncrementEscalationStep(w) ==
  LET seen == loop[w].at
  IN /\ loop[w].pc \in {"claim", "skip"}
     /\ \/ /\ Claimable(seen)
           /\ incidents' = [incidents EXCEPT ![seen.incident].step = @ + 1]
           /\ \/ /\ loop[w].pc = "claim"
                 /\ LoopGoesTo(w, "fire", seen, loop[w].todo)
              \/ loop[w].pc = "skip" /\ NextIncident(w)
        \/ /\ ~Claimable(seen) \/ "db" \in Faults
           /\ NextIncident(w)
           /\ UNCHANGED incidents
     /\ UNCHANGED <<policy, upserts, now, pages>>

(* fireAllChannels, whose failures are only logged. *)
FireAllChannels(w) ==
  /\ loop[w].pc = "fire"
  /\ pages' = Append(pages, [incident |-> loop[w].at.incident,
                             step |-> loop[w].at.step + 1])
  /\ NextIncident(w)
  /\ UNCHANGED <<incidents, policy, upserts, now>>

ReplicaCrash(w) ==
  /\ "crash" \in Faults
  /\ loop[w] # Idle
  /\ loop' = [loop EXCEPT ![w] = Idle]
  /\ UNCHANGED <<incidents, policy, upserts, now, pages>>

----------------------------------------------------------------------------
LoopStep(w) ==
  \/ CheckEscalations(w)
  \/ \E seen \in loop[w].todo : CheckEscalationForIncident(w, seen)
  \/ IncrementEscalationStep(w)
  \/ FireAllChannels(w)

Next ==
  \/ \E i \in Incident : CreateIncident(i)
  \/ \E i \in Incident, s \in {"open", "closed"} : SetStatus(i, s)
  \/ \E p \in Policy \cup {NoPolicy} : UpsertEscalationPolicy(p)
  \/ Tick
  \/ \E w \in Replica : LoopStep(w)
  \/ \E w \in Replica : ReplicaCrash(w)

Spec == Init /\ [][Next]_vars

(* The loops run on and time passes; nothing else is owed. *)
FairSpec ==
  /\ Spec
  /\ WF_vars(Tick)
  /\ \A w \in Replica : WF_vars(LoopStep(w))

----------------------------------------------------------------------------
(* IncrementEscalationStep "prevents double-escalation with concurrent     *)
(* workers": no step of an incident is paged twice, although replicas work *)
(* on stale reads, crash, and incidents are closed, reopened and given     *)
(* another policy meanwhile.                                               *)
PagedAtMostOnce ==
  \A j, k \in DOMAIN pages : pages[j] = pages[k] => j = k

(* Why: pages and claims never run ahead of escalation_step, and a step    *)
(* that is about to be paged was not paged and has one claimant.           *)
PagesFollowClaims ==
  /\ \A k \in DOMAIN pages : pages[k].step <= incidents[pages[k].incident].step
  /\ \A w \in Replica : loop[w].pc = "fire" =>
       LET seen == loop[w].at
       IN /\ seen.step + 1 <= incidents[seen.incident].step
          /\ \A k \in DOMAIN pages :
               pages[k] # [incident |-> seen.incident, step |-> seen.step + 1]
          /\ \A v \in Replica : loop[v].pc = "fire" /\ loop[v].at = seen => v = w

(* With one policy in force from the start, no step is taken before its    *)
(* time, in any repeat, skipped layers included, and every step taken is   *)
(* one the policy has.                                                     *)
StepsAreDue ==
  upserts = 0 =>
    \A i \in Incident :
      incidents[i].step > 0 =>
        /\ policy # NoPolicy
        /\ Continues(policy, incidents[i].step)
        /\ now - incidents[i].firedAt >= Threshold(policy, incidents[i].step)

(* The last step of a policy that ends. *)
LastStep(p) ==
  IF p.repeat = 0 THEN Len(p.layers) - 1 ELSE Len(p.layers) * (p.max + 1) - 1

(* max_repeats bounds the pages of an incident: the policy's cycle and     *)
(* max_repeats more, counted without the arithmetic of the loop.           *)
EscalationEnds ==
  /\ upserts = 0
  /\ policy # NoPolicy
  /\ policy.max > 0 \/ policy.repeat = 0
  => \A i \in Incident : incidents[i].step <= LastStep(policy)

(* runEscalationLoop "polls every 30 seconds for open incidents that have  *)
(* exceeded their next escalation threshold and notifies the appropriate   *)
(* layer": an incident that stays open while its next step is due gets     *)
(* that step.                                                              *)
Overdue(i) ==
  /\ i \in Candidates
  /\ Due(policy, [incident |-> i, step |-> incidents[i].step])

OverdueIsEscalated == \A i \in Incident : []<>~Overdue(i)
============================================================================

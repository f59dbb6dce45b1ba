-------------------------- MODULE EscalationProofs --------------------------
(***************************************************************************)
(* Escalation for any number of incidents and replicas, any policies and   *)
(* any LIMIT: steps are paged at most once, never early and never beyond   *)
(* the policy's last step.                                                 *)
(***************************************************************************)
EXTENDS Escalation, TLAPS

(* LoopGoesTo changes one replica's loop. *)
LEMMA LoopGoesToEffect ==
  ASSUME loop \in [Replica -> LoopState], NEW w \in Replica,
         NEW pc, NEW at, NEW todo, LoopGoesTo(w, pc, at, todo)
  PROVE  /\ loop'[w].pc = pc /\ loop'[w].at = at /\ loop'[w].todo = todo
         /\ \A v \in Replica : v # w => loop'[v] = loop[v]
  BY DEF LoopGoesTo

LEMMA LoopGoesToType ==
  ASSUME TypeOK, NEW w \in Replica, NEW pc \in {"check", "claim", "skip", "fire"},
         NEW at \in Seen \cup {Nothing}, NEW todo \in SUBSET Seen,
         pc # "check" => at \in Seen, LoopGoesTo(w, pc, at, todo)
  PROVE  /\ loop' \in [Replica -> LoopState]
         /\ \A v \in Replica : loop'[v].pc # "check" => loop'[v].at \in Seen
<1>1. loop' \in [Replica -> LoopState]
  BY DEF TypeOK, LoopGoesTo, LoopState
<1>2. QED
  BY <1>1, LoopGoesToEffect DEF TypeOK

LEMMA LoopRestsType ==
  ASSUME TypeOK, NEW w \in Replica, NEW todo \in SUBSET Seen,
         LoopGoesTo(w, "check", Nothing, todo)
  PROVE  /\ loop' \in [Replica -> LoopState]
         /\ \A v \in Replica : loop'[v].pc # "check" => loop'[v].at \in Seen
<1>1. Nothing \in Seen \cup {Nothing}
  OBVIOUS
<1>2. QED
  BY <1>1, LoopGoesToType

(* The UPDATE of IncrementEscalationStep touches one row's step. *)
LEMMA StepUp ==
  ASSUME incidents \in [Incident -> IncidentRow], NEW i \in Incident,
         incidents' = [incidents EXCEPT ![i].step = @ + 1]
  PROVE  /\ incidents' \in [Incident -> IncidentRow]
         /\ incidents'[i].step = incidents[i].step + 1
         /\ incidents'[i].firedAt = incidents[i].firedAt
         /\ incidents'[i].status = incidents[i].status
         /\ \A j \in Incident : j # i => incidents'[j] = incidents[j]
<1> DEFINE row == [incidents[i] EXCEPT !.step = incidents[i].step + 1]
<1>1. incidents[i] \in IncidentRow /\ incidents[i].step + 1 \in Nat
  BY DEF IncidentRow
<1>2. /\ row \in IncidentRow /\ row.step = incidents[i].step + 1
      /\ row.firedAt = incidents[i].firedAt /\ row.status = incidents[i].status
  BY <1>1 DEF IncidentRow
<1>3. incidents' = [incidents EXCEPT ![i] = row]
  OBVIOUS
<1> HIDE DEF row
<1>4. QED
  BY <1>2, <1>3

(* A step of one loop keeps every type. *)
LEMMA LoopTypeOK ==
  ASSUME TypeOK, NEW w \in Replica, LoopStep(w)
  PROVE  TypeOK'
<1>1. /\ loop[w].todo \in SUBSET Seen /\ loop[w].at \in Seen \cup {Nothing}
      /\ Nothing \in Seen \cup {Nothing}
      /\ loop[w].pc # "check" => loop[w].at \in Seen
  BY DEF TypeOK, LoopState
<1>2. CASE CheckEscalations(w)
  <2>1. PICK S \in OpenIncidentsForEscalation :
          LoopGoesTo(w, "check", Nothing,
                     {[incident |-> i, step |-> incidents[i].step] : i \in S})
    BY <1>2 DEF CheckEscalations
  <2>2. {[incident |-> i, step |-> incidents[i].step] : i \in S} \in SUBSET Seen
    BY DEF OpenIncidentsForEscalation, Candidates, Seen, TypeOK, IncidentRow
  <2>3. QED
    BY <1>1, <1>2, <2>1, <2>2, LoopGoesToType DEF TypeOK, CheckEscalations
<1>3. ASSUME NEW seen \in loop[w].todo, CheckEscalationForIncident(w, seen)
      PROVE  TypeOK'
  <2>1. seen \in Seen /\ loop[w].todo \ {seen} \in SUBSET Seen
    BY <1>1
  <2>2. /\ loop' \in [Replica -> LoopState]
        /\ \A v \in Replica : loop'[v].pc # "check" => loop'[v].at \in Seen
    <3>1. CASE LoopGoesTo(w, "check", Nothing, loop[w].todo \ {seen})
      BY <2>1, <3>1, LoopRestsType
    <3>2. CASE \E pc \in {"claim", "skip"} :
                 LoopGoesTo(w, pc, seen, loop[w].todo \ {seen})
      BY <1>1, <2>1, <3>2, LoopGoesToType
    <3>3. QED
      BY <1>3, <3>1, <3>2 DEF CheckEscalationForIncident
  <2>3. QED
    BY <1>3, <2>2 DEF TypeOK, CheckEscalationForIncident
<1>4. CASE IncrementEscalationStep(w)
  <2>1. loop[w].at \in Seen
    BY <1>1, <1>4 DEF IncrementEscalationStep
  <2>2. incidents' \in [Incident -> IncidentRow]
    <3>1. loop[w].at.incident \in Incident
      BY <2>1 DEF Seen
    <3>2. \/ incidents' = incidents
          \/ incidents' = [incidents EXCEPT ![loop[w].at.incident].step = @ + 1]
      BY <1>4 DEF IncrementEscalationStep
    <3>3. QED
      BY <3>1, <3>2, StepUp DEF TypeOK
  <2>3. /\ loop' \in [Replica -> LoopState]
        /\ \A v \in Replica : loop'[v].pc # "check" => loop'[v].at \in Seen
    BY <1>1, <1>4, <2>1, LoopGoesToType, LoopRestsType
    DEF IncrementEscalationStep, NextIncident
  <2>4. QED
    BY <1>4, <2>2, <2>3 DEF TypeOK, IncrementEscalationStep
<1>5. CASE FireAllChannels(w)
  <2>1. loop[w].at \in Seen
    BY <1>1, <1>5 DEF FireAllChannels
  <2>2. pages' \in Seq(Seen)
    <3>1. [incident |-> loop[w].at.incident, step |-> loop[w].at.step + 1] \in Seen
      BY <2>1 DEF Seen
    <3>2. QED
      BY <1>5, <3>1 DEF FireAllChannels, TypeOK
  <2>3. /\ loop' \in [Replica -> LoopState]
        /\ \A v \in Replica : loop'[v].pc # "check" => loop'[v].at \in Seen
    BY <1>1, <1>5, LoopRestsType DEF FireAllChannels, NextIncident
  <2>4. QED
    BY <1>5, <2>2, <2>3 DEF TypeOK, FireAllChannels
<1>6. QED
  BY <1>2, <1>3, <1>4, <1>5 DEF LoopStep

(* Rows, clock, loops and the log of pages keep their types, and a loop    *)
(* that claims or fires has an incident at hand.                           *)
THEOREM EscalationTypeCorrect == Spec => []TypeOK
<1>1. Init => TypeOK
  BY DEF Init, TypeOK, IncidentRow, LoopState, Idle
<1>2. ASSUME TypeOK, [Next]_vars PROVE TypeOK'
  <2>1. ASSUME NEW i \in Incident, CreateIncident(i) PROVE TypeOK'
    <3>1. incidents' \in [Incident -> IncidentRow]
      BY <1>2, <2>1 DEF CreateIncident, TypeOK, IncidentRow
    <3>2. QED
      BY <1>2, <2>1, <3>1 DEF CreateIncident, TypeOK
  <2>2. ASSUME NEW i \in Incident, NEW s \in {"open", "closed"}, SetStatus(i, s)
        PROVE  TypeOK'
    <3>1. incidents' \in [Incident -> IncidentRow]
      BY <1>2, <2>2 DEF SetStatus, TypeOK, IncidentRow
    <3>2. QED
      BY <1>2, <2>2, <3>1 DEF SetStatus, TypeOK
  <2>3. ASSUME NEW p \in Policy \cup {NoPolicy}, UpsertEscalationPolicy(p)
        PROVE  TypeOK'
    BY <1>2, <2>3 DEF UpsertEscalationPolicy, TypeOK
  <2>4. CASE Tick
    BY <1>2, <2>4 DEF Tick, TypeOK
  <2>5. ASSUME NEW w \in Replica, ReplicaCrash(w) PROVE TypeOK'
    <3>1. LoopGoesTo(w, "check", Nothing, {})
      BY <2>5 DEF ReplicaCrash, LoopGoesTo, Idle
    <3>2. /\ loop' \in [Replica -> LoopState]
          /\ \A v \in Replica : loop'[v].pc # "check" => loop'[v].at \in Seen
      BY <1>2, <3>1, LoopRestsType
    <3>3. QED
      BY <1>2, <2>5, <3>2 DEF ReplicaCrash, TypeOK
  <2>6. CASE UNCHANGED vars
    BY <1>2, <2>6 DEF vars, TypeOK
  <2>7. QED
    BY <1>2, <2>1, <2>2, <2>3, <2>4, <2>5, <2>6, LoopTypeOK DEF Next
<1>3. QED
  BY <1>1, <1>2, PTL DEF Spec

(* A row that does not exist has no steps, and a row never disappears. *)
Fresh == \A i \in Incident : incidents[i].status = "absent" => incidents[i].step = 0

LEMMA RowsStay ==
  ASSUME TypeOK, [Next]_vars
  PROVE  \A i \in Incident :
           /\ incidents[i].status # "absent" =>
                /\ incidents'[i].status # "absent"
                /\ incidents'[i].firedAt = incidents[i].firedAt
           /\ incidents'[i].status = "absent" => incidents'[i] = incidents[i]
<1> DEFINE Stay == \A i \in Incident :
           /\ incidents[i].status # "absent" =>
                /\ incidents'[i].status # "absent"
                /\ incidents'[i].firedAt = incidents[i].firedAt
           /\ incidents'[i].status = "absent" => incidents'[i] = incidents[i]
<1>1. ASSUME NEW i \in Incident, CreateIncident(i) PROVE Stay
  BY <1>1 DEF CreateIncident, TypeOK
<1>2. ASSUME NEW i \in Incident, NEW s \in {"open", "closed"}, SetStatus(i, s) PROVE Stay
  BY <1>2 DEF SetStatus, TypeOK, IncidentRow
<1>3. ASSUME NEW w \in Replica, IncrementEscalationStep(w) PROVE Stay
  <2>1. loop[w].at.incident \in Incident
    BY <1>3 DEF IncrementEscalationStep, TypeOK, Seen
  <2>2. CASE incidents' = incidents
    BY <2>2
  <2>3. CASE /\ Claimable(loop[w].at)
             /\ incidents' = [incidents EXCEPT ![loop[w].at.incident].step = @ + 1]
    BY <2>1, <2>3, StepUp DEF TypeOK, Claimable
  <2>4. QED
    BY <1>3, <2>2, <2>3 DEF IncrementEscalationStep
<1>4. incidents' = incidents => Stay
  OBVIOUS
<1> HIDE DEF Stay
<1>5. Stay
  BY <1>1, <1>2, <1>3, <1>4
  DEF Next, UpsertEscalationPolicy, Tick, LoopStep, CheckEscalations,
      CheckEscalationForIncident, FireAllChannels, ReplicaCrash, vars
<1>6. QED
  BY <1>5 DEF Stay

LEMMA AlwaysFresh == Spec => []Fresh
<1>1. Init => Fresh
  BY DEF Init, Fresh
<1>2. TypeOK /\ Fresh /\ [Next]_vars => Fresh'
  BY RowsStay DEF Fresh
<1>3. QED
  BY <1>1, <1>2, EscalationTypeCorrect, PTL DEF Spec

----------------------------------------------------------------------------
(* Paging at most once. *)
PagedInv == PagedAtMostOnce /\ PagesFollowClaims

LEMMA PageType ==
  ASSUME TypeOK, NEW k \in DOMAIN pages
  PROVE  pages[k].incident \in Incident /\ pages[k].step \in Nat
<1>1. pages[k] \in Seen
  BY DEF TypeOK
<1>2. QED
  BY <1>1 DEF Seen

(* Steps that neither claim nor page, and never lower a step. *)
LEMMA PagedSame ==
  ASSUME TypeOK, PagedInv, pages' = pages,
         \A i \in Incident : incidents'[i].step = incidents[i].step,
         \A w \in Replica : loop'[w].pc = "fire" => loop'[w] = loop[w]
  PROVE  PagedInv'
<1>1. \A k \in DOMAIN pages : pages[k].incident \in Incident
  BY PageType
<1>2. \A w \in Replica : loop[w].pc = "fire" => loop[w].at.incident \in Incident
  BY DEF TypeOK, Seen
<1>3. PagedAtMostOnce'
  BY DEF PagedInv, PagedAtMostOnce
<1>4. PagesFollowClaims'
  BY <1>1, <1>2 DEF PagedInv, PagesFollowClaims
<1>5. QED
  BY <1>3, <1>4 DEF PagedInv

(* The winner of a compare-and-set claims a step that no page and no other *)
(* claim has reached.                                                      *)
LEMMA ClaimPaged ==
  ASSUME TypeOK, PagedInv, NEW w \in Replica, IncrementEscalationStep(w)
  PROVE  PagedInv'
<1> DEFINE seen == loop[w].at
<1>1. seen \in Seen /\ seen.incident \in Incident /\ seen.step \in Nat
  BY DEF TypeOK, Seen, IncrementEscalationStep
<1>2. CASE NextIncident(w) /\ UNCHANGED incidents
  <2>1. \A v \in Replica : loop'[v].pc = "fire" => loop'[v] = loop[v]
    BY <1>2, LoopGoesToEffect DEF NextIncident, TypeOK
  <2>2. QED
    BY <1>2, <2>1, PagedSame DEF IncrementEscalationStep
<1>3. CASE /\ Claimable(seen)
           /\ incidents' = [incidents EXCEPT ![seen.incident].step = @ + 1]
           /\ \/ LoopGoesTo(w, "fire", seen, loop[w].todo)
              \/ NextIncident(w)
  <2>1. /\ incidents[seen.incident].step = seen.step
        /\ incidents'[seen.incident].step = seen.step + 1
        /\ \A j \in Incident : j # seen.incident => incidents'[j] = incidents[j]
    BY <1>1, <1>3, StepUp DEF TypeOK, Claimable
  <2>2. pages' = pages
    BY DEF IncrementEscalationStep
  <2>3. \A k \in DOMAIN pages : pages[k].incident \in Incident /\ pages[k].step \in Nat
    BY PageType
  <2>4. \A k \in DOMAIN pages : pages[k].step <= incidents'[pages[k].incident].step
    BY <1>1, <2>1, <2>3 DEF PagedInv, PagesFollowClaims
  <2>5. \A v \in Replica : loop[v].pc = "fire" =>
          loop[v].at.incident \in Incident /\ loop[v].at.step \in Nat
    BY DEF TypeOK, Seen
  <2>6. /\ \A v \in Replica : v # w => loop'[v] = loop[v]
        /\ loop'[w].pc = "fire" => loop'[w].at = seen
    BY <1>3, LoopGoesToEffect DEF NextIncident, TypeOK
  <2>7. \A v \in Replica : loop[v].pc = "fire" => loop[v].at # seen
    BY <1>1, <2>1, <2>5 DEF PagedInv, PagesFollowClaims
  <2>8. \A k \in DOMAIN pages :
          pages[k] # [incident |-> seen.incident, step |-> seen.step + 1]
    BY <1>1, <2>1, <2>3 DEF PagedInv, PagesFollowClaims
  <2>9. ASSUME NEW v \in Replica, loop'[v].pc = "fire"
        PROVE  LET s == loop'[v].at
               IN /\ s.step + 1 <= incidents'[s.incident].step
                  /\ \A k \in DOMAIN pages :
                       pages[k] # [incident |-> s.incident, step |-> s.step + 1]
                  /\ \A u \in Replica : loop'[u].pc = "fire" /\ loop'[u].at = s => u = v
    <3>1. CASE v = w
      BY <1>1, <2>1, <2>6, <2>7, <2>8, <2>9, <3>1
    <3>2. CASE v # w
      <4>1. loop'[v] = loop[v] /\ loop[v].pc = "fire"
        BY <2>6, <2>9, <3>2
      <4>2. loop[v].at.step + 1 <= incidents'[loop[v].at.incident].step
        BY <1>1, <2>1, <2>5, <4>1 DEF PagedInv, PagesFollowClaims
      <4>3. \A u \in Replica : loop'[u].pc = "fire" /\ loop'[u].at = loop[v].at => u = v
        BY <2>6, <2>7, <4>1 DEF PagedInv, PagesFollowClaims
      <4>4. QED
        BY <4>1, <4>2, <4>3 DEF PagedInv, PagesFollowClaims
    <3>3. QED
      BY <3>1, <3>2
  <2>10. QED
    BY <2>2, <2>4, <2>9 DEF PagedInv, PagedAtMostOnce, PagesFollowClaims
<1>4. QED
  BY <1>2, <1>3 DEF IncrementEscalationStep

(* Firing logs a claimed step that was not in the log. *)
LEMMA FirePaged ==
  ASSUME TypeOK, PagedInv, NEW w \in Replica, FireAllChannels(w)
  PROVE  PagedInv'
<1> DEFINE page == [incident |-> loop[w].at.incident, step |-> loop[w].at.step + 1]
<1>1. loop[w].pc = "fire" /\ loop[w].at \in Seen
  BY DEF TypeOK, FireAllChannels
<1>2. /\ \A v \in Replica : v # w => loop'[v] = loop[v]
      /\ loop'[w].pc = "check"
  BY LoopGoesToEffect DEF FireAllChannels, NextIncident, TypeOK
<1>3. /\ pages' = Append(pages, page) /\ incidents' = incidents
      /\ pages \in Seq(Seen)
  BY DEF FireAllChannels, TypeOK
<1>4. /\ DOMAIN pages' = DOMAIN pages \cup {Len(pages) + 1}
      /\ \A k \in DOMAIN pages : pages'[k] = pages[k]
      /\ pages'[Len(pages) + 1] = page
      /\ Len(pages) + 1 \notin DOMAIN pages
  BY <1>3
<1>5. \A k \in DOMAIN pages : pages[k] # page
  BY <1>1 DEF PagedInv, PagesFollowClaims
<1>6. PagedAtMostOnce'
  BY <1>4, <1>5 DEF PagedInv, PagedAtMostOnce
<1>7. page.step <= incidents[page.incident].step
  BY <1>1 DEF PagedInv, PagesFollowClaims
<1>8. \A v \in Replica : v # w /\ loop[v].pc = "fire" =>
        page # [incident |-> loop[v].at.incident, step |-> loop[v].at.step + 1]
  <2>1. ASSUME NEW v \in Replica, v # w, loop[v].pc = "fire",
               loop[v].at.incident = loop[w].at.incident,
               loop[v].at.step + 1 = loop[w].at.step + 1
        PROVE  FALSE
    <3>1. loop[v].at \in Seen
      BY <2>1 DEF TypeOK
    <3>2. loop[v].at = loop[w].at
      BY <1>1, <2>1, <3>1 DEF Seen
    <3>3. QED
      BY <1>1, <2>1, <3>2 DEF PagedInv, PagesFollowClaims
  <2>2. QED
    BY <2>1
<1>9. PagesFollowClaims'
  <2>1. \A k \in DOMAIN pages' : pages'[k].step <= incidents'[pages'[k].incident].step
    BY <1>3, <1>4, <1>7 DEF PagedInv, PagesFollowClaims
  <2>2. ASSUME NEW v \in Replica, loop'[v].pc = "fire"
        PROVE  LET s == loop'[v].at
               IN /\ s.step + 1 <= incidents'[s.incident].step
                  /\ \A k \in DOMAIN pages' :
                       pages'[k] # [incident |-> s.incident, step |-> s.step + 1]
                  /\ \A u \in Replica : loop'[u].pc = "fire" /\ loop'[u].at = s => u = v
    <3>1. v # w /\ loop'[v] = loop[v] /\ loop[v].pc = "fire"
      BY <1>2, <2>2
    <3>2. loop[v].at.step + 1 <= incidents'[loop[v].at.incident].step
      BY <1>3, <3>1 DEF PagedInv, PagesFollowClaims
    <3>3. \A k \in DOMAIN pages' :
            pages'[k] # [incident |-> loop[v].at.incident, step |-> loop[v].at.step + 1]
      BY <1>4, <1>8, <3>1 DEF PagedInv, PagesFollowClaims
    <3>4. \A u \in Replica : loop'[u].pc = "fire" /\ loop'[u].at = loop[v].at => u = v
      BY <1>2, <3>1 DEF PagedInv, PagesFollowClaims
    <3>5. QED
      BY <3>1, <3>2, <3>3, <3>4
  <2>3. QED
    BY <2>1, <2>2 DEF PagesFollowClaims
<1>10. QED
  BY <1>6, <1>9 DEF PagedInv

(* Whatever replicas read, crash or wait, whoever closes and reopens an    *)
(* incident and however often the policy changes, no step is paged twice.  *)
THEOREM StepsPagedAtMostOnce == Spec => []PagedAtMostOnce
<1>1. Init => PagedInv
  BY DEF Init, Idle, PagedInv, PagedAtMostOnce, PagesFollowClaims
<1>2. ASSUME TypeOK, Fresh, PagedInv, [Next]_vars PROVE PagedInv'
  <2>1. ASSUME NEW i \in Incident, CreateIncident(i) PROVE PagedInv'
    <3>1. \A j \in Incident : incidents'[j].step = incidents[j].step
      BY <1>2, <2>1 DEF CreateIncident, TypeOK, Fresh
    <3>2. QED
      BY <1>2, <2>1, <3>1, PagedSame DEF CreateIncident
  <2>2. ASSUME NEW i \in Incident, NEW s \in {"open", "closed"}, SetStatus(i, s)
        PROVE  PagedInv'
    <3>1. \A j \in Incident : incidents'[j].step = incidents[j].step
      BY <1>2, <2>2 DEF SetStatus, TypeOK, IncidentRow
    <3>2. QED
      BY <1>2, <2>2, <3>1, PagedSame DEF SetStatus
  <2>3. CASE Tick \/ \E p \in Policy \cup {NoPolicy} : UpsertEscalationPolicy(p)
    BY <1>2, <2>3, PagedSame DEF Tick, UpsertEscalationPolicy
  <2>4. ASSUME NEW w \in Replica, ReplicaCrash(w) PROVE PagedInv'
    <3>1. LoopGoesTo(w, "check", Nothing, {})
      BY <2>4 DEF ReplicaCrash, LoopGoesTo, Idle
    <3>2. \A v \in Replica : loop'[v].pc = "fire" => loop'[v] = loop[v]
      BY <1>2, <3>1, LoopGoesToEffect DEF TypeOK
    <3>3. QED
      BY <1>2, <2>4, <3>2, PagedSame DEF ReplicaCrash
  <2>5. ASSUME NEW w \in Replica,
               \/ CheckEscalations(w)
               \/ \E seen \in loop[w].todo : CheckEscalationForIncident(w, seen)
        PROVE  PagedInv'
    <3>1. \A v \in Replica : loop'[v].pc = "fire" => loop'[v] = loop[v]
      BY <1>2, <2>5, LoopGoesToEffect
      DEF CheckEscalations, CheckEscalationForIncident, TypeOK
    <3>2. QED
      BY <1>2, <2>5, <3>1, PagedSame DEF CheckEscalations, CheckEscalationForIncident
  <2>6. CASE UNCHANGED vars
    BY <1>2, <2>6, PagedSame DEF vars
  <2>7. QED
    BY <1>2, <2>1, <2>2, <2>3, <2>4, <2>5, <2>6, ClaimPaged, FirePaged DEF Next, LoopStep
<1>3. QED
  BY <1>1, <1>2, EscalationTypeCorrect, AlwaysFresh, PTL DEF Spec, PagedInv

----------------------------------------------------------------------------
(* Never early, never beyond the end. Arithmetic first. *)
LEMMA DivMod ==
  ASSUME NEW s \in Nat, NEW n \in Nat \ {0}
  PROVE  /\ s \div n \in Nat /\ s % n \in Nat /\ s % n <= n - 1
         /\ s = n * (s \div n) + (s % n)
<1>1. s \div n \in Nat
  OBVIOUS
<1>2. s % n \in 0 .. n - 1
  OBVIOUS
<1>3. s = n * (s \div n) + (s % n)
  OBVIOUS
<1>4. QED
  BY <1>1, <1>2, <1>3

LEMMA Products ==
  ASSUME NEW x \in Nat, NEW y \in Nat, NEW z \in Nat
  PROVE  /\ x * y \in Nat /\ x * y + z \in Nat
         /\ y <= z => x * y <= x * z
         /\ x * (y + 1) = x * y + x
  OBVIOUS

(* Threshold is a number of minutes. *)
LEMMA ThresholdType ==
  ASSUME NEW p \in Policy, NEW s \in Nat
  PROVE  /\ Threshold(p, s) \in Nat
         /\ Len(p.layers) \in Nat \ {0} /\ p.repeat \in Nat /\ p.max \in Nat
<1>1. p.layers \in Seq(Nat) /\ p.layers # << >> /\ p.repeat \in Nat /\ p.max \in Nat
  BY EscalationAssumption
<1>2. Len(p.layers) \in Nat \ {0}
  BY <1>1
<1>3. Repeat(p, s) \in Nat /\ (s % Len(p.layers)) + 1 \in 1 .. Len(p.layers)
  <2>1. PICK n \in Nat \ {0} : n = Len(p.layers)
    BY <1>2
  <2>2. s \div n \in Nat /\ s % n \in Nat /\ s % n <= n - 1
    BY DivMod
  <2>3. (s % n) + 1 \in 1 .. n
    BY <2>2
  <2>4. QED
    BY <2>1, <2>2, <2>3 DEF Repeat
<1>4. /\ p.layers[Len(p.layers)] + p.repeat \in Nat
      /\ Layer(p, s) \in Nat
  BY <1>1, <1>2, <1>3 DEF Layer
<1>5. (p.layers[Len(p.layers)] + p.repeat) * Repeat(p, s) + Layer(p, s) \in Nat
  BY <1>3, <1>4, Products
<1>6. Threshold(p, s) \in Nat
  BY <1>5 DEF Threshold
<1>7. QED
  BY <1>1, <1>2, <1>6

(* Work in progress concerns rows that exist, and a step that a replica is *)
(* about to claim was due when it was checked.                             *)
DueInv ==
  /\ \A w \in Replica : \A seen \in loop[w].todo :
       incidents[seen.incident].status # "absent"
  /\ \A w \in Replica : loop[w].pc # "check" =>
       incidents[loop[w].at.incident].status # "absent"
  /\ upserts = 0 =>
       \A w \in Replica : loop[w].pc \in {"claim", "skip"} => Due(policy, loop[w].at)
  /\ StepsAreDue

(* A due step stays due while the policy stands and its row exists. *)
LEMMA StaysDue ==
  ASSUME TypeOK, TypeOK', [Next]_vars, policy' = policy, NEW seen \in Seen,
         incidents[seen.incident].status # "absent", Due(policy, seen)
  PROVE  Due(policy, seen)'
<1>1. /\ now \in Nat /\ now' \in Nat /\ now' >= now
      /\ seen.incident \in Incident /\ seen.step + 1 \in Nat
      /\ incidents[seen.incident].firedAt \in Nat
      /\ policy \in Policy
  <2>1. now' = now \/ now' = now + 1
    BY DEF Next, CreateIncident, SetStatus, UpsertEscalationPolicy, Tick, LoopStep,
           CheckEscalations, CheckEscalationForIncident, IncrementEscalationStep,
           FireAllChannels, ReplicaCrash, vars
  <2>2. now \in Nat /\ policy \in Policy
    BY DEF TypeOK, Due
  <2>3. seen.incident \in Incident /\ seen.step + 1 \in Nat
    BY DEF Seen
  <2>4. incidents[seen.incident].firedAt \in Nat
    BY <2>3 DEF TypeOK, IncidentRow
  <2>5. QED
    BY <2>1, <2>2, <2>3, <2>4
<1>2. incidents'[seen.incident].firedAt = incidents[seen.incident].firedAt
  BY <1>1, RowsStay
<1>3. Threshold(policy, seen.step + 1) \in Nat
  BY <1>1, ThresholdType
<1>4. now' - incidents'[seen.incident].firedAt >= Threshold(policy, seen.step + 1)
  BY <1>1, <1>2, <1>3 DEF Due
<1>5. QED
  BY <1>4 DEF Due

(* A step of one loop, seen by the invariant. *)
LEMMA LoopDue ==
  ASSUME TypeOK, TypeOK', DueInv, NEW w \in Replica, LoopStep(w)
  PROVE  DueInv'
<1>1. UNCHANGED <<policy, upserts, now>>
  BY DEF LoopStep, CheckEscalations, CheckEscalationForIncident, IncrementEscalationStep,
         FireAllChannels
<1>2. \A i \in Incident :
        /\ incidents[i].status # "absent" =>
             /\ incidents'[i].status # "absent"
             /\ incidents'[i].firedAt = incidents[i].firedAt
        /\ incidents'[i].status = "absent" => incidents'[i] = incidents[i]
  BY RowsStay DEF Next
<1>3. \A v \in Replica :
        /\ loop[v].todo \subseteq Seen
        /\ loop[v].pc # "check" => loop[v].at \in Seen
  BY DEF TypeOK, LoopState
<1>4. \A seen \in Seen : seen.incident \in Incident /\ seen.step \in Nat
  BY DEF Seen
<1>5. \A seen \in Seen :
        incidents[seen.incident].status # "absent" /\ Due(policy, seen)
          => incidents'[seen.incident].status # "absent" /\ Due(policy, seen)'
  BY <1>1, <1>2, <1>4 DEF Due
<1>6. CASE CheckEscalations(w)
  <2>1. PICK S \in OpenIncidentsForEscalation :
          LoopGoesTo(w, "check", Nothing,
                     {[incident |-> i, step |-> incidents[i].step] : i \in S})
    BY <1>6 DEF CheckEscalations
  <2>2. \A seen \in {[incident |-> i, step |-> incidents[i].step] : i \in S} :
          incidents[seen.incident].status # "absent"
    BY DEF OpenIncidentsForEscalation, Candidates
  <2>3. incidents' = incidents
    BY <1>6 DEF CheckEscalations
  <2>4. /\ \A v \in Replica : v # w => loop'[v] = loop[v]
        /\ loop'[w].todo = {[incident |-> i, step |-> incidents[i].step] : i \in S}
        /\ loop'[w].pc = "check"
    BY <2>1, LoopGoesToEffect DEF TypeOK
  <2>5. \A v \in Replica : \A seen \in loop'[v].todo :
          incidents'[seen.incident].status # "absent"
    BY <2>2, <2>3, <2>4 DEF DueInv
  <2>6. QED
    BY <1>1, <2>3, <2>4, <2>5 DEF DueInv, StepsAreDue, Due
<1>7. ASSUME NEW seen \in loop[w].todo, CheckEscalationForIncident(w, seen)
      PROVE  DueInv'
  <2>1. /\ incidents' = incidents
        /\ seen \in Seen /\ incidents[seen.incident].status # "absent"
    BY <1>3, <1>7 DEF CheckEscalationForIncident, DueInv
  <2>2. /\ \A v \in Replica : v # w => loop'[v] = loop[v]
        /\ loop'[w].todo = loop[w].todo \ {seen}
        /\ \/ loop'[w].pc = "check"
           \/ loop'[w].at = seen /\ Due(policy, seen)
    BY <1>7, LoopGoesToEffect DEF CheckEscalationForIncident, TypeOK
  <2>3. QED
    BY <1>1, <2>1, <2>2 DEF DueInv, StepsAreDue, Due
<1>8. CASE IncrementEscalationStep(w)
  <2>1. /\ \A v \in Replica : v # w => loop'[v] = loop[v]
        /\ loop'[w].todo = loop[w].todo
        /\ loop'[w].pc = "check" \/ (loop'[w].pc = "fire" /\ loop'[w].at = loop[w].at)
    BY <1>8, LoopGoesToEffect DEF IncrementEscalationStep, NextIncident, TypeOK
  <2>2. loop[w].at \in Seen /\ loop[w].pc \in {"claim", "skip"}
    BY <1>3, <1>8 DEF IncrementEscalationStep
  <2>3. StepsAreDue'
    <3>1. CASE incidents' = incidents
      BY <1>1, <3>1 DEF DueInv, StepsAreDue
    <3>2. CASE /\ Claimable(loop[w].at)
               /\ incidents' = [incidents EXCEPT ![loop[w].at.incident].step = @ + 1]
      <4>1. /\ incidents'[loop[w].at.incident].step = loop[w].at.step + 1
            /\ incidents'[loop[w].at.incident].firedAt = incidents[loop[w].at.incident].firedAt
            /\ \A j \in Incident : j # loop[w].at.incident => incidents'[j] = incidents[j]
        BY <1>4, <2>2, <3>2, StepUp DEF Claimable, TypeOK
      <4>2. upserts = 0 => Due(policy, loop[w].at)
        BY <2>2 DEF DueInv
      <4>3. QED
        BY <1>1, <4>1, <4>2 DEF DueInv, StepsAreDue, Due
    <3>3. QED
      BY <1>8, <3>1, <3>2 DEF IncrementEscalationStep
  <2>4. \A v \in Replica : \A seen \in loop'[v].todo :
          incidents'[seen.incident].status # "absent"
    BY <1>2, <1>3, <1>4, <2>1 DEF DueInv
  <2>5. \A v \in Replica : loop'[v].pc # "check" =>
          incidents'[loop'[v].at.incident].status # "absent"
    BY <1>2, <1>3, <1>4, <2>1, <2>2 DEF DueInv
  <2>6. upserts' = 0 =>
          \A v \in Replica : loop'[v].pc \in {"claim", "skip"} => Due(policy, loop[v].at)'
    BY <1>1, <1>3, <1>5, <2>1 DEF DueInv
  <2>7. QED
    BY <2>1, <2>3, <2>4, <2>5, <2>6 DEF DueInv
<1>9. CASE FireAllChannels(w)
  <2>1. /\ \A v \in Replica : v # w => loop'[v] = loop[v]
        /\ loop'[w].todo = loop[w].todo /\ loop'[w].pc = "check"
        /\ incidents' = incidents
    BY <1>9, LoopGoesToEffect DEF FireAllChannels, NextIncident, TypeOK
  <2>2. QED
    BY <1>1, <2>1 DEF DueInv, StepsAreDue, Due
<1>10. QED
  BY <1>6, <1>7, <1>8, <1>9 DEF LoopStep

LEMMA DueInductive == Spec => []DueInv
<1>1. Init => DueInv
  BY DEF Init, Idle, DueInv, StepsAreDue
<1>2. ASSUME TypeOK, TypeOK', Fresh, DueInv, [Next]_vars PROVE DueInv'
  <2>1. ASSUME NEW w \in Replica, LoopStep(w) PROVE DueInv'
    BY <1>2, <2>1, LoopDue
  <2>2. CASE \E w \in Replica : LoopStep(w)
    BY <2>1, <2>2
  <2>3. ASSUME \A v \in Replica : loop'[v] = loop[v] \/ loop'[v] = Idle,
               \/ upserts' > 0
               \/ /\ policy' = policy /\ upserts' = upserts
                  /\ \A i \in Incident : incidents'[i].step = incidents[i].step
        PROVE  DueInv'
    <3>1. \A i \in Incident : incidents[i].status # "absent" =>
            /\ incidents'[i].status # "absent"
            /\ incidents'[i].firedAt = incidents[i].firedAt
      BY <1>2, RowsStay
    <3>2. \A v \in Replica :
            /\ loop[v].todo \subseteq Seen
            /\ loop[v].pc # "check" => loop[v].at \in Seen
      BY <1>2 DEF TypeOK, LoopState
    <3>3. \A seen \in Seen : seen.incident \in Incident
      BY DEF Seen
    <3>4. \A v \in Replica : \A seen \in loop'[v].todo :
            incidents'[seen.incident].status # "absent"
      BY <1>2, <2>3, <3>1, <3>2, <3>3 DEF DueInv, Idle
    <3>5. \A v \in Replica : loop'[v].pc # "check" =>
            incidents'[loop'[v].at.incident].status # "absent"
      BY <1>2, <2>3, <3>1, <3>2, <3>3 DEF DueInv, Idle
    <3>6. ASSUME upserts' = 0, NEW v \in Replica, loop'[v].pc \in {"claim", "skip"}
          PROVE  Due(policy, loop[v].at)'
      <4>1. /\ loop'[v] = loop[v] /\ loop[v].at \in Seen
            /\ policy' = policy /\ upserts = 0
        BY <1>2, <2>3, <3>2, <3>6 DEF Idle
      <4>2. Due(policy, loop[v].at) /\ incidents[loop[v].at.incident].status # "absent"
        BY <1>2, <3>6, <4>1 DEF DueInv
      <4>3. QED
        BY <1>2, <4>1, <4>2, StaysDue DEF Due
    <3>7. ASSUME upserts' = 0, NEW i \in Incident, incidents'[i].step > 0
          PROVE  /\ policy' # NoPolicy
                 /\ Continues(policy', incidents'[i].step)
                 /\ now' - incidents'[i].firedAt >= Threshold(policy', incidents'[i].step)
      <4>1. /\ policy' = policy /\ upserts = 0
            /\ incidents'[i].step = incidents[i].step
            /\ incidents[i].step - 1 \in Nat
        BY <1>2, <2>3, <3>7 DEF TypeOK, IncidentRow
      <4> DEFINE seen == [incident |-> i, step |-> incidents[i].step - 1]
      <4>2. seen \in Seen /\ seen.incident = i /\ seen.step + 1 = incidents[i].step
        BY <1>2, <4>1 DEF Seen, TypeOK, IncidentRow
      <4>3. incidents[i].status # "absent"
        BY <1>2, <3>7, <4>1 DEF Fresh
      <4>4. Due(policy, seen)
        BY <1>2, <3>7, <4>1, <4>2 DEF DueInv, StepsAreDue, Due
      <4>5. Due(policy, seen)'
        BY <1>2, <4>1, <4>2, <4>3, <4>4, StaysDue
      <4>6. seen' = seen
        BY <4>1
      <4>7. QED
        BY <4>1, <4>2, <4>5, <4>6 DEF Due
    <3>8. StepsAreDue'
      BY <3>7 DEF StepsAreDue
    <3>9. QED
      BY <3>4, <3>5, <3>6, <3>8 DEF DueInv
  <2>4. ASSUME NEW i \in Incident, CreateIncident(i) PROVE DueInv'
    <3>1. \A j \in Incident : incidents'[j].step = incidents[j].step
      BY <1>2, <2>4 DEF CreateIncident, TypeOK, Fresh
    <3>2. QED
      BY <2>3, <2>4, <3>1 DEF CreateIncident
  <2>5. ASSUME NEW i \in Incident, NEW s \in {"open", "closed"}, SetStatus(i, s)
        PROVE  DueInv'
    <3>1. \A j \in Incident : incidents'[j].step = incidents[j].step
      BY <1>2, <2>5 DEF SetStatus, TypeOK, IncidentRow
    <3>2. QED
      BY <2>3, <2>5, <3>1 DEF SetStatus
  <2>6. CASE Tick \/ UNCHANGED vars
    BY <2>3, <2>6 DEF Tick, vars
  <2>7. ASSUME NEW p, UpsertEscalationPolicy(p) PROVE DueInv'
    BY <1>2, <2>3, <2>7 DEF UpsertEscalationPolicy, TypeOK
  <2>8. ASSUME NEW w \in Replica, ReplicaCrash(w) PROVE DueInv'
    <3>1. \A v \in Replica : loop'[v] = loop[v] \/ loop'[v] = Idle
      BY <1>2, <2>8 DEF ReplicaCrash, TypeOK
    <3>2. QED
      BY <2>3, <2>8, <3>1 DEF ReplicaCrash
  <2>9. QED
    BY <1>2, <2>2, <2>4, <2>5, <2>6, <2>7, <2>8 DEF Next
<1>3. QED
  BY <1>1, <1>2, EscalationTypeCorrect, AlwaysFresh, PTL DEF Spec

(* Under a policy that does not change no step is taken before its time,   *)
(* in the first cycle and in every repeat, and no step beyond the policy.  *)
THEOREM NoStepIsEarly == Spec => []StepsAreDue
  BY DueInductive, PTL DEF DueInv

(* ... and so an incident has at most the steps of one cycle and of        *)
(* max_repeats more: the guard on the repeat number bounds the step.       *)
THEOREM EscalationIsBounded == Spec => []EscalationEnds
<1>1. ASSUME TypeOK, StepsAreDue PROVE EscalationEnds
  <2>1. SUFFICES ASSUME upserts = 0, policy # NoPolicy, policy.max > 0 \/ policy.repeat = 0,
                        NEW i \in Incident
                 PROVE  incidents[i].step <= LastStep(policy)
    BY DEF EscalationEnds
  <2> DEFINE s == incidents[i].step
             n == Len(policy.layers)
  <2>2. s \in Nat /\ policy \in Policy
    BY <1>1, <2>1 DEF TypeOK, IncidentRow
  <2>3. n \in Nat \ {0} /\ policy.max \in Nat /\ policy.repeat \in Nat
    BY <2>2, ThresholdType
  <2>4. s > 0 => /\ ~(policy.max > 0 /\ s \div n > policy.max)
                 /\ ~(policy.repeat = 0 /\ s \div n > 0)
    BY <1>1, <2>1 DEF StepsAreDue, Continues, Repeat
  <2> HIDE DEF s, n
  <2>5. /\ s \div n \in Nat /\ s % n \in Nat /\ s % n <= n - 1
        /\ s = n * (s \div n) + (s % n)
    BY <2>2, <2>3, DivMod
  <2>6. n * (policy.max + 1) = n * policy.max + n /\ n * policy.max \in Nat
    BY <2>3, Products
  <2>7. CASE policy.repeat = 0
    <3>1. s <= n - 1
      BY <2>2, <2>3, <2>4, <2>5, <2>7
    <3>2. QED
      BY <2>7, <3>1 DEF LastStep, s, n
  <2>8. CASE policy.repeat # 0
    <3>1. s > 0 => s \div n <= policy.max
      BY <2>1, <2>3, <2>4, <2>5, <2>8
    <3>2. s > 0 => n * (s \div n) <= n * policy.max
      BY <2>3, <2>5, <3>1, Products
    <3>3. s <= n * (policy.max + 1) - 1
      BY <2>2, <2>3, <2>5, <2>6, <3>2
    <3>4. QED
      BY <2>8, <3>3 DEF LastStep, s, n
  <2>9. QED
    BY <2>7, <2>8
<1>2. QED
  BY <1>1, EscalationTypeCorrect, NoStepIsEarly, PTL
============================================================================

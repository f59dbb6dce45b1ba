------------------------------- MODULE OnCall -------------------------------
(***************************************************************************)
(* On-call duty of one team: how a rotation, its layers and their weekly   *)
(* windows are resolved, the rows of schedules and schedule_overrides with *)
(* the endpoints that write them, and the readers that must tell the same  *)
(* story: GetOnCallAt, GetEscalationChain, the worker's resolveLayerMember *)
(* and the timeline. Readers take the time they are asked about as an      *)
(* argument. Time is counted in units of DayLength to a day from a Monday  *)
(* midnight UTC, the zone every process runs in.                           *)
(***************************************************************************)
EXTENDS Integers, Sequences, FiniteSets

CONSTANTS
  User,            \* identities: rows of local_users and sso_identities
  NoUser, Failed,  \* uuid.Nil or a nil member; an error
  NoStart,         \* a rotation_start that time.Parse refuses
  Config,          \* rotation_config documents that are stored
  Setting,         \* bodies of PUT /schedule: a config and enabled
  Span,            \* windows asked for in override requests
  Request,         \* requests in progress, on any server
  Policy,          \* escalation policies, as sequences of layers
  DayLength,       \* units of time in a day, noon among them
  MaxOverrides     \* bound: overrides that are ever created

VARIABLES
  schedules,       \* schedules, by id: the n-th row inserted is row n
  overrides,       \* schedule_overrides, likewise; Gone when deleted
  requests,        \* requests that are between two statements
  members,         \* GetTeamMembers
  known,           \* GetMemberByID finds them, also outside the team
  raced            \* history: two first PUTs both found no row to update

vars == <<schedules, overrides, requests, members, known, raced>>

Week == 7 * DayLength

Day == <<"monday", "tuesday", "wednesday", "thursday", "friday", "saturday", "sunday">>

Stored == [config : Config, enabled : BOOLEAN]

Layered == {c \in Config : c.type = "layered"}

ASSUME OnCallAssumption ==
  /\ NoUser \notin User /\ Failed \notin User /\ NoUser # Failed
  /\ DayLength \in Nat \ {0}
  /\ MaxOverrides \in Nat
  /\ Setting \subseteq Stored
  /\ Span \subseteq Nat \X Nat
  /\ \A p \in Policy : p \in Seq([schedule : Nat, user : User \cup {NoUser}])

(* Documents as their readers unmarshal them: times of day from 00:00 to   *)
(* 24:00, days, orders and restrictions as anybody may write them.         *)
Window == [startDay : STRING, startTime : 0 .. DayLength,
           endDay : STRING, endTime : 0 .. DayLength]

LayerShape ==
  [order : Int, restriction : [type : STRING, windows : Seq(Window)], members : Seq(User)]

LayeredRotation ==
  [type : {"layered"}, start : Nat \cup {NoStart}, interval : Int, layers : Seq(LayerShape)]

DayAssignment == [day : STRING, user : User]

WeeklyRotation == [type : STRING \ {"layered"}, rotation : Seq(DayAssignment)]

ASSUME DocumentAssumption == Config \subseteq LayeredRotation \cup WeeklyRotation

Override == [schedule : Nat, user : User, start : Nat, end : Nat]

Gone == [schedule |-> 0]

NoSetting == [enabled |-> FALSE]
NoSpan == <<0, 0>>

RequestState ==
  [pc : {"idle", "insert", "schedule", "create"},
   setting : Setting \cup {NoSetting},        \* body of a PUT
   user : User \cup {NoUser},                 \* body of a POST
   span : Span \cup {NoSpan},
   schedule : Nat]                            \* the row GetSchedule returned

Idle == [pc |-> "idle", setting |-> NoSetting, user |-> NoUser, span |-> NoSpan, schedule |-> 0]

TypeOK ==
  /\ schedules \in Seq(Stored)
  /\ overrides \in Seq(Override \cup {Gone})
  /\ requests \in [Request -> RequestState]
  /\ members \subseteq known /\ known \subseteq User
  /\ raced \in BOOLEAN
  /\ \A o \in DOMAIN overrides :
       overrides[o] # Gone =>
         /\ overrides[o].schedule \in DOMAIN schedules
         /\ overrides[o].start < overrides[o].end

(* A team without a schedule, or with one. *)
Init ==
  /\ schedules \in {<<>>} \cup {<<s>> : s \in Stored}
  /\ overrides = <<>>
  /\ requests = [r \in Request |-> Idle]
  /\ members = User
  /\ known = User
  /\ raced = FALSE

----------------------------------------------------------------------------
(* Rotations *)

weekdayIndex(name) ==
  IF \E i \in DOMAIN Day : Day[i] = name
  THEN (CHOOSE i \in DOMAIN Day : Day[i] = name) - 1
  ELSE 0

weekday(t) == (t \div DayLength) % 7

startOfWeek(t) == t - (t % Week)

(* Minutes since Monday, of a window's end and of t. A time of day may be  *)
(* 24:00.                                                                  *)
Total(day, time) == weekdayIndex(day) * DayLength + time
TotalOf(t) == t % Week

(* Mutant: the end of a wrapping window counts as covered. *)
Covers_EndIncluded(start, end, at) ==
  IF start <= end THEN start <= at /\ at < end ELSE start <= at \/ at <= end

Covers(start, end, at) ==
  IF start <= end THEN start <= at /\ at < end ELSE start <= at \/ at < end

windowCovers(w, t) ==
  Covers(Total(w.startDay, w.startTime), Total(w.endDay, w.endTime), TotalOf(t))

layerActiveAt(tr, t) ==
  CASE tr.type = "weekdays" -> weekday(t) \in 0 .. 4
    [] tr.type = "weekends" -> weekday(t) \in 5 .. 6
    [] tr.type = "custom"   -> \E k \in DOMAIN tr.windows : windowCovers(tr.windows[k], t)
    [] OTHER                -> TRUE

(* Mutant: a layer without an order comes first, as 0 does in an int. *)
Before_ZeroFirst(a, b) == a < b

(* The order of sort.SliceStable: positive orders ascend, others follow. *)
Before(a, b) == a > 0 /\ (b <= 0 \/ a < b)

(* The layers that a stable sort puts in front of layer i. *)
InFront(layers, i) ==
  {j \in DOMAIN layers : \/ Before(layers[j].order, layers[i].order)
                         \/ ~Before(layers[i].order, layers[j].order) /\ j < i}

sortedLayers(layers) ==
  [k \in DOMAIN layers |->
     layers[CHOOSE i \in DOMAIN layers : Cardinality(InFront(layers, i)) = k - 1]]

(* The layers of each document that is stored, in their order. *)
Sorted == [c \in Layered |-> sortedLayers(c.layers)]

Interval(c) == IF c.interval <= 0 THEN Week ELSE c.interval

(* Mutant: the rotation starts over every Monday. *)
Anchor_EveryWeek(c, t) == startOfWeek(t)

Anchor(c, t) == IF c.start = NoStart THEN startOfWeek(t) ELSE c.start

Elapsed(c, t) == IF t < Anchor(c, t) THEN 0 ELSE t - Anchor(c, t)

(* Whose turn it is in a layer, whether or not the layer is active. *)
TurnOf(c, layer, t) ==
  layer.members[((Elapsed(c, t) \div Interval(c)) % Len(layer.members)) + 1]

CoversLayer(layer, t) == layer.members # <<>> /\ layerActiveAt(layer.restriction, t)

resolveWeekly(c, t) ==
  LET today == {k \in DOMAIN c.rotation : c.rotation[k].day = Day[weekday(t) + 1]}
  IN IF today = {} THEN NoUser
     ELSE c.rotation[CHOOSE k \in today : \A j \in today : k <= j].user

resolveLayered(c, t) ==
  LET layers == Sorted[c]
      active == {k \in DOMAIN layers : CoversLayer(layers[k], t)}
  IN IF layers = <<>> THEN Failed
     ELSE IF active = {} THEN NoUser
     ELSE TurnOf(c, layers[CHOOSE k \in active : \A j \in active : k <= j], t)

resolveRotationUserID(c, t) ==
  IF c.type = "layered" THEN resolveLayered(c, t) ELSE resolveWeekly(c, t)

(* Mutant: the layers as the document lists them. *)
resolveLayeredAllLayers_Unsorted(c, t) ==
  [k \in DOMAIN c.layers |->
     IF CoversLayer(c.layers[k], t) THEN TurnOf(c, c.layers[k], t) ELSE NoUser]

resolveLayeredAllLayers(c, t) ==
  LET layers == Sorted[c]
  IN [k \in DOMAIN layers |->
        IF CoversLayer(layers[k], t) THEN TurnOf(c, layers[k], t) ELSE NoUser]

ResolveAllLayersAt(c, t) ==
  IF c.type = "layered" THEN resolveLayeredAllLayers(c, t) ELSE <<resolveWeekly(c, t)>>

----------------------------------------------------------------------------
(* Reads of the store *)

(* GetSchedule: LIMIT 1 without an order returns any enabled row. *)
GetSchedule == {s \in DOMAIN schedules : schedules[s].enabled}

(* Also a disabled one. *)
GetScheduleByID(s) == s \in DOMAIN schedules

Standing(s) == {o \in DOMAIN overrides : overrides[o].schedule = s}

(* At most one: the newest that covers t. *)
GetActiveOverrideForSchedule(s, t) ==
  LET active == {o \in Standing(s) : overrides[o].start <= t /\ t < overrides[o].end}
  IN {o \in active : \A p \in active : p <= o}

GetMemberByID(u) == IF u \in known THEN u ELSE NoUser

resolveRotation(s, t) ==
  LET u == resolveRotationUserID(schedules[s].config, t)
  IN IF u \in User THEN GetMemberByID(u) ELSE u

(* s is the row that GetSchedule returned. *)
GetOnCallAt(s, t) ==
  IF GetActiveOverrideForSchedule(s, t) # {}
  THEN GetMemberByID(overrides[CHOOSE o \in GetActiveOverrideForSchedule(s, t) : TRUE].user)
  ELSE resolveRotation(s, t)

(* Mutant: a schedule layer is resolved from the rotation alone. *)
ChainMember_RotationOnly(layer, t, readFails) ==
  IF layer.user # NoUser THEN GetMemberByID(layer.user)
  ELSE IF ~GetScheduleByID(layer.schedule) THEN NoUser
  ELSE LET rotation == resolveRotationUserID(schedules[layer.schedule].config, t)
       IN IF rotation \in User THEN GetMemberByID(rotation) ELSE NoUser

(* The member a layer of an escalation policy names, if any; the layer is  *)
(* left out of the chain otherwise. GetScheduleByID also finds a disabled  *)
(* schedule; a failing read of the overrides falls back to the rotation.   *)
ChainMember(layer, t, readFails) ==
  CASE layer.user # NoUser -> GetMemberByID(layer.user)
    [] layer.user = NoUser /\ ~GetScheduleByID(layer.schedule) -> NoUser
    [] OTHER ->
         LET s == layer.schedule
             active == IF readFails THEN {} ELSE GetActiveOverrideForSchedule(s, t)
             rotation == resolveRotationUserID(schedules[s].config, t)
         IN IF active # {} THEN GetMemberByID(overrides[CHOOSE o \in active : TRUE].user)
            ELSE IF rotation \in User THEN GetMemberByID(rotation) ELSE NoUser

(* Layers that resolve to nobody are passed over. *)
Named(list) == SelectSeq(list, LAMBDA u : u # NoUser)

(* GetEscalationChain under policy p, a sequence of members; Failed when a *)
(* layer names both or neither, or when no layer resolves.                 *)
GetEscalationChain(p, t, readFails) ==
  LET chain == Named([k \in DOMAIN p |-> ChainMember(p[k], t, readFails)])
  IN IF \/ \E k \in DOMAIN p : (p[k].schedule = 0) = (p[k].user = NoUser)
        \/ chain = <<>>
     THEN <<Failed>> ELSE chain

(* handleGetOnCallTimeline, its final user of a day: the override that     *)
(* starts first of those that touch the day, else the first layer covered  *)
(* at noon. Members are not looked up.                                     *)
Touching(s, day) ==
  {o \in Standing(s) : /\ overrides[o].start < (day + 1) * DayLength
                       /\ day * DayLength < overrides[o].end}

Noon(day) == day * DayLength + DayLength \div 2

TimelineRotation(c, t) ==
  LET layers == ResolveAllLayersAt(c, t)
      covered == {k \in DOMAIN layers : layers[k] # NoUser}
  IN IF covered = {} THEN NoUser
     ELSE layers[CHOOSE k \in covered : \A j \in covered : k <= j]

Timeline(s, day) ==
  LET touching == Touching(s, day)
      first == {o \in touching : \A p \in touching : overrides[o].start <= overrides[p].start}
  IN IF first # {} THEN {overrides[o].user : o \in first}
     ELSE {TimelineRotation(schedules[s].config, Noon(day))}

(* The worker's resolveLayerMember, who an escalation step pages: the      *)
(* override, else the first of all layers with a user.                     *)
resolveLayerMember(s, t, readFails) ==
  LET active == IF readFails THEN {} ELSE GetActiveOverrideForSchedule(s, t)
  IN IF ~GetScheduleByID(s) THEN NoUser
     ELSE IF active # {} THEN GetMemberByID(overrides[CHOOSE o \in active : TRUE].user)
     ELSE GetMemberByID(TimelineRotation(schedules[s].config, t))

(* checkEscalationForIncident: a fixed person goes before the schedule. *)
EscalatesTo(layer, t, readFails) ==
  IF layer.user # NoUser THEN GetMemberByID(layer.user)
  ELSE resolveLayerMember(layer.schedule, t, readFails)

----------------------------------------------------------------------------
(* Endpoints *)

Ends(r) == requests' = [requests EXCEPT ![r] = Idle]

(* Mutant: UPDATE ... WHERE team_id = $4 AND enabled. *)
UpsertUpdate_EnabledOnly(r, body) ==
  /\ requests[r] = Idle
  /\ IF GetSchedule # {}
     THEN /\ schedules' = [s \in DOMAIN schedules |->
                             IF schedules[s].enabled THEN body ELSE schedules[s]]
          /\ UNCHANGED <<requests, raced>>
     ELSE /\ requests' = [requests EXCEPT ![r] = [Idle EXCEPT !.pc = "insert", !.setting = body]]
          /\ raced' = (raced \/ \E q \in Request : requests[q].pc = "insert")
          /\ UNCHANGED schedules
  /\ UNCHANGED <<overrides, members, known>>

(* handleUpsertSchedule. UpsertSchedule's UPDATE writes every row of the   *)
(* team; only when there is none does the request go on to its INSERT.     *)
UpsertUpdate(r, body) ==
  /\ requests[r] = Idle
  /\ IF schedules # <<>>
     THEN /\ schedules' = [s \in DOMAIN schedules |-> body]
          /\ UNCHANGED <<requests, raced>>
     ELSE /\ requests' = [requests EXCEPT ![r] = [Idle EXCEPT !.pc = "insert", !.setting = body]]
          /\ raced' = (raced \/ \E q \in Request : requests[q].pc = "insert")
          /\ UNCHANGED schedules
  /\ UNCHANGED <<overrides, members, known>>

UpsertInsert(r) ==
  /\ requests[r].pc = "insert"
  /\ schedules' = Append(schedules, requests[r].setting)
  /\ Ends(r)
  /\ UNCHANGED <<overrides, members, known, raced>>

(* Mutant: without "end_at must be after start_at". *)
CreateOverrideCheck_AnySpan(r, u, span) ==
  /\ requests[r] = Idle
  /\ u \in members
  /\ requests' = [requests EXCEPT ![r] = [Idle EXCEPT !.pc = "schedule", !.user = u, !.span = span]]
  /\ UNCHANGED <<schedules, overrides, members, known, raced>>

(* handleCreateOverride: the member list and the window, the schedule, the *)
(* INSERT. Bound: MaxOverrides.                                            *)
CreateOverrideCheck(r, u, span) ==
  /\ requests[r] = Idle
  /\ u \in members
  /\ span[1] < span[2]
  /\ requests' = [requests EXCEPT ![r] = [Idle EXCEPT !.pc = "schedule", !.user = u, !.span = span]]
  /\ UNCHANGED <<schedules, overrides, members, known, raced>>

CreateOverrideSchedule(r) ==
  /\ requests[r].pc = "schedule"
  /\ \/ \E s \in GetSchedule :
          requests' = [requests EXCEPT ![r].pc = "create", ![r].schedule = s]
     \/ GetSchedule = {} /\ Ends(r)                 \* 409
  /\ UNCHANGED <<schedules, overrides, members, known, raced>>

CreateOverride(r) ==
  /\ requests[r].pc = "create"
  /\ Len(overrides) < MaxOverrides
  /\ overrides' = Append(overrides, [schedule |-> requests[r].schedule, user |-> requests[r].user,
                                     start |-> requests[r].span[1], end |-> requests[r].span[2]])
  /\ Ends(r)
  /\ UNCHANGED <<schedules, members, known, raced>>

(* A statement fails: 500, and what was written before it stays. *)
RequestFails(r) ==
  /\ requests[r].pc # "idle"
  /\ Ends(r)
  /\ UNCHANGED <<schedules, overrides, members, known, raced>>

DeleteOverride(o) ==
  /\ overrides[o] # Gone
  /\ overrides' = [overrides EXCEPT ![o] = Gone]
  /\ UNCHANGED <<schedules, requests, members, known, raced>>

(* A user loses the last group that leads to the team, or is deactivated;  *)
(* the row of a local user is deleted. Overrides keep the id: their        *)
(* foreign key was dropped. Bound: one user stays.                         *)
MemberLeaves(u) ==
  /\ members # {u}
  /\ members' = members \ {u}
  /\ UNCHANGED <<schedules, overrides, requests, known, raced>>

DeleteLocalUser(u) ==
  /\ members # {u}
  /\ members' = members \ {u}
  /\ known' = known \ {u}
  /\ UNCHANGED <<schedules, overrides, requests, raced>>

Next ==
  \/ \E r \in Request, body \in Setting : UpsertUpdate(r, body)
  \/ \E r \in Request, u \in User, span \in Span : CreateOverrideCheck(r, u, span)
  \/ \E r \in Request : \/ UpsertInsert(r) \/ CreateOverrideSchedule(r)
                        \/ CreateOverride(r) \/ RequestFails(r)
  \/ \E o \in DOMAIN overrides : DeleteOverride(o)
  \/ \E u \in User : MemberLeaves(u) \/ DeleteLocalUser(u)

Spec == Init /\ [][Next]_vars

----------------------------------------------------------------------------
(* UpsertSchedule "Updates in-place if a schedule already exists": unless  *)
(* two first PUTs raced, the team has one row, and the newest override     *)
(* that covers a time decides it however often the schedule was replaced,  *)
(* disabled and enabled again since it was accepted.                       *)
OverrideHolds ==
  raced \/
    /\ Len(schedules) <= 1
    /\ \A r \in Request : requests[r].pc = "insert" => schedules = <<>>
    /\ \A s \in GetSchedule, o \in DOMAIN overrides :
         overrides[o] # Gone =>
           LET decided == {t \in overrides[o].start .. overrides[o].end - 1 :
                             \A p \in DOMAIN overrides :
                               p > o /\ overrides[p] # Gone =>
                                 t \notin overrides[p].start .. overrides[p].end - 1}
           IN \A t \in decided : GetOnCallAt(s, t) = GetMemberByID(overrides[o].user)

(* The timeline and the pager are written twice, one on all layers and one *)
(* on the first active layer: on a day without overrides, or whose only    *)
(* override covers noon, the final user of the timeline is the user that   *)
(* GetOnCallAt would page at noon, if that user still exists.              *)
TimelineAgrees ==
  \A s \in GetSchedule, day \in 0 .. 6 :
    /\ \/ Touching(s, day) = {}
       \/ Touching(s, day) = GetActiveOverrideForSchedule(s, Noon(day))
    /\ GetOnCallAt(s, Noon(day)) # Failed
    => \A u \in Timeline(s, day) : GetMemberByID(u) = GetOnCallAt(s, Noon(day))

(* GetOnCallAt (the first page), the escalation loop and GetEscalationChain *)
(* each resolve a schedule in code of their own. Whatever overrides,        *)
(* replaced or disabled schedules and deleted people there are, the chain   *)
(* of a policy whose layers name one target each lists exactly the members  *)
(* that the loop pages, also when an override cannot be read; and the       *)
(* person GetOnCallAt names for an enabled schedule is the one a layer with *)
(* that schedule pages, when every read succeeds.                           *)
ChainAgrees ==
  \A p \in Policy, t \in 0 .. Week - 1, readFails \in BOOLEAN :
    /\ readFails => \E s \in DOMAIN schedules : GetActiveOverrideForSchedule(s, t) # {}
    /\ \A k \in DOMAIN p : (p[k].schedule = 0) # (p[k].user = NoUser)
    => LET paged == Named([k \in DOMAIN p |-> EscalatesTo(p[k], t, readFails)])
       IN /\ GetEscalationChain(p, t, readFails) = IF paged = <<>> THEN <<Failed>> ELSE paged
          /\ \A k \in DOMAIN p :
               LET first == GetOnCallAt(p[k].schedule, t)
               IN /\ ~readFails /\ p[k].user = NoUser /\ p[k].schedule \in GetSchedule
                  /\ first \in User
                  => EscalatesTo(p[k], t, readFails) = first

(* A window covers the units from its start up to its end on the circle of *)
(* the week, also across Sunday midnight, with 24:00 for an end or a start *)
(* and with days that weekdayIndex does not know; Ahead is the distance on *)
(* that circle.                                                            *)
Ahead(from, to) == IF from <= to THEN to - from ELSE to - from + Week

ArcsIn ==
  [c \in Layered |->
     \A k \in DOMAIN c.layers :
       \A n \in DOMAIN c.layers[k].restriction.windows, t \in 0 .. 2 * Week :
         LET w == c.layers[k].restriction.windows[n]
             start == Total(w.startDay, w.startTime)
             end == Total(w.endDay, w.endTime)
         IN windowCovers(w, t) <=> Ahead(start, TotalOf(t)) < Ahead(start, end)]

StoredLayered == {c \in Layered : \E s \in DOMAIN schedules : schedules[s].config = c}

WindowsAreArcs == \A c \in StoredLayered : ArcsIn[c]

(* "Members cycle through in order on a fixed interval": from a start that *)
(* parses, every stretch of one full cycle gives each place in a layer one *)
(* interval, whatever Mondays fall into it.                                *)
FairIn ==
  [c \in Layered |->
     c.start # NoStart =>
       \A k \in DOMAIN c.layers, u \in User, t \in c.start .. c.start + Week :
         LET m == c.layers[k].members
             turns == {x \in t .. t + Len(m) * Interval(c) - 1 : TurnOf(c, c.layers[k], x) = u}
         IN Cardinality(turns) = Interval(c) * Cardinality({n \in DOMAIN m : m[n] = u})]

TurnsAreFair == \A c \in StoredLayered : FairIn[c]

(* "It uses the first active layer (lowest LayerOrder)": whoever is on     *)
(* call has the turn in a covering layer that no covering layer precedes,  *)
(* where positive orders ascend, layers without one follow, and layers of  *)
(* one order keep their places.                                            *)
Precedes(layers, i, j) ==
  \/ layers[i].order > 0 /\ layers[j].order > layers[i].order
  \/ layers[i].order > 0 /\ layers[j].order <= 0
  \/ i < j /\ (layers[i].order = layers[j].order \/ (layers[i].order <= 0 /\ layers[j].order <= 0))

OrderedIn ==
  [c \in Layered |->
     \A t \in 0 .. 2 * Week :
       resolveLayered(c, t) \in User =>
         \E i \in DOMAIN c.layers :
           /\ CoversLayer(c.layers[i], t)
           /\ resolveLayered(c, t) = TurnOf(c, c.layers[i], t)
           /\ \A j \in DOMAIN c.layers \ {i} :
                CoversLayer(c.layers[j], t) => Precedes(c.layers, i, j)]

LayersInOrder == \A c \in StoredLayered : OrderedIn[c]
============================================================================

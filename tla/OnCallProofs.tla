---------------------------- MODULE OnCallProofs ----------------------------
(***************************************************************************)
(* On-call duty for any documents, users, requests and overrides. Windows  *)
(* are arcs of the week, the layers come in their order, and everybody     *)
(* gets the turns the document gives them. A team that got its first       *)
(* schedule from one request has one row for ever, every override is       *)
(* attached to it, and the newest override that covers a time decides who  *)
(* is on call; pager, timeline, escalation loop and chain agree on it.     *)
(***************************************************************************)
EXTENDS OnCall, FiniteSetTheorems, TLAPS

(* windowCovers compares minutes of the week on two branches: together     *)
(* they say that at lies on the arc from start to end, whatever the order  *)
(* of the two and with the end of Sunday for either.                       *)
THEOREM CoversAnArc ==
  \A start, end \in 0 .. Week, at \in 0 .. Week - 1 :
    Covers(start, end, at) <=> Ahead(start, at) < Ahead(start, end)
<1>1. Week \in Nat
  BY OnCallAssumption DEF Week
<1>2. QED
  BY <1>1 DEF Covers, Ahead

----------------------------------------------------------------------------
(* A PUT is past its UPDATE only while the team has no row, and alone,     *)
(* unless two of them raced; a POST holds a row that exists.               *)
OneRow ==
  raced \/
    /\ Len(schedules) <= 1
    /\ \A r \in Request : requests[r].pc = "insert" => schedules = <<>>
    /\ \A q, r \in Request : requests[q].pc = "insert" /\ requests[r].pc = "insert" => q = r

RequestsOK ==
  \A r \in Request :
    /\ requests[r].pc = "insert" => requests[r].setting \in Setting
    /\ requests[r].pc \in {"schedule", "create"} =>
         /\ requests[r].user \in User
         /\ requests[r].span \in Span
         /\ requests[r].span[1] < requests[r].span[2]
    /\ requests[r].pc = "create" => requests[r].schedule \in DOMAIN schedules

OnCallInv == TypeOK /\ RequestsOK /\ OneRow

(* A team without requests. *)
LEMMA InitOnCall == Init => OnCallInv
<1> SUFFICES ASSUME Init PROVE OnCallInv
  OBVIOUS
<1>1. Idle \in RequestState /\ Idle.pc = "idle"
  BY DEF Idle, RequestState, NoSetting, NoSpan
<1>2. schedules \in Seq(Stored) /\ Len(schedules) <= 1
  <2>1. CASE schedules = <<>>
    BY <2>1
  <2>2. ASSUME NEW s \in Stored, schedules = <<s>>
        PROVE  schedules \in Seq(Stored) /\ Len(schedules) <= 1
    BY <2>2
  <2>3. QED
    BY <2>1, <2>2 DEF Init
<1>3. TypeOK
  <2>1. overrides \in Seq(Override \cup {Gone}) /\ DOMAIN overrides = {}
    BY DEF Init
  <2>2. requests \in [Request -> RequestState] /\ raced \in BOOLEAN
    BY <1>1 DEF Init
  <2>3. members \subseteq known /\ known \subseteq User
    BY DEF Init
  <2>4. QED
    BY <1>2, <2>1, <2>2, <2>3 DEF TypeOK
<1>4. RequestsOK /\ OneRow
  BY <1>1, <1>2 DEF Init, RequestsOK, OneRow
<1>5. QED
  BY <1>3, <1>4 DEF OnCallInv

(* The parts of the invariant that a step may disturb, with the rest kept. *)
LEMMA RequestMoves ==
  ASSUME OnCallInv, NEW r \in Request, NEW q \in RequestState,
         requests' = [requests EXCEPT ![r] = q],
         UNCHANGED <<schedules, overrides, members, known, raced>>,
         q.pc # "insert",
         q.pc \in {"schedule", "create"} =>
           q.user \in User /\ q.span \in Span /\ q.span[1] < q.span[2],
         q.pc = "create" => q.schedule \in DOMAIN schedules
  PROVE  OnCallInv'
<1>1. TypeOK'
  BY DEF OnCallInv, TypeOK
<1>2. RequestsOK'
  BY DEF OnCallInv, TypeOK, RequestsOK
<1>3. OneRow'
  BY DEF OnCallInv, TypeOK, OneRow
<1>4. QED
  BY <1>1, <1>2, <1>3 DEF OnCallInv

(* A request that ends, having written or not. *)
LEMMA IdleIsFine == Idle \in RequestState /\ Idle.pc = "idle"
  BY DEF Idle, RequestState, NoSetting, NoSpan

(* PUT /schedule: UPDATE of every row, or on to the INSERT. *)
LEMMA UpsertUpdateOnCall ==
  ASSUME OnCallInv, NEW r \in Request, NEW body \in Setting, UpsertUpdate(r, body)
  PROVE  OnCallInv'
<1>1. /\ schedules \in Seq(Stored) /\ requests \in [Request -> RequestState]
      /\ raced \in BOOLEAN
      /\ body \in Stored
  BY OnCallAssumption DEF OnCallInv, TypeOK
<1>2. CASE schedules # <<>>
  <2>1. /\ schedules' = [s \in DOMAIN schedules |-> body]
        /\ UNCHANGED <<requests, raced, overrides, members, known>>
    BY <1>2 DEF UpsertUpdate
  <2>2. /\ schedules' \in Seq(Stored) /\ DOMAIN schedules' = DOMAIN schedules
        /\ Len(schedules') = Len(schedules)
    BY <1>1, <2>1
  <2>3. TypeOK'
    BY <2>1, <2>2 DEF OnCallInv, TypeOK
  <2>4. RequestsOK'
    BY <2>1, <2>2 DEF OnCallInv, RequestsOK
  <2>5. OneRow'
    BY <1>2, <2>1, <2>2 DEF OnCallInv, OneRow
  <2>6. QED
    BY <2>3, <2>4, <2>5 DEF OnCallInv
<1>3. CASE schedules = <<>>
  <2> DEFINE q == [Idle EXCEPT !.pc = "insert", !.setting = body]
  <2>1. /\ requests' = [requests EXCEPT ![r] = q]
        /\ raced' = (raced \/ \E p \in Request : requests[p].pc = "insert")
        /\ UNCHANGED <<schedules, overrides, members, known>>
    BY <1>3 DEF UpsertUpdate
  <2>2. q \in RequestState /\ q.pc = "insert" /\ q.setting = body
    BY DEF Idle, RequestState, NoSetting, NoSpan
  <2> HIDE DEF q
  <2>3. TypeOK'
    BY <1>1, <2>1, <2>2 DEF OnCallInv, TypeOK
  <2>4. RequestsOK'
    BY <1>1, <2>1, <2>2 DEF OnCallInv, RequestsOK
  <2>5. OneRow'
    <3> SUFFICES ASSUME ~raced'
                 PROVE  OneRow'
      BY DEF OneRow
    <3>1. \A p \in Request : requests[p].pc # "insert"
      BY <2>1
    <3>2. \A p \in Request : requests'[p].pc = "insert" => p = r
      BY <1>1, <2>1, <3>1
    <3>3. schedules' = <<>> /\ Len(schedules') <= 1
      BY <1>3, <2>1
    <3>4. QED
      BY <3>2, <3>3 DEF OneRow
  <2>6. QED
    BY <2>3, <2>4, <2>5 DEF OnCallInv
<1>4. QED
  BY <1>2, <1>3

(* The INSERT. *)
LEMMA UpsertInsertOnCall ==
  ASSUME OnCallInv, NEW r \in Request, UpsertInsert(r)
  PROVE  OnCallInv'
<1>1. /\ schedules \in Seq(Stored) /\ requests \in [Request -> RequestState]
      /\ requests[r].pc = "insert" /\ requests[r].setting \in Stored
  BY OnCallAssumption DEF OnCallInv, TypeOK, RequestsOK, UpsertInsert
<1>2. /\ schedules' = Append(schedules, requests[r].setting)
      /\ requests' = [requests EXCEPT ![r] = Idle]
      /\ UNCHANGED <<overrides, members, known, raced>>
  BY DEF UpsertInsert, Ends
<1>3. /\ schedules' \in Seq(Stored) /\ Len(schedules') = Len(schedules) + 1
      /\ DOMAIN schedules \subseteq DOMAIN schedules'
  BY <1>1, <1>2
<1>4. TypeOK'
  BY <1>1, <1>2, <1>3, IdleIsFine DEF OnCallInv, TypeOK
<1>5. RequestsOK'
  BY <1>1, <1>2, <1>3, IdleIsFine DEF OnCallInv, RequestsOK
<1>6. OneRow'
  BY <1>1, <1>2, <1>3, IdleIsFine DEF OnCallInv, OneRow
<1>7. QED
  BY <1>4, <1>5, <1>6 DEF OnCallInv

(* The three statements of POST /schedule/overrides. *)
LEMMA CreateOverrideOnCall ==
  ASSUME OnCallInv, NEW r \in Request,
         \/ \E u \in User, span \in Span : CreateOverrideCheck(r, u, span)
         \/ CreateOverrideSchedule(r)
         \/ CreateOverride(r)
         \/ RequestFails(r)
  PROVE  OnCallInv'
<1>1. requests \in [Request -> RequestState] /\ requests[r] \in RequestState
      /\ schedules \in Seq(Stored)
  BY DEF OnCallInv, TypeOK
<1>2. CASE \E u \in User, span \in Span : CreateOverrideCheck(r, u, span)
  <2>1. PICK u \in User, span \in Span : CreateOverrideCheck(r, u, span)
    BY <1>2
  <2> DEFINE q == [Idle EXCEPT !.pc = "schedule", !.user = u, !.span = span]
  <2>2. q \in RequestState /\ q.pc = "schedule" /\ q.user = u /\ q.span = span
    BY DEF Idle, RequestState, NoSetting, NoSpan
  <2>3. requests' = [requests EXCEPT ![r] = q] /\ span[1] < span[2]
        /\ UNCHANGED <<schedules, overrides, members, known, raced>>
    BY <2>1 DEF CreateOverrideCheck
  <2> HIDE DEF q
  <2>4. QED
    BY <2>2, <2>3, RequestMoves
<1>3. CASE CreateOverrideSchedule(r) /\ ~Ends(r)
  <2>1. PICK s \in GetSchedule :
          requests' = [requests EXCEPT ![r].pc = "create", ![r].schedule = s]
    BY <1>3 DEF CreateOverrideSchedule
  <2> DEFINE q == [requests[r] EXCEPT !.pc = "create", !.schedule = s]
  <2>2. s \in DOMAIN schedules /\ s \in Nat
    BY <1>1 DEF GetSchedule
  <2>3. /\ q \in RequestState /\ q.pc = "create" /\ q.schedule = s
        /\ q.user = requests[r].user /\ q.span = requests[r].span
    BY <1>1, <2>2 DEF RequestState
  <2>4. requests' = [requests EXCEPT ![r] = q]
    BY <1>1, <2>1
  <2> HIDE DEF q
  <2>5. /\ requests[r].user \in User /\ requests[r].span \in Span
        /\ requests[r].span[1] < requests[r].span[2]
        /\ UNCHANGED <<schedules, overrides, members, known, raced>>
    BY <1>3 DEF CreateOverrideSchedule, OnCallInv, RequestsOK
  <2>6. QED
    BY <2>2, <2>3, <2>4, <2>5, RequestMoves
<1>4. CASE CreateOverride(r)
  <2> DEFINE o == [schedule |-> requests[r].schedule, user |-> requests[r].user,
                   start |-> requests[r].span[1], end |-> requests[r].span[2]]
  <2>1. /\ requests[r].user \in User /\ requests[r].span \in Span
        /\ requests[r].span[1] < requests[r].span[2]
        /\ requests[r].schedule \in DOMAIN schedules
    BY <1>4 DEF CreateOverride, OnCallInv, RequestsOK
  <2>2. o \in Override /\ o.schedule \in DOMAIN schedules /\ o.start < o.end
    BY <1>1, <2>1, OnCallAssumption DEF Override
  <2>3. /\ overrides' = Append(overrides, o) /\ requests' = [requests EXCEPT ![r] = Idle]
        /\ UNCHANGED <<schedules, members, known, raced>>
    BY <1>4 DEF CreateOverride, Ends
  <2>4. overrides \in Seq(Override \cup {Gone})
    BY DEF OnCallInv, TypeOK
  <2> HIDE DEF o
  <2>5. /\ overrides' \in Seq(Override \cup {Gone})
        /\ \A k \in DOMAIN overrides' : overrides'[k] = o \/ (k \in DOMAIN overrides
                                                          /\ overrides'[k] = overrides[k])
    BY <2>2, <2>3, <2>4
  <2>6. TypeOK'
    BY <1>1, <2>2, <2>3, <2>5, IdleIsFine DEF OnCallInv, TypeOK
  <2>7. RequestsOK'
    BY <1>1, <2>3, IdleIsFine DEF OnCallInv, RequestsOK
  <2>8. OneRow'
    BY <1>1, <2>3, IdleIsFine DEF OnCallInv, OneRow
  <2>9. QED
    BY <2>6, <2>7, <2>8 DEF OnCallInv
<1>5. CASE (CreateOverrideSchedule(r) \/ RequestFails(r)) /\ Ends(r)
  <2>1. requests' = [requests EXCEPT ![r] = Idle]
        /\ UNCHANGED <<schedules, overrides, members, known, raced>>
    BY <1>5 DEF CreateOverrideSchedule, RequestFails, Ends
  <2>2. QED
    BY <2>1, IdleIsFine, RequestMoves
<1>6. QED
  BY <1>2, <1>3, <1>4, <1>5 DEF RequestFails

(* Deleted overrides, and users who leave. *)
LEMMA OthersOnCall ==
  ASSUME OnCallInv,
         \/ \E o \in DOMAIN overrides : DeleteOverride(o)
         \/ \E u \in User : MemberLeaves(u) \/ DeleteLocalUser(u)
         \/ UNCHANGED vars
  PROVE  OnCallInv'
<1>1. UNCHANGED <<schedules, requests, raced>>
  BY DEF DeleteOverride, MemberLeaves, DeleteLocalUser, vars
<1>2. /\ overrides' \in Seq(Override \cup {Gone})
      /\ DOMAIN overrides' = DOMAIN overrides
      /\ \A o \in DOMAIN overrides : overrides'[o] = overrides[o] \/ overrides'[o] = Gone
  <2>1. overrides \in Seq(Override \cup {Gone})
    BY DEF OnCallInv, TypeOK
  <2>2. CASE overrides' = overrides
    BY <2>1, <2>2
  <2>3. CASE \E o \in DOMAIN overrides : overrides' = [overrides EXCEPT ![o] = Gone]
    BY <2>1, <2>3
  <2>4. QED
    BY <2>2, <2>3 DEF DeleteOverride, MemberLeaves, DeleteLocalUser, vars
<1>3. members' \subseteq known' /\ known' \subseteq User
  BY DEF OnCallInv, TypeOK, DeleteOverride, MemberLeaves, DeleteLocalUser, vars
<1>4. TypeOK'
  BY <1>1, <1>2, <1>3 DEF OnCallInv, TypeOK
<1>5. RequestsOK' /\ OneRow'
  BY <1>1 DEF OnCallInv, RequestsOK, OneRow
<1>6. QED
  BY <1>4, <1>5 DEF OnCallInv

(* The inductive invariant of schedules, overrides and requests. *)
THEOREM OnCallInductive == Spec => []OnCallInv
<1>1. OnCallInv /\ [Next]_vars => OnCallInv'
  BY UpsertUpdateOnCall, UpsertInsertOnCall, CreateOverrideOnCall, OthersOnCall DEF Next
<1>2. QED
  BY <1>1, InitOnCall, PTL DEF Spec

(* Rows, requests and references keep their shape: an override is never    *)
(* left without its schedule, nor has a window that ends before it starts. *)
THEOREM OnCallTypeCorrect == Spec => []TypeOK
<1>1. OnCallInv => TypeOK
  BY DEF OnCallInv
<1>2. QED
  BY <1>1, OnCallInductive, PTL

(* The newest override that covers a time decides it, through any number   *)
(* of replacements of the schedule, unless two first PUTs raced.           *)
THEOREM OverridesHold == Spec => []OverrideHolds
<1>1. OnCallInv => OverrideHolds
  <2> SUFFICES ASSUME OnCallInv, ~raced
               PROVE  OverrideHolds
    BY DEF OverrideHolds
  <2>1. /\ Len(schedules) <= 1
        /\ \A r \in Request : requests[r].pc = "insert" => schedules = <<>>
    BY DEF OnCallInv, OneRow
  <2>2. ASSUME NEW s \in GetSchedule, NEW o \in DOMAIN overrides, overrides[o] # Gone,
               NEW t \in overrides[o].start .. overrides[o].end - 1,
               \A p \in DOMAIN overrides : p > o /\ overrides[p] # Gone =>
                 t \notin overrides[p].start .. overrides[p].end - 1
        PROVE  GetOnCallAt(s, t) = GetMemberByID(overrides[o].user)
    <3>1. schedules \in Seq(Stored) /\ overrides \in Seq(Override \cup {Gone})
      BY DEF OnCallInv, TypeOK
    <3>2. \A p \in DOMAIN overrides :
            /\ p \in Nat
            /\ overrides[p] # Gone => /\ overrides[p] \in Override
                                      /\ overrides[p].schedule = s
            /\ overrides[p] = Gone => overrides[p].schedule = 0
      <4>1. DOMAIN schedules \subseteq {1} /\ s = 1
        BY <2>1, <3>1 DEF GetSchedule
      <4>2. QED
        BY <3>1, <4>1 DEF OnCallInv, TypeOK, Gone
    <3>3. s # 0
      BY <3>1 DEF GetSchedule
    <3>4. /\ o \in Standing(s)
          /\ overrides[o].start <= t /\ t < overrides[o].end
      BY <2>2, <3>2 DEF Standing, Override
    <3>5. \A p \in Standing(s) :
            /\ p \in DOMAIN overrides /\ overrides[p] # Gone
            /\ overrides[p].start <= t /\ t < overrides[p].end => p <= o
      BY <2>2, <3>2, <3>3 DEF Standing, Override
    <3>6. GetActiveOverrideForSchedule(s, t) = {o}
      BY <3>2, <3>4, <3>5 DEF GetActiveOverrideForSchedule, Standing
    <3>7. QED
      BY <3>6 DEF GetOnCallAt
  <2>3. QED
    BY <2>1, <2>2 DEF OverrideHolds
<1>2. QED
  BY <1>1, OnCallInductive, PTL

----------------------------------------------------------------------------
(* What the documents say *)

(* A document that says "layered" has layers with windows and members. *)
LEMMA LayeredShape ==
  ASSUME NEW c \in Layered
  PROVE  c \in LayeredRotation /\ c.layers \in Seq(LayerShape)
<1>1. c \in LayeredRotation
  BY DocumentAssumption DEF Layered, LayeredRotation, WeeklyRotation
<1>2. QED
  BY <1>1 DEF LayeredRotation

(* A day that weekdayIndex does not know is a Monday. *)
LEMMA WeekdayIndexInWeek == \A name : weekdayIndex(name) \in 0 .. 6
<1> SUFFICES ASSUME NEW name PROVE weekdayIndex(name) \in 0 .. 6
  OBVIOUS
<1>1. DOMAIN Day = 1 .. 7
  BY DEF Day
<1>2. CASE \E i \in DOMAIN Day : Day[i] = name
  <2>1. (CHOOSE i \in DOMAIN Day : Day[i] = name) \in 1 .. 7
    BY <1>1, <1>2
  <2>2. QED
    BY <1>2, <2>1 DEF weekdayIndex
<1>3. CASE ~\E i \in DOMAIN Day : Day[i] = name
  BY <1>3 DEF weekdayIndex
<1>4. QED
  BY <1>2, <1>3

(* The ends of a window lie in the week, the end of Sunday included. *)
LEMMA TotalInWeek ==
  ASSUME NEW day, NEW time \in 0 .. DayLength
  PROVE  Total(day, time) \in 0 .. Week
<1>1. ASSUME NEW i \in 0 .. 6 PROVE i * DayLength + time \in 0 .. Week
  <2>1. DayLength \in Nat /\ time \in Nat /\ time <= DayLength
    BY OnCallAssumption
  <2>2. i = 0 \/ i = 1 \/ i = 2 \/ i = 3 \/ i = 4 \/ i = 5 \/ i = 6
    OBVIOUS
  <2>3. QED
    BY <2>1, <2>2 DEF Week
<1>2. QED
  BY <1>1, WeekdayIndexInWeek DEF Total

LEMMA WeekIsPositive == Week \in Nat \ {0} /\ DayLength \in Nat \ {0}
  BY OnCallAssumption DEF Week

LEMMA TotalOfInWeek ==
  ASSUME NEW t \in Nat
  PROVE  TotalOf(t) \in 0 .. Week - 1
  BY WeekIsPositive DEF TotalOf

(* Every window of every document that is ever stored covers the arc from  *)
(* its start to its end, at every time: windowCovers is right on both its  *)
(* branches, across Sunday midnight and for unknown days and 24:00.        *)
THEOREM WindowsCoverArcs == Spec => []WindowsAreArcs
<1>1. WindowsAreArcs
  <2> SUFFICES ASSUME NEW c \in Layered PROVE ArcsIn[c]
    BY DEF WindowsAreArcs, StoredLayered
  <2> SUFFICES ASSUME NEW k \in DOMAIN c.layers,
                      NEW n \in DOMAIN c.layers[k].restriction.windows,
                      NEW t \in 0 .. 2 * Week,
                      NEW w, w = c.layers[k].restriction.windows[n]
               PROVE  windowCovers(w, t) <=>
                        Ahead(Total(w.startDay, w.startTime), TotalOf(t))
                          < Ahead(Total(w.startDay, w.startTime), Total(w.endDay, w.endTime))
    BY DEF ArcsIn
  <2>1. c.layers[k] \in LayerShape
    BY LayeredShape
  <2>2. w \in Window
    BY <2>1 DEF LayerShape
  <2>3. /\ Total(w.startDay, w.startTime) \in 0 .. Week
        /\ Total(w.endDay, w.endTime) \in 0 .. Week
    BY <2>2, TotalInWeek DEF Window
  <2>4. TotalOf(t) \in 0 .. Week - 1
    BY TotalOfInWeek, WeekIsPositive
  <2>5. QED
    BY <2>3, <2>4, CoversAnArc DEF windowCovers
<1>2. QED
  BY <1>1, PTL

----------------------------------------------------------------------------
(* The order of the layers *)

(* InFront is a strict total order of the layers of a document. *)
LEMMA InFrontOrders ==
  ASSUME NEW layers \in Seq(LayerShape)
  PROVE  /\ \A i \in DOMAIN layers : InFront(layers, i) \subseteq DOMAIN layers \ {i}
         /\ \A i, j, k \in DOMAIN layers :
              i \in InFront(layers, j) /\ j \in InFront(layers, k) => i \in InFront(layers, k)
         /\ \A i, j \in DOMAIN layers :
              i # j => i \in InFront(layers, j) \/ j \in InFront(layers, i)
         /\ \A i, j \in DOMAIN layers : i \in InFront(layers, j) => Precedes(layers, i, j)
<1>1. ASSUME NEW i \in DOMAIN layers PROVE i \in Int /\ layers[i].order \in Int
  <2>1. layers[i] \in LayerShape /\ i \in Int
    OBVIOUS
  <2>2. QED
    BY <2>1 DEF LayerShape
<1>2. \A i \in DOMAIN layers : InFront(layers, i) \subseteq DOMAIN layers \ {i}
  BY <1>1 DEF InFront, Before
<1>3. \A i, j, k \in DOMAIN layers :
        i \in InFront(layers, j) /\ j \in InFront(layers, k) => i \in InFront(layers, k)
  BY <1>1 DEF InFront, Before
<1>4. \A i, j \in DOMAIN layers :
        i # j => i \in InFront(layers, j) \/ j \in InFront(layers, i)
  BY <1>1 DEF InFront, Before
<1>5. \A i, j \in DOMAIN layers : i \in InFront(layers, j) => Precedes(layers, i, j)
  BY <1>1 DEF InFront, Before, Precedes
<1>6. QED
  BY <1>2, <1>3, <1>4, <1>5

Place(layers) == [i \in DOMAIN layers |-> Cardinality(InFront(layers, i))]

(* Counting the layers in front gives every layer a place of its own, in   *)
(* that order, and leaves no place empty.                                  *)
LEMMA PlacesAreTaken ==
  ASSUME NEW layers \in Seq(LayerShape)
  PROVE  /\ Place(layers) \in [DOMAIN layers -> 0 .. Len(layers) - 1]
         /\ \A i, j \in DOMAIN layers :
              i \in InFront(layers, j) <=> Place(layers)[i] < Place(layers)[j]
         /\ \A i, j \in DOMAIN layers : Place(layers)[i] = Place(layers)[j] => i = j
         /\ \A k \in DOMAIN layers : \E i \in DOMAIN layers : Place(layers)[i] = k - 1
<1> DEFINE D == DOMAIN layers
           f == Place(layers)
           n == Len(layers)
<1>1. D = 1 .. n /\ n \in Nat
  OBVIOUS
<1>2. IsFiniteSet(D) /\ Cardinality(D) = n
  BY <1>1, FS_Interval
<1>3. ASSUME NEW i \in D
      PROVE  /\ IsFiniteSet(InFront(layers, i)) /\ f[i] = Cardinality(InFront(layers, i))
             /\ f[i] \in Nat
  <2>1. InFront(layers, i) \in SUBSET D
    BY InFrontOrders
  <2>2. IsFiniteSet(InFront(layers, i))
    BY <1>2, <2>1, FS_Subset
  <2>3. QED
    BY <2>2, FS_CardinalityType DEF Place
<1>4. ASSUME NEW i \in D PROVE f[i] \in 0 .. n - 1
  <2>1. InFront(layers, i) \in SUBSET D /\ InFront(layers, i) # D
    BY InFrontOrders
  <2>2. Cardinality(InFront(layers, i)) <= n /\ Cardinality(InFront(layers, i)) # n
    BY <1>2, <2>1, FS_Subset
  <2>3. QED
    BY <1>1, <1>3, <2>2
<1>5. ASSUME NEW i \in D, NEW j \in D, i \in InFront(layers, j)
      PROVE  f[i] < f[j]
  <2>1. /\ InFront(layers, i) \in SUBSET InFront(layers, j)
        /\ InFront(layers, i) # InFront(layers, j)
    BY <1>5, InFrontOrders
  <2>2. f[i] <= f[j] /\ f[i] # f[j]
    BY <1>3, <2>1, FS_Subset
  <2>3. QED
    BY <1>3, <2>2
<1>6. ASSUME NEW i \in D, NEW j \in D
      PROVE  /\ i \in InFront(layers, j) <=> f[i] < f[j]
             /\ f[i] = f[j] => i = j
  <2>1. f[i] \in Nat /\ f[j] \in Nat
    BY <1>3
  <2>2. i = j \/ i \in InFront(layers, j) \/ j \in InFront(layers, i)
    BY InFrontOrders
  <2>3. i = j => i \notin InFront(layers, j)
    BY InFrontOrders
  <2>4. QED
    BY <1>5, <2>1, <2>2, <2>3
<1>7. f \in [D -> 0 .. n - 1]
  BY <1>4 DEF Place
<1>8. f \in Injection(D, 0 .. n - 1)
  BY <1>6, <1>7 DEF Injection, IsInjective
<1>9. IsFiniteSet(0 .. n - 1) /\ Cardinality(0 .. n - 1) = n
  BY <1>1, FS_Interval
<1>10. f \in Surjection(D, 0 .. n - 1)
  BY <1>2, <1>8, <1>9, FS_Injection
<1>11. \A k \in D : \E i \in D : f[i] = k - 1
  <2> SUFFICES ASSUME NEW k \in D PROVE \E i \in D : f[i] = k - 1
    OBVIOUS
  <2>1. k - 1 \in 0 .. n - 1
    BY <1>1
  <2> HIDE DEF f
  <2>2. QED
    BY <1>10, <2>1 DEF Surjection
<1>12. QED
  BY <1>6, <1>7, <1>11

(* sortedLayers loses no layer and invents none: its k-th layer is the one *)
(* whose place is k, and the layers come out in order.                     *)
LEMMA SortedIsOrdered ==
  ASSUME NEW c \in Layered
  PROVE  /\ DOMAIN Sorted[c] = DOMAIN c.layers
         /\ \A k \in DOMAIN c.layers :
              \E i \in DOMAIN c.layers : Place(c.layers)[i] = k - 1 /\ Sorted[c][k] = c.layers[i]
         /\ \A i \in DOMAIN c.layers : Sorted[c][Place(c.layers)[i] + 1] = c.layers[i]
<1> DEFINE D == DOMAIN c.layers
           f == Place(c.layers)
<1>1. c.layers \in Seq(LayerShape)
  BY LayeredShape
<1>2. /\ DOMAIN Sorted[c] = D
      /\ \A k \in D : Sorted[c][k] = c.layers[CHOOSE i \in D : f[i] = k - 1]
  BY DEF Sorted, sortedLayers, Place
<1>3. /\ f \in [D -> 0 .. Len(c.layers) - 1]
      /\ \A i, j \in D : f[i] = f[j] => i = j
      /\ \A k \in D : \E i \in D : f[i] = k - 1
  BY <1>1, PlacesAreTaken
<1>4. D = 1 .. Len(c.layers) /\ Len(c.layers) \in Nat
  BY <1>1
<1> HIDE DEF f
<1>5. ASSUME NEW k \in D
      PROVE  \E i \in D : f[i] = k - 1 /\ Sorted[c][k] = c.layers[i]
  BY <1>2, <1>3
<1>6. ASSUME NEW i \in D PROVE Sorted[c][f[i] + 1] = c.layers[i]
  <2> HIDE DEF D
  <2>1. f[i] \in 0 .. Len(c.layers) - 1
    BY <1>3
  <2>2. f[i] + 1 \in 1 .. Len(c.layers) /\ (f[i] + 1) - 1 = f[i]
    BY <1>4, <2>1
  <2>3. PICK k \in D : k = f[i] + 1 /\ k - 1 = f[i]
    BY <1>4, <2>2
  <2>4. (CHOOSE j \in D : f[j] = k - 1) = i
    BY <1>3, <2>3
  <2>5. QED
    BY <1>2, <2>3, <2>4
<1>7. QED
  BY <1>2, <1>5, <1>6 DEF f

----------------------------------------------------------------------------
(* Whose turn it is *)

LEMMA Least ==
  ASSUME NEW S \in SUBSET Nat, S # {}
  PROVE  \E k \in S : \A j \in S : k <= j
<1> DEFINE R == OpToRel(<, Nat)
<1>1. PICK k \in S : \A j \in S : <<j, k>> \notin R
  BY NatLessThanWellFounded, WFMin
<1>2. ASSUME NEW j \in S PROVE k <= j
  <2>1. j \in Nat /\ k \in Nat
    OBVIOUS
  <2>2. j < k => <<j, k>> \in R
    BY <2>1 DEF OpToRel
  <2> HIDE DEF R
  <2>3. QED
    BY <1>1, <2>1, <2>2
<1>3. QED
  BY <1>2

(* A layer with members always has somebody's turn: also before the        *)
(* rotation starts, without a start that parses, or with an interval that  *)
(* is not positive.                                                        *)
LEMMA SomebodysTurn ==
  ASSUME NEW c \in Layered, NEW layer \in LayerShape, layer.members # <<>>, NEW t \in Nat
  PROVE  TurnOf(c, layer, t) \in User
<1>1. layer.members \in Seq(User)
  BY DEF LayerShape
<1>2. Len(layer.members) \in Nat \ {0}
  BY <1>1
<1>3. Interval(c) \in Nat \ {0}
  BY LayeredShape, WeekIsPositive DEF Interval, LayeredRotation
<1>4. Anchor(c, t) \in Int
  <2>1. c.start \in Nat \cup {NoStart}
    BY LayeredShape DEF LayeredRotation
  <2>2. startOfWeek(t) \in Int
    BY WeekIsPositive DEF startOfWeek
  <2>3. QED
    BY <2>1, <2>2 DEF Anchor
<1>5. Elapsed(c, t) \in Nat
  BY <1>4 DEF Elapsed
<1>6. Elapsed(c, t) \div Interval(c) \in Nat
  BY <1>3, <1>5
<1>7. ((Elapsed(c, t) \div Interval(c)) % Len(layer.members)) + 1 \in 1 .. Len(layer.members)
  BY <1>2, <1>6
<1>8. QED
  BY <1>1, <1>7 DEF TurnOf

Active(c, t) == {k \in DOMAIN Sorted[c] : CoversLayer(Sorted[c][k], t)}

LEMMA SortedShape ==
  ASSUME NEW c \in Layered
  PROVE  /\ DOMAIN Sorted[c] = 1 .. Len(c.layers) /\ Len(c.layers) \in Nat
         /\ \A k \in DOMAIN Sorted[c] : Sorted[c][k] \in LayerShape
<1>1. DOMAIN Sorted[c] = DOMAIN c.layers /\ c.layers \in Seq(LayerShape)
  BY SortedIsOrdered, LayeredShape
<1>2. ASSUME NEW k \in DOMAIN Sorted[c] PROVE Sorted[c][k] \in LayerShape
  <2>1. PICK i \in DOMAIN c.layers : Sorted[c][k] = c.layers[i]
    BY <1>1, SortedIsOrdered
  <2>2. QED
    BY <1>1, <2>1
<1>3. QED
  BY <1>1, <1>2

(* resolveLayered answers with the turn of the first active layer. *)
LEMMA FirstActiveTurn ==
  ASSUME NEW c \in Layered, NEW t \in Nat
  PROVE  /\ Active(c, t) = {} => resolveLayered(c, t) \in {NoUser, Failed}
         /\ Active(c, t) # {} =>
              \E k \in Active(c, t) :
                /\ \A j \in Active(c, t) : k <= j
                /\ k = CHOOSE m \in Active(c, t) : \A j \in Active(c, t) : m <= j
                /\ resolveLayered(c, t) = TurnOf(c, Sorted[c][k], t)
                /\ resolveLayered(c, t) \in User
<1>1. CASE Active(c, t) = {}
  BY <1>1 DEF resolveLayered, Active
<1>2. CASE Active(c, t) # {}
  <2> DEFINE k == CHOOSE m \in Active(c, t) : \A j \in Active(c, t) : m <= j
  <2>1. Active(c, t) \in SUBSET Nat
    BY SortedShape DEF Active
  <2>2. k \in Active(c, t) /\ \A j \in Active(c, t) : k <= j
    BY <1>2, <2>1, Least
  <2>3. Sorted[c] # <<>>
    BY <1>2 DEF Active
  <2>4. resolveLayered(c, t) = TurnOf(c, Sorted[c][k], t)
    BY <1>2, <2>3 DEF resolveLayered, Active
  <2> HIDE DEF k
  <2>5. Sorted[c][k] \in LayerShape /\ Sorted[c][k].members # <<>>
    BY <2>2, SortedShape DEF Active, CoversLayer
  <2>6. resolveLayered(c, t) \in User
    BY <2>4, <2>5, SomebodysTurn
  <2>7. QED
    BY <1>2, <2>2, <2>4, <2>6 DEF k
<1>3. QED
  BY <1>1, <1>2

(* Whoever a layered document puts on call has the turn in a covering      *)
(* layer that no other covering layer precedes, for documents of any       *)
(* number of layers with any orders: the stable sort by sortedLayers and   *)
(* the first hit of resolveLayered are the documented choice.              *)
THEOREM LayersKeepTheirOrder == Spec => []LayersInOrder
<1>1. LayersInOrder
  <2> SUFFICES ASSUME NEW c \in Layered PROVE OrderedIn[c]
    BY DEF LayersInOrder, StoredLayered
  <2> SUFFICES ASSUME NEW t \in 0 .. 2 * Week, resolveLayered(c, t) \in User
               PROVE  \E i \in DOMAIN c.layers :
                        /\ CoversLayer(c.layers[i], t)
                        /\ resolveLayered(c, t) = TurnOf(c, c.layers[i], t)
                        /\ \A j \in DOMAIN c.layers \ {i} :
                             CoversLayer(c.layers[j], t) => Precedes(c.layers, i, j)
    BY DEF OrderedIn
  <2>1. t \in Nat
    BY WeekIsPositive
  <2>2. Active(c, t) # {}
    BY <2>1, FirstActiveTurn, OnCallAssumption
  <2>3. PICK k \in Active(c, t) : /\ \A j \in Active(c, t) : k <= j
                                  /\ resolveLayered(c, t) = TurnOf(c, Sorted[c][k], t)
    BY <2>1, <2>2, FirstActiveTurn
  <2>4. k \in DOMAIN c.layers
    BY SortedIsOrdered DEF Active
  <2>5. PICK i \in DOMAIN c.layers : Place(c.layers)[i] = k - 1 /\ Sorted[c][k] = c.layers[i]
    BY <2>4, SortedIsOrdered
  <2>6. CoversLayer(c.layers[i], t) /\ resolveLayered(c, t) = TurnOf(c, c.layers[i], t)
    BY <2>3, <2>5 DEF Active
  <2>7. c.layers \in Seq(LayerShape)
    BY LayeredShape
  <2>8. ASSUME NEW j \in DOMAIN c.layers \ {i}, CoversLayer(c.layers[j], t)
        PROVE  Precedes(c.layers, i, j)
    <3>1. /\ Place(c.layers)[i] \in 0 .. Len(c.layers) - 1
          /\ Place(c.layers)[j] \in 0 .. Len(c.layers) - 1
          /\ Place(c.layers)[i] # Place(c.layers)[j]
      BY <2>7, PlacesAreTaken
    <3>2. Place(c.layers)[j] + 1 \in DOMAIN Sorted[c]
      BY <3>1, SortedShape
    <3>3. Place(c.layers)[j] + 1 \in Active(c, t)
      BY <2>8, <3>2, SortedIsOrdered DEF Active
    <3>4. k <= Place(c.layers)[j] + 1 /\ k \in Int
      BY <2>3, <2>4, <3>3, <2>7
    <3>5. Place(c.layers)[i] < Place(c.layers)[j]
      BY <2>5, <2>7, <3>1, <3>4
    <3>6. i \in InFront(c.layers, j)
      BY <2>7, <3>5, PlacesAreTaken
    <3>7. QED
      BY <2>7, <3>6, InFrontOrders
  <2>9. QED
    BY <2>6, <2>8
<1>2. QED
  BY <1>1, PTL

----------------------------------------------------------------------------
(* The readers tell one story *)

(* resolveWeekly answers with an assigned user or with nobody. *)
LEMMA WeeklyAnswer ==
  ASSUME NEW c \in Config, c.type # "layered", NEW t
  PROVE  resolveWeekly(c, t) \in User \cup {NoUser}
<1> DEFINE today == {k \in DOMAIN c.rotation : c.rotation[k].day = Day[weekday(t) + 1]}
           first == CHOOSE k \in today : \A j \in today : k <= j
<1>1. c.rotation \in Seq(DayAssignment)
  BY DocumentAssumption DEF LayeredRotation, WeeklyRotation
<1>2. CASE today = {}
  BY <1>2 DEF resolveWeekly
<1>3. CASE today # {}
  <2>1. resolveWeekly(c, t) = c.rotation[first].user
    BY <1>3 DEF resolveWeekly
  <2>2. today \in SUBSET Nat
    BY <1>1
  <2>3. first \in today
    <3>1. \E k \in today : \A j \in today : k <= j
      BY <1>3, <2>2, Least
    <3> HIDE DEF today
    <3>2. QED
      BY <3>1
  <2>4. first \in DOMAIN c.rotation
    BY <2>3
  <2> HIDE DEF first, today
  <2>5. c.rotation[first] \in DayAssignment
    BY <1>1, <2>4
  <2>6. QED
    BY <2>1, <2>5 DEF DayAssignment
<1>4. QED
  BY <1>2, <1>3

(* All layers at once and the first active layer give the same answer;     *)
(* where there are no layers resolveLayered reports an error and the       *)
(* readers of all layers find nobody.                                      *)
LEMMA AllLayersAgree ==
  ASSUME NEW c \in Config, NEW t \in Nat
  PROVE  /\ resolveRotationUserID(c, t) \in User \cup {NoUser, Failed}
         /\ TimelineRotation(c, t) =
              IF resolveRotationUserID(c, t) = Failed THEN NoUser
              ELSE resolveRotationUserID(c, t)
<1>1. CASE c.type # "layered"
  <2> DEFINE u == resolveWeekly(c, t)
  <2>1. u \in User \cup {NoUser} /\ resolveRotationUserID(c, t) = u /\ u # Failed
    BY <1>1, WeeklyAnswer, OnCallAssumption DEF resolveRotationUserID
  <2>2. ResolveAllLayersAt(c, t) = <<u>>
    BY <1>1 DEF ResolveAllLayersAt
  <2> HIDE DEF u
  <2>3. TimelineRotation(c, t) = u
    <3>1. CASE u = NoUser
      <4>1. {k \in DOMAIN <<u>> : <<u>>[k] # NoUser} = {}
        BY <3>1
      <4>2. QED
        BY <2>2, <3>1, <4>1 DEF TimelineRotation
    <3>2. CASE u # NoUser
      <4>1. {k \in DOMAIN <<u>> : <<u>>[k] # NoUser} = {1}
        BY <3>2
      <4>2. (CHOOSE k \in {1} : \A j \in {1} : k <= j) = 1
        OBVIOUS
      <4>3. QED
        BY <2>2, <4>1, <4>2 DEF TimelineRotation
    <3>3. QED
      BY <3>1, <3>2
  <2>4. QED
    BY <2>1, <2>3
<1>2. CASE c.type = "layered"
  <2>1. c \in Layered /\ resolveRotationUserID(c, t) = resolveLayered(c, t)
    BY <1>2 DEF Layered, resolveRotationUserID
  <2> DEFINE all == resolveLayeredAllLayers(c, t)
  <2>2. ResolveAllLayersAt(c, t) = all
    BY <1>2 DEF ResolveAllLayersAt
  <2>3. DOMAIN all = DOMAIN Sorted[c]
        /\ \A k \in DOMAIN Sorted[c] :
             all[k] = IF CoversLayer(Sorted[c][k], t) THEN TurnOf(c, Sorted[c][k], t) ELSE NoUser
    BY DEF resolveLayeredAllLayers
  <2> HIDE DEF all
  <2>4. {k \in DOMAIN all : all[k] # NoUser} = Active(c, t)
    <3>1. ASSUME NEW k \in DOMAIN Sorted[c], CoversLayer(Sorted[c][k], t)
          PROVE  TurnOf(c, Sorted[c][k], t) # NoUser
      <4>1. Sorted[c][k] \in LayerShape /\ Sorted[c][k].members # <<>>
        BY <2>1, <3>1, SortedShape DEF CoversLayer
      <4>2. QED
        BY <2>1, <4>1, SomebodysTurn, OnCallAssumption
    <3>2. QED
      BY <2>3, <3>1 DEF Active
  <2>5. CASE Active(c, t) = {}
    <3>1. TimelineRotation(c, t) = NoUser
      BY <2>2, <2>4, <2>5 DEF TimelineRotation
    <3>2. resolveLayered(c, t) \in {NoUser, Failed}
      BY <2>1, <2>5, FirstActiveTurn
    <3>3. QED
      BY <2>1, <3>1, <3>2
  <2>6. CASE Active(c, t) # {}
    <3>1. PICK k \in Active(c, t) :
            /\ k = CHOOSE m \in Active(c, t) : \A j \in Active(c, t) : m <= j
            /\ resolveLayered(c, t) = TurnOf(c, Sorted[c][k], t)
            /\ resolveLayered(c, t) \in User
      BY <2>1, <2>6, FirstActiveTurn
    <3>2. TimelineRotation(c, t) = all[k]
      BY <2>2, <2>4, <2>6, <3>1 DEF TimelineRotation
    <3>3. all[k] = TurnOf(c, Sorted[c][k], t)
      BY <2>3 DEF Active
    <3>4. QED
      BY <2>1, <3>1, <3>2, <3>3, OnCallAssumption
  <2>7. QED
    BY <2>5, <2>6
<1>3. QED
  BY <1>1, <1>2

(* Of the overrides that cover a time at most one is the newest. *)
LEMMA OneActiveOverride ==
  ASSUME TypeOK, NEW s, NEW t
  PROVE  \A o, p \in GetActiveOverrideForSchedule(s, t) : o = p
<1>1. overrides \in Seq(Override \cup {Gone})
  BY DEF TypeOK
<1>2. DOMAIN overrides \subseteq Nat
  BY <1>1
<1>3. QED
  BY <1>2 DEF GetActiveOverrideForSchedule, Standing

(* Nobody is not a member. *)
LEMMA NobodyIsNoMember ==
  ASSUME TypeOK
  PROVE  GetMemberByID(NoUser) = NoUser
  BY OnCallAssumption DEF TypeOK, GetMemberByID

LEMMA StandingShape ==
  ASSUME TypeOK, NEW s \in DOMAIN schedules, NEW o \in Standing(s)
  PROVE  overrides[o].start \in Nat /\ overrides[o].end \in Nat
<1>1. overrides \in Seq(Override \cup {Gone}) /\ schedules \in Seq(Stored)
  BY DEF TypeOK
<1>2. overrides[o] # Gone
  BY <1>1 DEF Standing, Gone
<1>3. overrides[o] \in Override
  BY <1>1, <1>2 DEF Standing
<1>4. QED
  BY <1>3 DEF Override

(* An override that is in force at noon touches the day. *)
LEMMA NoonIsInTheDay ==
  ASSUME TypeOK, NEW s \in DOMAIN schedules, NEW day \in 0 .. 6
  PROVE  /\ Noon(day) \in Nat
         /\ GetActiveOverrideForSchedule(s, Noon(day)) \subseteq Touching(s, day)
<1>1. DayLength \in Nat \ {0}
  BY OnCallAssumption
<1>2. DayLength \div 2 \in Nat /\ DayLength \div 2 < DayLength
  BY <1>1
<1>3. /\ day * DayLength \in Nat
      /\ (day + 1) * DayLength = day * DayLength + DayLength
  <2>1. day = 0 \/ day = 1 \/ day = 2 \/ day = 3 \/ day = 4 \/ day = 5 \/ day = 6
    OBVIOUS
  <2>2. QED
    BY <1>1, <2>1
<1>4. Noon(day) \in Nat /\ day * DayLength <= Noon(day) /\ Noon(day) < (day + 1) * DayLength
  BY <1>1, <1>2, <1>3 DEF Noon
<1>5. ASSUME NEW o \in GetActiveOverrideForSchedule(s, Noon(day))
      PROVE  o \in Touching(s, day)
  <2>1. /\ o \in Standing(s) /\ overrides[o].start <= Noon(day)
        /\ Noon(day) < overrides[o].end
    BY DEF GetActiveOverrideForSchedule
  <2>2. overrides[o].start \in Nat /\ overrides[o].end \in Nat
    BY <2>1, StandingShape
  <2>3. (day + 1) * DayLength \in Nat
    BY <1>1, <1>3
  <2>4. overrides[o].start < (day + 1) * DayLength /\ day * DayLength < overrides[o].end
    BY <1>3, <1>4, <2>1, <2>2, <2>3
  <2>5. QED
    BY <2>1, <2>4 DEF Touching
<1>6. QED
  BY <1>4, <1>5

(* What the timeline shows for a day is whom GetOnCallAt pages at its      *)
(* noon, for any rotation and any overrides, where the two can be compared *)
(* at all: they are written independently, on all layers and on the first. *)
THEOREM TimelineTellsTheTruth == Spec => []TimelineAgrees
<1>1. TypeOK => TimelineAgrees
  <2> SUFFICES ASSUME TypeOK, NEW s \in GetSchedule, NEW day \in 0 .. 6,
                      \/ Touching(s, day) = {}
                      \/ Touching(s, day) = GetActiveOverrideForSchedule(s, Noon(day)),
                      GetOnCallAt(s, Noon(day)) # Failed,
                      NEW u \in Timeline(s, day)
               PROVE  GetMemberByID(u) = GetOnCallAt(s, Noon(day))
    BY DEF TimelineAgrees
  <2> DEFINE active == GetActiveOverrideForSchedule(s, Noon(day))
             c == schedules[s].config
  <2>1. s \in DOMAIN schedules /\ schedules \in Seq(Stored)
    BY DEF GetSchedule, TypeOK
  <2>2. c \in Config
    <3>1. schedules[s] \in Stored
      BY <2>1
    <3>2. QED
      BY <3>1 DEF Stored
  <2>3. Noon(day) \in Nat /\ active \subseteq Touching(s, day)
    BY <2>1, NoonIsInTheDay
  <2>4. Touching(s, day) = active
    BY <2>3
  <2>5. CASE active = {}
    <3>1. u = TimelineRotation(c, Noon(day))
      BY <2>4, <2>5 DEF Timeline
    <3>2. GetOnCallAt(s, Noon(day)) = resolveRotation(s, Noon(day))
      BY <2>5 DEF GetOnCallAt
    <3> DEFINE v == resolveRotationUserID(c, Noon(day))
    <3>3. v \in User \cup {NoUser, Failed} /\ u = IF v = Failed THEN NoUser ELSE v
      BY <2>2, <2>3, <3>1, AllLayersAgree
    <3>4. resolveRotation(s, Noon(day)) = IF v \in User THEN GetMemberByID(v) ELSE v
      BY DEF resolveRotation
    <3> HIDE DEF v
    <3>5. v # Failed
      BY <3>2, <3>4, OnCallAssumption
    <3>6. QED
      BY <3>2, <3>3, <3>4, <3>5, NobodyIsNoMember
  <2>6. CASE active # {}
    <3>1. PICK o \in active : o = CHOOSE p \in active : TRUE
      BY <2>6
    <3>2. active = {o}
      BY OneActiveOverride
    <3>3. GetOnCallAt(s, Noon(day)) = GetMemberByID(overrides[o].user)
      BY <2>6, <3>1 DEF GetOnCallAt
    <3>4. overrides[o].start \in Nat
      BY <2>1, <2>4, StandingShape DEF Touching
    <3>5. {p \in Touching(s, day) :
             \A q \in Touching(s, day) : overrides[p].start <= overrides[q].start} = {o}
      BY <2>4, <3>2, <3>4
    <3>6. u = overrides[o].user
      BY <3>5 DEF Timeline
    <3>7. QED
      BY <3>3, <3>6
  <2>7. QED
    BY <2>5, <2>6
<1>2. QED
  BY <1>1, OnCallTypeCorrect, PTL

(* The layer of a policy as the escalation loop and the chain resolve it. *)
LEMMA LayersPageTheChain ==
  ASSUME TypeOK, NEW layer, NEW t \in Nat, NEW readFails \in BOOLEAN
  PROVE  EscalatesTo(layer, t, readFails) = ChainMember(layer, t, readFails)
<1>1. CASE layer.user # NoUser
  BY <1>1 DEF EscalatesTo, ChainMember
<1>2. CASE layer.user = NoUser /\ ~GetScheduleByID(layer.schedule)
  BY <1>2 DEF EscalatesTo, ChainMember, resolveLayerMember
<1>3. CASE layer.user = NoUser /\ GetScheduleByID(layer.schedule)
  <2> DEFINE s == layer.schedule
             c == schedules[s].config
             active == IF readFails THEN {} ELSE GetActiveOverrideForSchedule(s, t)
             v == resolveRotationUserID(c, t)
  <2>1. s \in DOMAIN schedules /\ schedules \in Seq(Stored)
    BY <1>3 DEF GetScheduleByID, TypeOK
  <2>2. c \in Config
    <3>1. schedules[s] \in Stored
      BY <2>1
    <3>2. QED
      BY <3>1 DEF Stored
  <2>3. CASE active # {}
    BY <1>3, <2>3 DEF EscalatesTo, ChainMember, resolveLayerMember
  <2>4. CASE active = {}
    <3>1. EscalatesTo(layer, t, readFails) = GetMemberByID(TimelineRotation(c, t))
      BY <1>3, <2>4 DEF EscalatesTo, resolveLayerMember
    <3>2. ChainMember(layer, t, readFails) = IF v \in User THEN GetMemberByID(v) ELSE NoUser
      BY <1>3, <2>4 DEF ChainMember
    <3>3. /\ v \in User \cup {NoUser, Failed}
          /\ TimelineRotation(c, t) = IF v = Failed THEN NoUser ELSE v
      BY <2>2, AllLayersAgree
    <3> HIDE DEF v, c, active
    <3>4. QED
      BY <3>1, <3>2, <3>3, NobodyIsNoMember, OnCallAssumption
  <2>5. QED
    BY <2>3, <2>4
<1>4. QED
  BY <1>1, <1>2, <1>3

(* GetEscalationChain lists whom the escalation loop pages, and a layer    *)
(* with an enabled schedule pages whom GetOnCallAt names, for any policy,  *)
(* any rotation and whatever overrides and people come and go.             *)
THEOREM ChainsAgree == Spec => []ChainAgrees
<1>1. TypeOK => ChainAgrees
  <2> SUFFICES ASSUME TypeOK, NEW p \in Policy, NEW t \in 0 .. Week - 1, NEW readFails \in BOOLEAN,
                      \A k \in DOMAIN p : (p[k].schedule = 0) # (p[k].user = NoUser),
                      NEW paged,
                      paged = Named([k \in DOMAIN p |-> EscalatesTo(p[k], t, readFails)])
               PROVE  /\ GetEscalationChain(p, t, readFails) =
                           IF paged = <<>> THEN <<Failed>> ELSE paged
                      /\ \A k \in DOMAIN p :
                           /\ ~readFails /\ p[k].user = NoUser /\ p[k].schedule \in GetSchedule
                           /\ GetOnCallAt(p[k].schedule, t) \in User
                           => EscalatesTo(p[k], t, readFails) = GetOnCallAt(p[k].schedule, t)
    BY DEF ChainAgrees
  <2>1. t \in Nat
    BY WeekIsPositive
  <2>2. [k \in DOMAIN p |-> EscalatesTo(p[k], t, readFails)]
          = [k \in DOMAIN p |-> ChainMember(p[k], t, readFails)]
    BY <2>1, LayersPageTheChain
  <2>3. paged = Named([k \in DOMAIN p |-> ChainMember(p[k], t, readFails)])
    BY <2>2
  <2>4. ~\E k \in DOMAIN p : (p[k].schedule = 0) = (p[k].user = NoUser)
    OBVIOUS
  <2>5. GetEscalationChain(p, t, readFails) = IF paged = <<>> THEN <<Failed>> ELSE paged
    BY <2>3, <2>4 DEF GetEscalationChain
  <2>6. ASSUME NEW k \in DOMAIN p, ~readFails, p[k].user = NoUser,
               p[k].schedule \in GetSchedule, GetOnCallAt(p[k].schedule, t) \in User
        PROVE  EscalatesTo(p[k], t, readFails) = GetOnCallAt(p[k].schedule, t)
    <3> DEFINE s == p[k].schedule
               v == resolveRotationUserID(schedules[s].config, t)
               active == GetActiveOverrideForSchedule(s, t)
    <3>1. GetScheduleByID(s)
      BY <2>6 DEF GetSchedule, GetScheduleByID
    <3>2. EscalatesTo(p[k], t, readFails) = ChainMember(p[k], t, readFails)
      BY <2>1, LayersPageTheChain
    <3>3. ChainMember(p[k], t, readFails) =
            IF active # {} THEN GetMemberByID(overrides[CHOOSE o \in active : TRUE].user)
            ELSE IF v \in User THEN GetMemberByID(v) ELSE NoUser
      BY <2>6, <3>1 DEF ChainMember
    <3>4. GetOnCallAt(s, t) =
            IF active # {} THEN GetMemberByID(overrides[CHOOSE o \in active : TRUE].user)
            ELSE IF v \in User THEN GetMemberByID(v) ELSE v
      BY DEF GetOnCallAt, resolveRotation
    <3>5. GetOnCallAt(s, t) \in User
      BY <2>6
    <3> HIDE DEF v, active, s
    <3>6. QED
      BY <3>2, <3>3, <3>4, <3>5 DEF s
  <2>7. QED
    BY <2>5, <2>6
<1>2. QED
  BY <1>1, OnCallTypeCorrect, PTL

----------------------------------------------------------------------------
(* Turns are fair *)

LEMMA Division ==
  ASSUME NEW I \in Nat \ {0}, NEW a \in Nat
  PROVE  a % I \in 0 .. I - 1 /\ a \div I \in Nat
<1>1. a % I \in 0 .. I - 1
  OBVIOUS
<1>2. a \div I \in Nat
  OBVIOUS
<1>3. QED
  BY <1>1, <1>2

(* Two times less than a cycle apart differ in their place in the interval *)
(* or in the interval's place in the cycle.                                *)
LEMMA SlotsDiffer ==
  ASSUME NEW I \in Nat \ {0}, NEW L \in Nat \ {0}, NEW a \in Nat, NEW b \in Nat,
         a % I = b % I, (a \div I) % L = (b \div I) % L,
         a - b < I * L, b - a < I * L
  PROVE  a = b
<1> DEFINE qa == a \div I
           qb == b \div I
           pa == qa \div L
           pb == qb \div L
<1>1. a = I * qa + (a % I) /\ qa \in Nat /\ a % I \in Nat
  OBVIOUS
<1>2. b = I * qb + (b % I) /\ qb \in Nat /\ b % I \in Nat
  OBVIOUS
<1> HIDE DEF qa, qb
<1>3. qa = L * pa + (qa % L) /\ pa \in Nat /\ qa % L \in Nat
  BY <1>1
<1>4. qb = L * pb + (qb % L) /\ pb \in Nat /\ qb % L \in Nat
  BY <1>2
<1>5. qa % L = qb % L
  BY DEF qa, qb
<1> HIDE DEF pa, pb
<1>6. \E d \in Int : d = pa - pb /\ qa - qb = L * d
  BY <1>3, <1>4, <1>5
<1>7. PICK d \in Int : d = pa - pb /\ qa - qb = L * d
  BY <1>6
<1>8. a - b = I * (qa - qb)
  BY <1>1, <1>2
<1>9. PICK N \in Nat \ {0} : N = I * L
  <2>1. I * L \in Nat \ {0}
    OBVIOUS
  <2>2. QED
    BY <2>1
<1>10. a - b = N * d
  <2>1. a - b = I * (L * d)
    BY <1>7, <1>8
  <2>2. I * (L * d) = (I * L) * d
    OBVIOUS
  <2>3. QED
    BY <1>9, <2>1, <2>2
<1>11. N * d < N /\ 0 - N * d < N
  BY <1>9, <1>10
<1>12. d = 0
  <2>1. CASE d >= 1
    <3>1. PICK e \in Nat : d = e + 1
      <4>1. d - 1 \in Nat /\ d = (d - 1) + 1
        BY <2>1
      <4>2. QED
        BY <4>1
    <3>2. N * d = N * e + N /\ N * e \in Nat
      BY <3>1
    <3>3. QED
      BY <1>11, <3>2
  <2>2. CASE d <= -1
    <3>1. PICK e \in Nat : d = -1 - e
      <4>1. -1 - d \in Nat /\ d = -1 - (-1 - d)
        BY <2>2
      <4>2. QED
        BY <4>1
    <3>2. 0 - N * d = N * e + N /\ N * e \in Nat
      BY <3>1
    <3>3. QED
      BY <1>11, <3>2
  <2>3. QED
    BY <2>1, <2>2
<1>13. N * d = 0
  BY <1>12
<1>14. QED
  BY <1>10, <1>13

(* In a stretch of L intervals of length I, from any time on, every pair   *)
(* of a place in the interval and an interval of the cycle comes up once.  *)
LEMMA EverySlotOnce ==
  ASSUME NEW I \in Nat \ {0}, NEW L \in Nat \ {0}, NEW s \in Nat, NEW t \in Nat, s <= t,
         NEW W, W = t .. t + L * I - 1,
         NEW f, f = [x \in W |-> <<(x - s) % I, ((x - s) \div I) % L>>]
  PROVE  /\ IsFiniteSet(W)
         /\ f \in Bijection(W, (0 .. I - 1) \X (0 .. L - 1))
<1> DEFINE R == (0 .. I - 1) \X (0 .. L - 1)
<1>1. L * I \in Nat \ {0} /\ I * L = L * I
  OBVIOUS
<1>2. IsFiniteSet(W) /\ Cardinality(W) = L * I
  <2>1. t + L * I - 1 \in Int /\ ~(t > t + L * I - 1) /\ (t + L * I - 1) - t + 1 = L * I
    BY <1>1
  <2>2. QED
    BY <2>1, FS_Interval
<1>3. IsFiniteSet(R) /\ Cardinality(R) = I * L
  <2>1. IsFiniteSet(0 .. I - 1) /\ Cardinality(0 .. I - 1) = I
    BY FS_Interval
  <2>2. IsFiniteSet(0 .. L - 1) /\ Cardinality(0 .. L - 1) = L
    BY FS_Interval
  <2>3. QED
    BY <2>1, <2>2, FS_Product
<1>4. ASSUME NEW x \in W
      PROVE  x \in Nat /\ x - s \in Nat /\ (x - s) % I \in 0 .. I - 1
             /\ ((x - s) \div I) % L \in 0 .. L - 1
  <2>1. x \in Nat /\ x - s \in Nat
    BY <1>1
  <2>2. (x - s) % I \in 0 .. I - 1 /\ (x - s) \div I \in Nat
    BY <2>1, Division
  <2>3. ((x - s) \div I) % L \in 0 .. L - 1
    BY <2>2
  <2>4. QED
    BY <2>1, <2>2, <2>3
<1>5. f \in [W -> R]
  BY <1>4
<1>6. ASSUME NEW x \in W, NEW y \in W, f[x] = f[y] PROVE x = y
  <2>1. (x - s) % I = (y - s) % I /\ ((x - s) \div I) % L = ((y - s) \div I) % L
    BY <1>6
  <2>2. x - s \in Nat /\ y - s \in Nat /\ x \in Nat /\ y \in Nat
    BY <1>4
  <2>3. (x - s) - (y - s) < I * L /\ (y - s) - (x - s) < I * L
    BY <1>1, <2>2
  <2>4. x - s = y - s
    BY <2>1, <2>2, <2>3, SlotsDiffer
  <2>5. QED
    BY <2>2, <2>4
<1> HIDE DEF R
<1>7. f \in Injection(W, R)
  BY <1>5, <1>6 DEF Injection, IsInjective
<1>8. f \in Surjection(W, R)
  BY <1>1, <1>2, <1>3, <1>7, FS_Injection
<1>9. QED
  BY <1>2, <1>7, <1>8 DEF Bijection, R

(* The times of one cycle from t on at which it is u's turn among m, and   *)
(* the places of u in m.                                                   *)
TurnsIn(m, I, s, t, u) ==
  {x \in t .. t + Len(m) * I - 1 : m[(((x - s) \div I) % Len(m)) + 1] = u}

PlacesIn(m, u) == {n \in DOMAIN m : m[n] = u}

(* In every full cycle from the start on, a person's time on duty is one   *)
(* interval for each place the layer gives that person.                    *)
LEMMA CycleIsFair ==
  ASSUME NEW I \in Nat \ {0}, NEW m \in Seq(User), NEW s \in Nat, NEW t \in Nat, s <= t,
         NEW u
  PROVE  Cardinality(TurnsIn(m, I, s, t, u)) = I * Cardinality(PlacesIn(m, u))
<1> DEFINE L == Len(m)
           W == t .. t + L * I - 1
           turns == {x \in W : m[(((x - s) \div I) % L) + 1] = u}
           places == {n \in DOMAIN m : m[n] = u}
<1> SUFFICES Cardinality(turns) = I * Cardinality(places)
  BY DEF TurnsIn, PlacesIn
<1>1. L \in Nat /\ DOMAIN m = 1 .. L
  OBVIOUS
<1>2. CASE L = 0
  <2>1. L * I = 0
    BY <1>2
  <2>2. W = {} /\ DOMAIN m = {}
    BY <1>1, <1>2, <2>1
  <2>3. turns = {} /\ places = {}
    BY <2>2
  <2>4. Cardinality(turns) = 0 /\ Cardinality(places) = 0
    BY <2>3, FS_EmptySet
  <2>5. I * 0 = 0
    OBVIOUS
  <2>6. QED
    BY <2>4, <2>5
<1>3. CASE L # 0
  <2> DEFINE f == [x \in W |-> <<(x - s) % I, ((x - s) \div I) % L>>]
             mine == {w \in 0 .. L - 1 : m[w + 1] = u}
             B == (0 .. I - 1) \X mine
             g == [x \in turns |-> f[x]]
             h == [w \in mine |-> w + 1]
  <2>1. L \in Nat \ {0}
    BY <1>1, <1>3
  <2>2. IsFiniteSet(W) /\ f \in Bijection(W, (0 .. I - 1) \X (0 .. L - 1))
    BY <2>1, EverySlotOnce
  <2>3. IsFiniteSet(turns)
    BY <2>2, FS_Subset
  <2>4. \A x \in W : x \in turns <=> f[x] \in B
    <3>1. ASSUME NEW x \in W PROVE x \in turns <=> f[x] \in B
      <4>1. f[x] \in (0 .. I - 1) \X (0 .. L - 1)
        BY <2>2 DEF Bijection, Injection
      <4>2. f[x] = <<(x - s) % I, ((x - s) \div I) % L>>
        OBVIOUS
      <4>3. (x - s) % I \in 0 .. I - 1 /\ ((x - s) \div I) % L \in 0 .. L - 1
        BY <4>1, <4>2
      <4>4. f[x] \in B <=> ((x - s) \div I) % L \in mine
        BY <4>2, <4>3
      <4>5. QED
        BY <4>3, <4>4
    <3>2. QED
      BY <3>1
  <2>5. Cardinality(turns) = Cardinality(B)
    <3> HIDE DEF f
    <3>1. /\ f \in [W -> (0 .. I - 1) \X (0 .. L - 1)]
          /\ \A x, y \in W : f[x] = f[y] => x = y
          /\ \A z \in (0 .. I - 1) \X (0 .. L - 1) : \E x \in W : f[x] = z
      BY <2>2 DEF Bijection, Injection, IsInjective, Surjection
    <3>2. turns \subseteq W /\ B \subseteq (0 .. I - 1) \X (0 .. L - 1)
      OBVIOUS
    <3> HIDE DEF turns, B, W, L
    <3>3. g \in [turns -> B]
      BY <2>4, <3>1, <3>2
    <3>4. \A x, y \in turns : g[x] = g[y] => x = y
      BY <3>1, <3>2
    <3>5. \A z \in B : \E x \in turns : g[x] = z
      BY <2>4, <3>1, <3>2
    <3> HIDE DEF g
    <3>6. g \in Bijection(turns, B)
      BY <3>3, <3>4, <3>5 DEF Bijection, Injection, IsInjective, Surjection
    <3>7. ExistsBijection(turns, B)
      BY <3>6 DEF ExistsBijection
    <3>8. QED
      BY <2>3, <3>7, FS_Bijection
  <2>6. IsFiniteSet(mine) /\ Cardinality(places) = Cardinality(mine)
    <3>1. IsFiniteSet(0 .. L - 1)
      BY <2>1, FS_Interval
    <3>2. IsFiniteSet(mine)
      BY <3>1, FS_Subset
    <3>3. h \in [mine -> places]
      BY <1>1
    <3>4. \A v, w \in mine : h[v] = h[w] => v = w
      BY <1>1
    <3>5. ASSUME NEW n \in places PROVE \E w \in mine : h[w] = n
      <4>1. n - 1 \in 0 .. L - 1 /\ (n - 1) + 1 = n
        BY <1>1
      <4>2. n - 1 \in mine
        BY <4>1
      <4>3. h[n - 1] = n
        BY <4>1, <4>2
      <4>4. QED
        BY <4>2, <4>3
    <3> HIDE DEF h, mine, places
    <3>6. h \in Bijection(mine, places)
      BY <3>3, <3>4, <3>5 DEF Bijection, Injection, IsInjective, Surjection
    <3>7. ExistsBijection(mine, places)
      BY <3>6 DEF ExistsBijection
    <3>8. QED
      BY <3>2, <3>7, FS_Bijection
  <2>7. Cardinality(B) = I * Cardinality(mine)
    <3>1. IsFiniteSet(0 .. I - 1) /\ Cardinality(0 .. I - 1) = I
      BY FS_Interval
    <3> HIDE DEF mine
    <3>2. QED
      BY <2>6, <3>1, FS_Product
  <2>8. QED
    BY <2>5, <2>6, <2>7
<1>4. QED
  BY <1>2, <1>3

(* Members take turns in their order for one interval each, in every       *)
(* stretch of one cycle, for any number of members, any interval and any   *)
(* start that parses: startOfWeek and the length of a week play no part.   *)
THEOREM TurnsAreAlwaysFair == Spec => []TurnsAreFair
<1>1. TurnsAreFair
  <2> SUFFICES ASSUME NEW c \in Layered PROVE FairIn[c]
    BY DEF TurnsAreFair, StoredLayered
  <2> SUFFICES ASSUME c.start # NoStart,
                      NEW k \in DOMAIN c.layers, NEW u \in User,
                      NEW t \in c.start .. c.start + Week
               PROVE  LET m == c.layers[k].members
                          turns == {x \in t .. t + Len(m) * Interval(c) - 1 :
                                      TurnOf(c, c.layers[k], x) = u}
                      IN Cardinality(turns) = Interval(c) * Cardinality({n \in DOMAIN m : m[n] = u})
    BY Zenon DEF FairIn
  <2>1. c \in LayeredRotation /\ c.layers[k] \in LayerShape
    BY LayeredShape
  <2>2. PICK I \in Nat \ {0} : I = Interval(c)
    BY <2>1, WeekIsPositive DEF LayeredRotation, Interval
  <2>3. PICK m \in Seq(User) : m = c.layers[k].members
    BY <2>1 DEF LayerShape
  <2>4. PICK s \in Nat : s = c.start
    BY <2>1 DEF LayeredRotation
  <2>5. t \in Nat /\ s <= t
    BY <2>4, WeekIsPositive
  <2> DEFINE W == t .. t + Len(m) * I - 1
  <2>6. ASSUME NEW x \in W
        PROVE  TurnOf(c, c.layers[k], x) = m[(((x - s) \div I) % Len(m)) + 1]
    <3>1. x \in Int /\ t <= x
      <4>1. PICK n \in Nat : n = Len(m) * I
        OBVIOUS
      <4>2. QED
        BY <2>5, <4>1
    <3>2. Elapsed(c, x) = x - s
      BY <2>4, <2>5, <3>1 DEF Elapsed, Anchor
    <3>3. QED
      BY <2>2, <2>3, <3>2 DEF TurnOf
  <2>7. Cardinality(TurnsIn(m, I, s, t, u)) = I * Cardinality(PlacesIn(m, u))
    BY <2>5, CycleIsFair
  <2> HIDE DEF W
  <2>8. {x \in W : TurnOf(c, c.layers[k], x) = u} = TurnsIn(m, I, s, t, u)
    BY <2>6 DEF TurnsIn, W
  <2>9. Cardinality({x \in W : TurnOf(c, c.layers[k], x) = u})
          = I * Cardinality({n \in DOMAIN m : m[n] = u})
    BY <2>7, <2>8 DEF PlacesIn
  <2>10. QED
    BY <2>2, <2>3, <2>9 DEF W
<1>2. QED
  BY <1>1, PTL
=============================================================================

-------------------------- MODULE TeamAccessProofs --------------------------
(***************************************************************************)
(* The reconciliation of sso_team_access, for any number of identities,    *)
(* groups, teams, roles, providers and concurrent syncs, and every set of  *)
(* faults: undisturbed syncs leave what all of them found, and nothing     *)
(* that none of them found. The argument is the inductive invariant        *)
(* AccessInv.                                                              *)
(***************************************************************************)
EXTENDS TeamAccess, TLAPS

(* r is in the middle of a sync of i. *)
AtWork(r, i) == Syncing(r) /\ requests[r].identity = i

(* A mapping that is there gives a role; a login knows its identity. *)
MappingsGiveRoles ==
  \A m \in Group \X Team : mappings[m] # NoMapping => mappings[m].role \in Role

LoginsKnowIdentity ==
  \A r \in Request :
    requests[r].pc \in {"load", "groups", "teams"} => requests[r].identity \in Identity

(* Grants are remembered only while nothing has disturbed their syncs, and *)
(* before the first of them is remembered no sync has got beyond its read. *)
AskedMeansUndisturbed == \A i \in Identity : asked[i] # {} => i \notin disturbed

NobodyAheadOfAsked ==
  \A i \in Identity, r \in Request :
    asked[i] = {} /\ i \notin disturbed /\ AtWork(r, i) => requests[r].pc = "select"

(* Every sync beyond its read works for grants that are remembered.        *)
WorksFor(r, found) ==
  /\ requests[r].pc \in {"upsert", "existing"} => requests[r].grants \in found
  /\ requests[r].pc = "upsert" => requests[r].todo \subseteq requests[r].grants
  /\ requests[r].pc = "revoke" => \E G \in found : requests[r].revoke \cap TeamsOf(G) = {}

(* A team that all of them found is held, or a sync is still to write it. *)
WillGrant(r, t) == requests[r].pc = "upsert" /\ t \in TeamsOf(requests[r].todo)

GrantedOrToCome(i) ==
  \A t \in Team : (\A G \in asked[i] : t \in TeamsOf(G)) =>
    t \in Held(i) \/ \E r \in Request : AtWork(r, i) /\ WillGrant(r, t)

(* A team is held with a role that one of them found, or a sync is still   *)
(* to write it or to take it away, whether or not it has read what is held.*)
Found(i, t) == \E G \in asked[i] : <<t, access[i][t]>> \in G

WillRevoke(r, t) ==
  \/ requests[r].pc \in {"upsert", "existing"} /\ t \notin TeamsOf(requests[r].grants)
  \/ requests[r].pc = "revoke" /\ t \in requests[r].revoke

FoundOrToChange(i) ==
  \A t \in Held(i) :
    Found(i, t) \/ \E r \in Request : AtWork(r, i) /\ (WillGrant(r, t) \/ WillRevoke(r, t))

Claims(i) ==
  asked[i] # {} =>
    /\ \A r \in Request : AtWork(r, i) => WorksFor(r, asked[i])
    /\ GrantedOrToCome(i)
    /\ FoundOrToChange(i)

TypeInv == TypeOK /\ MappingsGiveRoles /\ LoginsKnowIdentity

SyncInv ==
  /\ AskedMeansUndisturbed
  /\ NobodyAheadOfAsked
  /\ \A i \in Identity : Claims(i)

AccessInv == TypeInv /\ SyncInv

----------------------------------------------------------------------------
(* Types *)

(* What a step of r may put into its place. *)
RowOK(row) ==
  /\ row \in RequestState
  /\ row.pc \in {"select", "upsert", "existing", "revoke", "load", "groups", "teams"}
       => row.identity \in Identity
  /\ row.pc = "load" => row.provider \in Provider

RequestsOK == \A r \in Request : RowOK(requests[r])

LEMMA RowsFromType ==
  ASSUME TypeInv PROVE RequestsOK
  BY DEF TypeInv, TypeOK, LoginsKnowIdentity, RequestsOK, RowOK, Syncing

LEMMA IdleOK == RowOK(Idle)
  BY DEF RowOK, Idle, RequestState

(* A step of r that puts a good row in its place keeps all of them good. *)
LEMMA StepRowOK ==
  ASSUME TypeInv, NEW r \in Request, NEW row, RowOK(row),
         requests' = [requests EXCEPT ![r] = row]
  PROVE  requests' \in [Request -> RequestState] /\ RequestsOK'
<1>1. requests \in [Request -> RequestState] /\ RequestsOK
  BY RowsFromType DEF TypeInv, TypeOK
<1>2. row \in RequestState
  BY DEF RowOK
<1>3. requests' \in [Request -> RequestState]
  BY <1>1, <1>2
<1>4. \A x \in Request : requests'[x] = IF x = r THEN row ELSE requests[x]
  BY <1>1
<1>5. QED
  BY <1>1, <1>3, <1>4 DEF RequestsOK

(* TypeInv from its parts. *)
Tables ==
  /\ memberOf \in [Identity -> SUBSET Group]
  /\ teams \in SUBSET Team
  /\ mappings \in [Group \X Team -> MappingRow]
  /\ access \in [Identity -> [Team -> Role \cup {"none"}]]
  /\ providers \in [Provider -> ProviderState]
  /\ MappingsGiveRoles

TeamsGone ==
  \A i \in Identity, t \in Team \ teams :
    access[i][t] = "none" /\ \A g \in Group : mappings[<<g, t>>] = NoMapping

GrantSets == SUBSET SUBSET (Team \X Role)

Histories == asked \in [Identity -> GrantSets] /\ disturbed \in SUBSET Identity

LEMMA TypeParts ==
  TypeInv <=> Tables /\ TeamsGone /\ Histories /\ RequestsOK
                /\ requests \in [Request -> RequestState]
  BY DEF TypeInv, TypeOK, Tables, TeamsGone, Histories, GrantSets, RequestsOK, RowOK,
         LoginsKnowIdentity, Syncing

LEMMA TypePartsNext ==
  (Tables /\ TeamsGone /\ Histories /\ RequestsOK
     /\ requests \in [Request -> RequestState])' => TypeInv'
  BY TypeParts, PTL

LEMMA BeginsHistories ==
  ASSUME Histories, NEW r \in Request, NEW i \in Identity, SyncBegins(r, i)
  PROVE  Histories'
<1>1. {} \in GrantSets
  BY DEF GrantSets
<1>2. QED
  BY <1>1 DEF Histories, SyncBegins

LEMMA DisturbsHistories ==
  ASSUME Histories, NEW I \in SUBSET Identity, Disturbs(I)
  PROVE  Histories'
<1>1. {} \in GrantSets
  BY DEF GrantSets
<1>2. QED
  BY <1>1 DEF Histories, Disturbs

(* Grants are pairs of teams and roles, because no mapping has no role. *)
LEMMA GrantsType ==
  ASSUME Tables, NEW groups, NEW p PROVE GrantsOf(groups, p) \in SUBSET (Team \X Role)
<1>1. ASSUME NEW m \in Group \X Team, mappings[m] # NoMapping
      PROVE  <<m[2], mappings[m].role>> \in Team \X Role
  BY <1>1 DEF Tables, MappingsGiveRoles
<1>2. QED
  BY <1>1 DEF GrantsOf

(* The logins: every step leaves a good row. *)
LEMMA LoginRows ==
  ASSUME TypeInv, NEW r \in Request, 
         \/ \E i \in Identity : HandleCallback(r, i)
         \/ LoadProvider(r) \/ LoginRefused(r) \/ ReadGroups(r) \/ CreateSession(r)
  PROVE  requests' \in [Request -> RequestState] /\ RequestsOK'
<1>1. RowOK(requests[r])
  BY RowsFromType DEF RequestsOK
<1>2. ASSUME NEW i \in Identity, HandleCallback(r, i)
      PROVE  \E row : RowOK(row) /\ requests' = [requests EXCEPT ![r] = row]
  <2>1. PICK cached \in BOOLEAN :
          requests' = [requests EXCEPT ![r] =
            [Idle EXCEPT !.pc = IF Enabled = {} \/ cached THEN "groups" ELSE "load",
                         !.kind = "login", !.identity = i,
                         !.provider = IF Enabled = {} THEN Nil ELSE FirstOf(Enabled)]]
    BY <1>2 DEF HandleCallback
  <2>2. Enabled # {} => FirstOf(Enabled) \in Provider
    BY DEF FirstOf, Enabled
  <2>3. RowOK([Idle EXCEPT !.pc = IF Enabled = {} \/ cached THEN "groups" ELSE "load",
                           !.kind = "login", !.identity = i,
                           !.provider = IF Enabled = {} THEN Nil ELSE FirstOf(Enabled)])
    <3>1. CASE Enabled = {}
      BY <3>1 DEF RowOK, RequestState, Idle
    <3>2. CASE Enabled # {}
      BY <2>2, <3>2 DEF RowOK, RequestState, Idle
    <3>3. QED
      BY <3>1, <3>2
  <2>4. QED
    BY <2>1, <2>3
<1>3. ASSUME LoadProvider(r)
      PROVE  \E row : RowOK(row) /\ requests' = [requests EXCEPT ![r] = row]
  <2>1. requests[r].identity \in Identity /\ requests[r].provider \in Provider
    BY <1>1, <1>3 DEF RowOK, LoadProvider
  <2>2. ASSUME NEW p \in Provider \cup {Nil}, KnowsProvider(r, p)
        PROVE  \E row : RowOK(row) /\ requests' = [requests EXCEPT ![r] = row]
    BY <2>1, <2>2 DEF KnowsProvider, RowOK, RequestState, Idle
  <2>3. QED
    BY <1>3, <2>1, <2>2, IdleOK DEF LoadProvider
<1>4. ASSUME ReadGroups(r)
      PROVE  \E row : RowOK(row) /\ requests' = [requests EXCEPT ![r] = row]
  <2>1. PICK groups \in GetGroupMemberships(requests[r].identity) :
          requests' = [requests EXCEPT ![r] = [requests[r] EXCEPT !.pc = "select", !.groups = groups]]
    BY <1>4 DEF ReadGroups
  <2>2. requests[r].identity \in Identity
    BY <1>1, <1>4 DEF RowOK, ReadGroups
  <2>3. groups \in SUBSET Group
    BY <2>2 DEF GetGroupMemberships, TypeInv, TypeOK
  <2>4. QED
    BY <1>1, <2>1, <2>2, <2>3 DEF RowOK, RequestState
<1>5. ASSUME LoginRefused(r) \/ CreateSession(r)
      PROVE  \E row : RowOK(row) /\ requests' = [requests EXCEPT ![r] = row]
  BY <1>5, IdleOK DEF LoginRefused, CreateSession
<1>6. QED
  BY <1>2, <1>3, <1>4, <1>5, StepRowOK

(* A sync that fails or ends leaves the members that are still to come. *)
LEMMA NextRows ==
  ASSUME TypeInv, NEW r \in Request, requests[r].pc \in {"select", "upsert", "existing", "revoke"}
  PROVE  RowOK(AfterSync(r)) /\ (SyncFails(r) => requests' \in [Request -> RequestState] /\ RequestsOK')
<1>1. RowOK(requests[r])
  BY RowsFromType DEF RequestsOK
<1>2. RowOK([Idle EXCEPT !.pc = "members", !.kind = "provision", !.rest = requests[r].rest,
                         !.provider = requests[r].provider, !.groups = requests[r].groups])
  BY <1>1 DEF RowOK, RequestState, Idle
<1>3. RowOK(AfterSync(r))
  <2>1. RowOK([Idle EXCEPT !.pc = "teams", !.kind = "login", !.identity = requests[r].identity])
    BY <1>1 DEF RowOK, RequestState, Idle
  <2>2. QED
    BY <1>2, <2>1, IdleOK DEF AfterSync
<1>4. ASSUME SyncFails(r)
      PROVE  \E row : RowOK(row) /\ requests' = [requests EXCEPT ![r] = row]
  BY <1>2, <1>4, IdleOK DEF SyncFails
<1>5. QED
  BY <1>3, <1>4, StepRowOK

(* The statements of a sync. *)
LEMMA SyncRows ==
  ASSUME TypeInv, NEW r \in Request,
         SelectGrants(r) \/ UpsertAccess(r) \/ SelectExisting(r) \/ RevokeAccess(r) \/ SyncBreaks(r)
  PROVE  requests' \in [Request -> RequestState] /\ RequestsOK'
<1>1. RowOK(requests[r]) /\ Tables
  BY RowsFromType, TypeParts DEF RequestsOK
<1>2. ASSUME SelectGrants(r)
      PROVE  \E row : RowOK(row) /\ requests' = [requests EXCEPT ![r] = row]
  <2>1. PICK grants \in SUBSET (Team \X Role), pc \in {"revoke", "upsert"} :
          requests' = [requests EXCEPT ![r] =
            [Forgetting(r) EXCEPT !.pc = pc, !.grants = grants, !.todo = grants]]
    BY <1>1, <1>2, GrantsType DEF SelectGrants
  <2>2. /\ Forgetting(r) \in RequestState
        /\ Forgetting(r).identity \in Identity
    BY <1>1, <1>2 DEF Forgetting, RowOK, RequestState, SelectGrants
  <2>3. RowOK([Forgetting(r) EXCEPT !.pc = pc, !.grants = grants, !.todo = grants])
    BY <2>1, <2>2 DEF RowOK, RequestState
  <2>4. QED
    BY <2>1, <2>3
<1>3. ASSUME UpsertAccess(r), ~SyncFails(r)
      PROVE  \E row : RowOK(row) /\ requests' = [requests EXCEPT ![r] = row]
  <2>1. \/ \E g : requests' = [requests EXCEPT ![r] =
                                 [requests[r] EXCEPT !.todo = requests[r].todo \ {g}]]
        \/ requests' = [requests EXCEPT ![r] = [requests[r] EXCEPT !.pc = "existing"]]
    BY <1>3 DEF UpsertAccess
  <2>2. ASSUME NEW g PROVE RowOK([requests[r] EXCEPT !.todo = requests[r].todo \ {g}])
    BY <1>1 DEF RowOK, RequestState
  <2>3. RowOK([requests[r] EXCEPT !.pc = "existing"])
    BY <1>1, <1>3 DEF RowOK, RequestState, UpsertAccess
  <2>4. QED
    BY <2>1, <2>2, <2>3
<1>4. ASSUME SelectExisting(r)
      PROVE  \E row : RowOK(row) /\ requests' = [requests EXCEPT ![r] = row]
  <2> DEFINE gone == Held(requests[r].identity) \ TeamsOf(requests[r].grants)
             row == [requests[r] EXCEPT !.pc = "revoke", !.revoke = gone, !.grants = {}]
  <2>1. requests' = [requests EXCEPT ![r] = row]
    BY <1>4 DEF SelectExisting
  <2>2. gone \in SUBSET Team
    BY DEF Held
  <2>3. RowOK(row)
    <3> HIDE DEF gone
    <3> QED
      BY <1>1, <1>4, <2>2 DEF RowOK, RequestState, SelectExisting
  <2>4. QED
    BY <2>1, <2>3
<1>5. ASSUME RevokeAccess(r)
      PROVE  \E row : RowOK(row) /\ requests' = [requests EXCEPT ![r] = row]
  <2>1. \/ \E t : requests' = [requests EXCEPT ![r] =
                                          [requests[r] EXCEPT !.revoke = requests[r].revoke \ {t}]]
        \/ requests' = [requests EXCEPT ![r] = AfterSync(r)]
    BY <1>1, <1>5 DEF RevokeAccess, RowOK, RequestState
  <2>2. ASSUME NEW t PROVE RowOK([requests[r] EXCEPT !.revoke = requests[r].revoke \ {t}])
    BY <1>1 DEF RowOK, RequestState
  <2>3. RowOK(AfterSync(r))
    BY <1>5, NextRows DEF RevokeAccess
  <2>4. QED
    BY <2>1, <2>2, <2>3
<1>6. QED
  BY <1>2, <1>3, <1>4, <1>5, StepRowOK, NextRows DEF SyncBreaks, Syncing, UpsertAccess

(* The background job. *)
LEMMA ProvisionRows ==
  ASSUME TypeInv, NEW r \in Request,
         \/ \E p \in Provider, g \in Group, t \in Team, role \in Role :
              HandleCreateGroupMapping(r, p, g, t, role)
         \/ ListMembers(r) \/ ProvisionMember(r)
  PROVE  requests' \in [Request -> RequestState] /\ RequestsOK'
<1>1. RowOK(requests[r])
  BY RowsFromType DEF RequestsOK
<1>2. ASSUME NEW p \in Provider, NEW g \in Group, NEW t \in Team, NEW role \in Role,
             HandleCreateGroupMapping(r, p, g, t, role)
      PROVE  \E row : RowOK(row) /\ requests' = [requests EXCEPT ![r] = row]
  <2>1. RowOK([Idle EXCEPT !.pc = "list", !.kind = "provision", !.provider = p, !.groups = {g}])
    BY DEF RowOK, RequestState, Idle
  <2>2. QED
    BY <1>2, <2>1 DEF HandleCreateGroupMapping
<1>3. ASSUME ListMembers(r)
      PROVE  \E row : RowOK(row) /\ requests' = [requests EXCEPT ![r] = row]
  <2>1. \/ \E members \in GetGroupMembers(requests[r].groups) :
             requests' = [requests EXCEPT ![r] =
                            [requests[r] EXCEPT !.pc = "members", !.rest = members]]
        \/ requests' = [requests EXCEPT ![r] = Idle]
    BY <1>3 DEF ListMembers
  <2>2. ASSUME NEW members \in GetGroupMembers(requests[r].groups)
        PROVE  RowOK([requests[r] EXCEPT !.pc = "members", !.rest = members])
    BY <1>1 DEF RowOK, RequestState, GetGroupMembers
  <2>3. QED
    BY <2>1, <2>2, IdleOK
<1>4. ASSUME ProvisionMember(r)
      PROVE  \E row : RowOK(row) /\ requests' = [requests EXCEPT ![r] = row]
  <2>1. PICK i \in requests[r].rest :
          requests' = [requests EXCEPT ![r] =
            [requests[r] EXCEPT !.pc = "select", !.identity = i, !.rest = requests[r].rest \ {i}]]
    BY <1>4 DEF ProvisionMember
  <2>2. RowOK([requests[r] EXCEPT !.pc = "select", !.identity = i, !.rest = requests[r].rest \ {i}])
    BY <1>1 DEF RowOK, RequestState
  <2>3. QED
    BY <2>1, <2>2
<1>5. QED
  BY <1>2, <1>3, <1>4, StepRowOK

(* The tables, and the rows of the teams that are gone. *)
LEMMA SyncTables ==
  ASSUME TypeInv, NEW r \in Request, SelectGrants(r) \/ UpsertAccess(r) \/ RevokeAccess(r)
  PROVE  Tables' /\ TeamsGone'
<1>1. /\ Tables /\ TeamsGone
      /\ UNCHANGED <<memberOf, teams, mappings, providers>>
  BY TypeParts DEF SelectGrants, UpsertAccess, RevokeAccess
<1>2. RowOK(requests[r]) /\ requests[r].identity \in Identity
  BY RowsFromType DEF RequestsOK, RowOK, SelectGrants, UpsertAccess, RevokeAccess
<1>3. ASSUME access' \in [Identity -> [Team -> Role \cup {"none"}]],
             \A i \in Identity, t \in Team \ teams : access'[i][t] \in {"none", access[i][t]}
      PROVE  Tables' /\ TeamsGone'
  BY <1>1, <1>3 DEF Tables, TeamsGone, MappingsGiveRoles
<1>4. access \in [Identity -> [Team -> Role \cup {"none"}]]
  BY <1>1 DEF Tables
<1>5. CASE SelectGrants(r)
  BY <1>2, <1>3, <1>4, <1>5 DEF SelectGrants
<1>6. CASE UpsertAccess(r)
  <2>1. CASE UNCHANGED access
    BY <1>3, <1>4, <2>1
  <2>2. ASSUME NEW g \in requests[r].todo, g[1] \in teams,
               access' = [access EXCEPT ![requests[r].identity][g[1]] = g[2]]
        PROVE  Tables' /\ TeamsGone'
    <3>1. g[1] \in Team /\ g[2] \in Role
      BY <1>2 DEF RowOK, RequestState
    <3>2. QED
      BY <1>2, <1>3, <1>4, <2>2, <3>1
  <2>3. QED
    BY <1>6, <2>1, <2>2 DEF UpsertAccess
<1>7. CASE RevokeAccess(r)
  <2>1. CASE UNCHANGED access
    BY <1>3, <1>4, <2>1
  <2>2. ASSUME NEW t, access' = [access EXCEPT ![requests[r].identity][t] = "none"]
        PROVE  Tables' /\ TeamsGone'
    BY <1>2, <1>3, <1>4, <2>2
  <2>3. QED
    BY <1>7, <2>1, <2>2 DEF RevokeAccess
<1>8. QED
  BY <1>5, <1>6, <1>7

LEMMA MappingTables ==
  ASSUME TypeInv, UNCHANGED <<memberOf, teams, access, providers>>, NEW g \in Group, NEW t \in Team,
         \/ \E p \in Provider, role \in Role : CreateGroupMapping(p, g, t, role)
         \/ \E role \in Role : EnsureGroupMappingBootstrap(g, t, role)
         \/ DeleteGroupMapping(g, t)
  PROVE  Tables' /\ TeamsGone'
<1>1. Tables /\ TeamsGone
  BY TypeParts
<1>2. PICK row \in MappingRow :
        /\ mappings' = [mappings EXCEPT ![<<g, t>>] = row]
        /\ row # NoMapping => row.role \in Role /\ t \in teams
  BY DEF CreateGroupMapping, EnsureGroupMappingBootstrap, DeleteGroupMapping, MayMap,
         MappingRow, NoMapping
<1>3. mappings' \in [Group \X Team -> MappingRow] /\ MappingsGiveRoles'
  BY <1>1, <1>2 DEF Tables, MappingsGiveRoles
<1>4. ASSUME NEW i \in Identity, NEW x \in Team \ teams, NEW h \in Group
      PROVE  mappings'[<<h, x>>] = NoMapping
  <2>1. mappings[<<h, x>>] = NoMapping
    BY <1>1 DEF TeamsGone
  <2>2. t \notin teams => row = NoMapping
    BY <1>2
  <2>3. QED
    BY <1>1, <1>2, <2>1, <2>2 DEF Tables
<1>5. QED
  BY <1>1, <1>3, <1>4 DEF Tables, TeamsGone

LEMMA ProviderTables ==
  ASSUME TypeInv, UNCHANGED <<memberOf, teams, access>>,
         NEW p \in Provider,
         \/ \E state \in {"enabled", "disabled"} :
              /\ CreateSSOProvider(p, state) \/ UpdateSSOProvider(p, state)
              /\ UNCHANGED mappings
         \/ DeleteSSOProvider(p)
  PROVE  Tables' /\ TeamsGone'
<1>1. Tables /\ TeamsGone
  BY TypeParts
<1>2. providers' \in [Provider -> ProviderState]
  BY <1>1 DEF Tables, ProviderState, CreateSSOProvider, UpdateSSOProvider, DeleteSSOProvider
<1>3. CASE UNCHANGED mappings
  BY <1>1, <1>2, <1>3 DEF Tables, TeamsGone, MappingsGiveRoles
<1>4. CASE DeleteSSOProvider(p)
  <2>1. ASSUME NEW m \in Group \X Team
        PROVE  /\ mappings'[m] \in MappingRow
               /\ mappings[m] = NoMapping => mappings'[m] = NoMapping
               /\ mappings'[m] # NoMapping => mappings'[m].role \in Role
    <3>1. /\ mappings[m] \in MappingRow
          /\ mappings[m] # NoMapping => mappings[m].role \in Role
          /\ mappings'[m] = IF mappings[m].provider = p
                            THEN [mappings[m] EXCEPT !.provider = Nil] ELSE mappings[m]
      BY <1>1, <1>4 DEF Tables, MappingsGiveRoles, DeleteSSOProvider
    <3>2. NoMapping.provider # p
      BY TeamAccessAssumption DEF NoMapping
    <3>3. QED
      BY <3>1, <3>2 DEF MappingRow
  <2>2. mappings' \in [Group \X Team -> MappingRow]
    BY <1>4, <2>1 DEF DeleteSSOProvider
  <2>3. QED
    BY <1>1, <1>2, <2>1, <2>2 DEF Tables, TeamsGone, MappingsGiveRoles
<1>5. QED
  BY <1>3, <1>4

LEMMA DeleteTeamTables ==
  ASSUME TypeInv, UNCHANGED <<memberOf, providers>>, NEW t \in Team, DeleteTeam(t)
  PROVE  Tables' /\ TeamsGone'
<1>1. Tables /\ TeamsGone
  BY TypeParts
<1>2. ASSUME NEW m \in Group \X Team
      PROVE  mappings'[m] = IF m[2] = t THEN NoMapping ELSE mappings[m]
  BY DEF DeleteTeam
<1>3. NoMapping \in MappingRow
  BY DEF NoMapping, MappingRow
<1>4. mappings' \in [Group \X Team -> MappingRow] /\ MappingsGiveRoles'
  BY <1>1, <1>2, <1>3 DEF DeleteTeam, Tables, MappingsGiveRoles
<1>5. access' \in [Identity -> [Team -> Role \cup {"none"}]] /\ teams' \in SUBSET Team
  BY <1>1 DEF DeleteTeam, Tables
<1>6. TeamsGone'
  <2> SUFFICES ASSUME NEW i \in Identity, NEW x \in Team \ teams'
               PROVE  /\ access'[i][x] = "none"
                      /\ \A g \in Group : mappings'[<<g, x>>] = NoMapping
    BY DEF TeamsGone
  <2>1. CASE x = t
    BY <1>1, <1>2, <2>1 DEF DeleteTeam, Tables
  <2>2. CASE x # t
    <3>1. x \in Team \ teams
      BY <2>2 DEF DeleteTeam
    <3>2. QED
      BY <1>1, <1>2, <2>2, <3>1 DEF DeleteTeam, Tables, TeamsGone
  <2>3. QED
    BY <2>1, <2>2
<1>7. QED
  BY <1>1, <1>4, <1>5, <1>6 DEF Tables

LEMMA InitTypeInv == Init => TypeInv
<1> SUFFICES ASSUME Init PROVE TypeInv
  OBVIOUS
<1>1. Tables /\ TeamsGone
  BY DEF Init, Tables, TeamsGone, MappingsGiveRoles, MappingRow, NoMapping, ProviderState
<1>2. Histories
  BY DEF Init, Histories, GrantSets
<1>3. requests \in [Request -> RequestState] /\ RequestsOK
  BY IdleOK DEF Init, RequestsOK, RowOK
<1>4. QED
  BY <1>1, <1>2, <1>3, TypeParts

LEMMA SameTables ==
  ASSUME TypeInv, UNCHANGED <<teams, mappings, access, providers>>,
         memberOf' \in [Identity -> SUBSET Group]
  PROVE  Tables' /\ TeamsGone'
  BY TypeParts DEF Tables, TeamsGone, MappingsGiveRoles

LEMMA SyncHistories ==
  ASSUME TypeInv, NEW r \in Request, SelectGrants(r) \/ UpsertAccess(r) \/ SyncBreaks(r)
  PROVE  Histories'
<1>1. RowOK(requests[r]) /\ requests[r].identity \in Identity /\ Histories /\ Tables
  BY RowsFromType, TypeParts DEF RequestsOK, RowOK, SelectGrants, UpsertAccess, SyncBreaks, Syncing
<1>2. ASSUME Disturbs({requests[r].identity}) PROVE Histories'
  BY <1>1, <1>2, DisturbsHistories
<1>3. ASSUME NEW grants \in SUBSET (Team \X Role), UNCHANGED disturbed,
             asked' = [asked EXCEPT ![requests[r].identity] = @ \cup {grants}]
      PROVE  Histories'
  BY <1>1, <1>3 DEF Histories, GrantSets
<1>4. CASE SelectGrants(r)
  <2> DEFINE grants == IF requests[r].groups = {} THEN {}
                       ELSE GrantsOf(requests[r].groups, requests[r].provider)
  <2>1. grants \in SUBSET (Team \X Role)
    BY <1>1, GrantsType DEF RowOK
  <2>2. /\ UNCHANGED disturbed
        /\ asked' = IF requests[r].identity \in disturbed THEN asked
                    ELSE [asked EXCEPT ![requests[r].identity] = @ \cup {grants}]
    BY <1>4 DEF SelectGrants
  <2>3. CASE requests[r].identity \in disturbed
    BY <1>1, <2>2, <2>3 DEF Histories
  <2>4. CASE requests[r].identity \notin disturbed
    BY <1>3, <2>1, <2>2, <2>4
  <2>5. QED
    BY <2>3, <2>4
<1>5. CASE UpsertAccess(r) \/ SyncBreaks(r)
  BY <1>1, <1>2, <1>5 DEF UpsertAccess, SyncBreaks, SyncFails, Histories
<1>6. QED
  BY <1>4, <1>5

(* TypeInv is preserved by every step. *)
LEMMA TypeInvStep == ASSUME TypeInv, [Next]_vars PROVE TypeInv'
<1>1. /\ Tables /\ TeamsGone /\ Histories /\ RequestsOK
      /\ requests \in [Request -> RequestState]
      /\ memberOf \in [Identity -> SUBSET Group]
  BY TypeParts DEF Tables
<1>2. UNCHANGED requests => requests' \in [Request -> RequestState] /\ RequestsOK'
  BY <1>1 DEF RequestsOK
<1>3. UNCHANGED <<asked, disturbed>> => Histories'
  BY <1>1 DEF Histories
<1>4. ASSUME NEW p \in Provider, NEW state \in {"enabled", "disabled"},
             HandleCreateSSOProvider(p, state) \/ HandleUpdateSSOProvider(p, state)
      PROVE  TypeInv'
  BY <1>2, <1>3, <1>4, ProviderTables, TypePartsNext
  DEF HandleCreateSSOProvider, HandleUpdateSSOProvider, CreateSSOProvider, UpdateSSOProvider
<1>5. ASSUME NEW p \in Provider, HandleDeleteSSOProvider(p) PROVE TypeInv'
  BY <1>2, <1>3, <1>5, ProviderTables, TypePartsNext DEF HandleDeleteSSOProvider
<1>6. ASSUME NEW r \in Request, NEW i \in Identity, HandleCallback(r, i) PROVE TypeInv'
  BY <1>1, <1>3, <1>6, LoginRows, SameTables, TypePartsNext DEF HandleCallback
<1>7. ASSUME NEW r \in Request, LoadProvider(r) \/ LoginRefused(r) \/ CreateSession(r)
      PROVE  TypeInv'
  BY <1>1, <1>3, <1>7, LoginRows, SameTables, TypePartsNext
  DEF LoadProvider, LoginRefused, CreateSession
<1>8. ASSUME NEW r \in Request, ReadGroups(r) PROVE TypeInv'
  <2>1. requests[r].identity \in Identity
    BY <1>1, <1>8 DEF ReadGroups, RequestsOK, RowOK
  <2>2. Histories'
    BY <1>1, <1>8, <2>1, BeginsHistories DEF ReadGroups
  <2>3. QED
    BY <1>1, <1>8, <2>2, LoginRows, SameTables, TypePartsNext DEF ReadGroups
<1>9. ASSUME NEW r \in Request, SelectGrants(r) \/ UpsertAccess(r) PROVE TypeInv'
  BY <1>9, SyncRows, SyncTables, SyncHistories, TypePartsNext
<1>10. ASSUME NEW r \in Request, RevokeAccess(r) PROVE TypeInv'
  BY <1>3, <1>10, SyncRows, SyncTables, TypePartsNext DEF RevokeAccess
<1>11. ASSUME NEW r \in Request, SelectExisting(r) PROVE TypeInv'
  BY <1>1, <1>3, <1>11, SyncRows, SameTables, TypePartsNext DEF SelectExisting
<1>12. ASSUME NEW r \in Request, SyncBreaks(r) PROVE TypeInv'
  BY <1>1, <1>12, SyncRows, SyncHistories, SameTables, TypePartsNext DEF SyncBreaks
<1>13. ASSUME NEW r \in Request, ListMembers(r) PROVE TypeInv'
  BY <1>1, <1>3, <1>13, ProvisionRows, SameTables, TypePartsNext DEF ListMembers
<1>14. ASSUME NEW r \in Request, ProvisionMember(r) PROVE TypeInv'
  <2>1. PICK i \in requests[r].rest : SyncBegins(r, i)
    BY <1>14 DEF ProvisionMember
  <2>2. i \in Identity
    BY <1>1 DEF RequestState
  <2>3. Histories'
    BY <1>1, <2>1, <2>2, BeginsHistories
  <2>4. QED
    BY <1>1, <1>14, <2>3, ProvisionRows, SameTables, TypePartsNext DEF ProvisionMember
<1>15. ASSUME NEW r \in Request, NEW p \in Provider, NEW g \in Group, NEW t \in Team,
              NEW role \in Role, HandleCreateGroupMapping(r, p, g, t, role)
       PROVE  TypeInv'
  BY <1>3, <1>15, ProvisionRows, MappingTables, TypePartsNext DEF HandleCreateGroupMapping
<1>16. ASSUME NEW g \in Group, NEW t \in Team, NEW role \in Role, BootstrapMapping(g, t, role)
       PROVE  TypeInv'
  BY <1>2, <1>3, <1>16, MappingTables, TypePartsNext DEF BootstrapMapping
<1>17. ASSUME NEW g \in Group, NEW t \in Team, HandleDeleteGroupMapping(g, t) PROVE TypeInv'
  BY <1>2, <1>3, <1>17, MappingTables, TypePartsNext DEF HandleDeleteGroupMapping
<1>18. ASSUME NEW t \in Team, HandleDeleteTeam(t) PROVE TypeInv'
  BY <1>1, <1>2, <1>18, DeleteTeamTables, DisturbsHistories, TypePartsNext DEF HandleDeleteTeam
<1>19. ASSUME NEW i \in Identity, NEW g \in Group, DirectoryChanges(i, g) PROVE TypeInv'
  <2>1. memberOf' \in [Identity -> SUBSET Group]
    BY <1>1, <1>19 DEF DirectoryChanges
  <2>2. QED
    BY <1>2, <1>3, <1>19, <2>1, SameTables, TypePartsNext DEF DirectoryChanges
<1>20. CASE UNCHANGED vars
  BY <1>1, <1>2, <1>3, <1>20, SameTables, TypePartsNext DEF vars
<1>21. QED
  BY <1>4, <1>5, <1>6, <1>7, <1>8, <1>9, <1>10, <1>11, <1>12, <1>13, <1>14, <1>15, <1>16,
     <1>17, <1>18, <1>19, <1>20 DEF Next, RequestStep

(* Every table and every sync in progress keeps its type: a mapping has a  *)
(* role, a login and a sync know whom they are for, and a team that is     *)
(* gone has neither mappings nor access rows.                              *)
THEOREM TeamAccessTypeCorrect == Spec => []TypeOK
<1>1. TypeInv => TypeOK
  BY DEF TypeInv
<1>2. QED
  BY <1>1, InitTypeInv, TypeInvStep, PTL DEF Spec

----------------------------------------------------------------------------
(* The syncs of an identity *)

(* r is the only one to move, and only what it was or is about to do for   *)
(* one identity changes.                                                   *)
OnlyMoves(r) == \A x \in Request : x # r => requests'[x] = requests[x]

LEMMA InitSyncInv == Init => SyncInv
  BY DEF Init, SyncInv, AskedMeansUndisturbed, NobodyAheadOfAsked, Claims, AtWork, Syncing, Idle

(* What is claimed of an identity stays true while its rows and its syncs  *)
(* stay, and is nothing once the grants are forgotten; a sync that begins  *)
(* has done nothing yet.                                                   *)
LEMMA ClaimsStay ==
  ASSUME NEW j \in Identity, Claims(j), access'[j] = access[j],
         asked'[j] = asked[j] \/ asked'[j] = {},
         \A x \in Request : AtWork(x, j) => AtWork(x, j)' /\ requests'[x] = requests[x],
         \A x \in Request : AtWork(x, j)' => AtWork(x, j) \/ requests'[x].pc = "select"
  PROVE  Claims(j)'
<1> SUFFICES ASSUME asked'[j] = asked[j], asked[j] # {}
             PROVE  Claims(j)'
  BY DEF Claims
<1>1. ASSUME NEW x \in Request, AtWork(x, j)' PROVE WorksFor(x, asked[j])'
  <2>1. CASE AtWork(x, j)
    <3>1. WorksFor(x, asked[j]) /\ requests'[x] = requests[x]
      BY <2>1 DEF Claims
    <3>2. QED
      BY <3>1 DEF WorksFor
  <2>2. CASE requests'[x].pc = "select"
    BY <2>2 DEF WorksFor
  <2>3. QED
    BY <1>1, <2>1, <2>2
<1>2. Held(j)' = Held(j)
  BY DEF Held
<1>3. ASSUME NEW x \in Request, AtWork(x, j), NEW t
      PROVE  /\ AtWork(x, j)'
             /\ WillGrant(x, t) => WillGrant(x, t)'
             /\ WillRevoke(x, t) => WillRevoke(x, t)'
  BY <1>3 DEF WillGrant, WillRevoke
<1>4. GrantedOrToCome(j)'
  BY <1>2, <1>3 DEF Claims, GrantedOrToCome
<1>5. FoundOrToChange(j)'
  <2>1. \A t : Found(j, t) => Found(j, t)'
    BY DEF Found
  <2>2. QED
    BY <1>2, <1>3, <2>1 DEF Claims, FoundOrToChange
<1>6. QED
  BY <1>1, <1>4, <1>5 DEF Claims

(* Steps of requests that are not at work leave the syncs alone. *)
LEMMA QuietStep ==
  ASSUME SyncInv, UNCHANGED <<access, asked, disturbed>>,
         \A x \in Request : requests'[x] = requests[x] \/ (~Syncing(x) /\ ~Syncing(x)')
  PROVE  SyncInv'
<1>1. \A x \in Request, j \in Identity :
        /\ AtWork(x, j)' => AtWork(x, j) /\ requests'[x] = requests[x]
        /\ AtWork(x, j) => AtWork(x, j)' /\ requests'[x] = requests[x]
  BY DEF AtWork, Syncing
<1>2. AskedMeansUndisturbed' /\ NobodyAheadOfAsked'
  BY <1>1 DEF SyncInv, AskedMeansUndisturbed, NobodyAheadOfAsked
<1>3. \A j \in Identity : Claims(j)'
  BY <1>1, ClaimsStay DEF SyncInv
<1>4. QED
  BY <1>2, <1>3 DEF SyncInv

(* A sync begins: after a calm nothing is remembered of the earlier ones,  *)
(* otherwise it joins those in progress before its read.                   *)
LEMMA BeginStep ==
  ASSUME SyncInv, UNCHANGED access, NEW r \in Request, NEW i \in Identity,
         asked \in [Identity -> GrantSets], SyncBegins(r, i),
         ~Syncing(r), OnlyMoves(r), requests'[r].pc = "select", requests'[r].identity = i
  PROVE  SyncInv'
<1> DEFINE calm == \A x \in Request \ {r} : ~AtWork(x, i)
<1>1. /\ asked' = [asked EXCEPT ![i] = IF calm THEN {} ELSE @]
      /\ disturbed' = IF calm THEN disturbed \ {i} ELSE disturbed
  BY DEF SyncBegins, AtWork
<1>2. \A x \in Request, j \in Identity :
        /\ AtWork(x, j)' => (x = r /\ j = i) \/ (x # r /\ AtWork(x, j))
        /\ AtWork(x, j) => x # r /\ AtWork(x, j)' /\ requests'[x] = requests[x]
  BY DEF AtWork, Syncing, OnlyMoves
<1>3. \A j \in Identity : asked'[j] = asked[j] \/ (j = i /\ asked'[j] = {} /\ calm)
  BY <1>1
<1>4. AskedMeansUndisturbed'
  BY <1>1, <1>3 DEF SyncInv, AskedMeansUndisturbed
<1>5. NobodyAheadOfAsked'
  <2> SUFFICES ASSUME NEW j \in Identity, NEW x \in Request,
                      asked'[j] = {}, j \notin disturbed', AtWork(x, j)'
               PROVE  requests'[x].pc = "select"
    BY DEF NobodyAheadOfAsked
  <2>1. CASE x = r
    BY <2>1
  <2>2. CASE x # r
    <3>1. AtWork(x, j) /\ requests'[x] = requests[x]
      BY <1>2, <2>2 DEF OnlyMoves
    <3>2. ~(j = i /\ calm)
      BY <2>2, <3>1
    <3>3. asked[j] = {} /\ j \notin disturbed
      BY <1>1, <1>3, <3>2
    <3>4. QED
      BY <3>1, <3>3 DEF SyncInv, NobodyAheadOfAsked
  <2>3. QED
    BY <2>1, <2>2
<1>6. ASSUME NEW j \in Identity PROVE Claims(j)'
  <2>1. asked'[j] = asked[j] \/ asked'[j] = {}
    BY <1>3
  <2>2. \A x \in Request : AtWork(x, j)' => AtWork(x, j) \/ requests'[x].pc = "select"
    BY <1>2
  <2>3. QED
    BY <1>2, <2>1, <2>2, ClaimsStay DEF SyncInv
<1>7. QED
  BY <1>4, <1>5, <1>6 DEF SyncInv

(* After a disturbance of i nothing is claimed about it; the others are    *)
(* not concerned.                                                          *)
LEMMA DisturbStep ==
  ASSUME SyncInv, NEW I \in SUBSET Identity, Disturbs(I),
         asked \in [Identity -> GrantSets],
         \A j \in Identity \ I : access'[j] = access[j],
         \A j \in Identity \ I, x \in Request :
           /\ AtWork(x, j) <=> AtWork(x, j)'
           /\ AtWork(x, j) => requests'[x] = requests[x]
  PROVE  SyncInv'
<1>1. \A j \in Identity :
        /\ j \in I => asked'[j] = {} /\ j \in disturbed'
        /\ j \notin I => asked'[j] = asked[j] /\ (j \in disturbed' <=> j \in disturbed)
  BY DEF Disturbs
<1>2. AskedMeansUndisturbed' /\ NobodyAheadOfAsked'
  BY <1>1 DEF SyncInv, AskedMeansUndisturbed, NobodyAheadOfAsked
<1>3. ASSUME NEW j \in Identity PROVE Claims(j)'
  <2>1. CASE j \in I
    BY <1>1, <2>1 DEF Claims
  <2>2. CASE j \notin I
    BY <1>1, <2>2, ClaimsStay DEF SyncInv
  <2>3. QED
    BY <2>1, <2>2
<1>4. QED
  BY <1>2, <1>3 DEF SyncInv

(* What the statements of a sync need: r moves on for its own identity. *)
Moves(r, i) ==
  /\ OnlyMoves(r)
  /\ AtWork(r, i)
  /\ \A j \in Identity : AtWork(r, j)' => j = i

LEMMA OthersStay ==
  ASSUME NEW r \in Request, NEW i \in Identity, Moves(r, i)
  PROVE  /\ \A x \in Request, j \in Identity :
              x # r => (AtWork(x, j) <=> AtWork(x, j)') /\ requests'[x] = requests[x]
         /\ \A x \in Request : \A t : x # r => (WillGrant(x, t) <=> WillGrant(x, t)')
         /\ \A x \in Request : \A t : x # r => (WillRevoke(x, t) <=> WillRevoke(x, t)')
         /\ \A j \in Identity : j # i => ~AtWork(r, j) /\ ~AtWork(r, j)'
  BY DEF Moves, OnlyMoves, AtWork, Syncing, WillGrant, WillRevoke

(* A failed sync disturbs its identity. *)
LEMMA FailStep ==
  ASSUME SyncInv, asked \in [Identity -> GrantSets], UNCHANGED access,
         NEW r \in Request, NEW i \in Identity, Moves(r, i), Disturbs({i})
  PROVE  SyncInv'
<1>1. \A j \in Identity \ {i}, x \in Request :
        /\ AtWork(x, j) <=> AtWork(x, j)'
        /\ AtWork(x, j) => requests'[x] = requests[x]
  BY OthersStay DEF Moves, OnlyMoves
<1>2. QED
  BY <1>1, DisturbStep

(* What remains to be shown about a step for i that keeps the histories of *)
(* the others: the claims about i itself.                                  *)
LEMMA OwnStep ==
  ASSUME SyncInv, UNCHANGED disturbed, NEW r \in Request, NEW i \in Identity, Moves(r, i),
         \A j \in Identity : j # i => asked'[j] = asked[j] /\ access'[j] = access[j],
         i \notin disturbed => asked'[i] # {},
         asked'[i] # {} => i \notin disturbed,
         Claims(i)'
  PROVE  SyncInv'
<1>1. AskedMeansUndisturbed'
  BY DEF SyncInv, AskedMeansUndisturbed
<1>2. NobodyAheadOfAsked'
  <2> SUFFICES ASSUME NEW j \in Identity, NEW x \in Request,
                      asked'[j] = {}, j \notin disturbed', AtWork(x, j)'
               PROVE  requests'[x].pc = "select"
    BY DEF NobodyAheadOfAsked
  <2>1. j # i
    OBVIOUS
  <2>2. x # r /\ AtWork(x, j) /\ requests'[x] = requests[x]
    BY <2>1, OthersStay
  <2>3. QED
    BY <2>1, <2>2 DEF SyncInv, NobodyAheadOfAsked
<1>3. ASSUME NEW j \in Identity, j # i PROVE Claims(j)'
  <2>1. \A x \in Request : AtWork(x, j) => AtWork(x, j)' /\ requests'[x] = requests[x]
    BY <1>3, OthersStay
  <2>2. \A x \in Request : AtWork(x, j)' => AtWork(x, j)
    BY <1>3, OthersStay
  <2>3. QED
    BY <1>3, <2>1, <2>2, ClaimsStay DEF SyncInv
<1>4. QED
  BY <1>1, <1>2, <1>3 DEF SyncInv

(* What the others do for i stays what it is. *)
LEMMA OthersWork ==
  ASSUME SyncInv, NEW r \in Request, NEW i \in Identity, Moves(r, i), asked[i] # {},
         asked[i] \subseteq asked'[i], NEW x \in Request, x # r, AtWork(x, i)'
  PROVE  WorksFor(x, asked[i])'
<1>1. AtWork(x, i) /\ requests'[x] = requests[x]
  BY OthersStay
<1>2. WorksFor(x, asked[i])
  BY <1>1 DEF SyncInv, Claims
<1>3. QED
  BY <1>1, <1>2 DEF WorksFor

(* So do the claims about i, if r's own work keeps them. *)
LEMMA OwnClaims ==
  ASSUME SyncInv, asked \in [Identity -> GrantSets], UNCHANGED <<asked, disturbed>>,
         NEW r \in Request, NEW i \in Identity, Moves(r, i), requests[r].pc # "select",
         \A j \in Identity : j # i => access'[j] = access[j],
         ASSUME asked[i] # {}, WorksFor(r, asked[i]), GrantedOrToCome(i), FoundOrToChange(i)
         PROVE  /\ AtWork(r, i)' => WorksFor(r, asked[i])'
                /\ GrantedOrToCome(i)'
                /\ FoundOrToChange(i)'
  PROVE  SyncInv'
<1>1. AtWork(r, i)
  BY DEF Moves
<1>2. (i \notin disturbed => asked[i] # {}) /\ (asked[i] # {} => i \notin disturbed)
  BY <1>1 DEF SyncInv, NobodyAheadOfAsked, AskedMeansUndisturbed
<1>3. Claims(i)'
  <2> SUFFICES ASSUME asked[i] # {}
               PROVE  /\ \A x \in Request : AtWork(x, i)' => WorksFor(x, asked[i])'
                      /\ GrantedOrToCome(i)'
                      /\ FoundOrToChange(i)'
    BY DEF Claims
  <2>1. WorksFor(r, asked[i]) /\ GrantedOrToCome(i) /\ FoundOrToChange(i)
    BY <1>1 DEF SyncInv, Claims
  <2>2. (AtWork(r, i)' => WorksFor(r, asked[i])') /\ GrantedOrToCome(i)' /\ FoundOrToChange(i)'
    BY <2>1
  <2>3. \A x \in Request : AtWork(x, i)' => WorksFor(x, asked[i])'
    BY <2>2, OthersWork
  <2>4. QED
    BY <2>2, <2>3
<1>4. QED
  BY <1>2, <1>3, OwnStep

(* The read of the grants: they are remembered with the others; without    *)
(* any group everything has been revoked.                                  *)
LEMMA SelectStep ==
  ASSUME TypeInv, SyncInv, NEW r \in Request, SelectGrants(r)
  PROVE  SyncInv'
<1>0. requests[r].identity \in Identity
  BY TypeParts DEF RequestsOK, RowOK, SelectGrants
<1> SUFFICES ASSUME NEW i \in Identity, i = requests[r].identity,
                    NEW none \in BOOLEAN, none <=> requests[r].groups = {},
                    NEW grants,
                    grants = IF requests[r].groups = {} THEN {}
                             ELSE GrantsOf(requests[r].groups, requests[r].provider)
             PROVE  SyncInv'
  BY <1>0
<1>1. asked \in [Identity -> GrantSets] /\ RowOK(requests[r])
  BY TypeParts DEF RequestsOK, RowOK, SelectGrants, Histories
<1>2. /\ requests \in [Request -> RequestState]
      /\ access \in [Identity -> [Team -> Role \cup {"none"}]]
  BY TypeParts DEF Tables
<1>3. /\ requests'[r].pc = IF none THEN "revoke" ELSE "upsert"
      /\ requests'[r].identity = i
      /\ requests'[r].grants = grants /\ requests'[r].todo = grants
      /\ requests'[r].revoke = requests[r].revoke
  BY <1>1, <1>2 DEF SelectGrants, Forgetting, RequestState
<1>4. OnlyMoves(r)
  BY <1>2 DEF SelectGrants, OnlyMoves
<1>5. Moves(r, i) /\ AtWork(r, i)'
  BY <1>3, <1>4 DEF Moves, AtWork, Syncing, SelectGrants
<1>6. UNCHANGED disturbed /\ \A j \in Identity : j # i => access'[j] = access[j] /\ asked'[j] = asked[j]
  BY <1>1, <1>2 DEF SelectGrants
<1>7. CASE i \in disturbed
  <2>1. asked'[i] = {}
    BY <1>7 DEF SelectGrants, SyncInv, AskedMeansUndisturbed
  <2>2. Claims(i)'
    BY <2>1 DEF Claims
  <2>3. QED
    BY <1>5, <1>6, <1>7, <2>1, <2>2, OwnStep
<1>8. CASE i \notin disturbed
  <2>1. asked'[i] = asked[i] \cup {grants}
    BY <1>1, <1>8 DEF SelectGrants
  <2>2. ASSUME NEW x \in Request, AtWork(x, i)' PROVE WorksFor(x, asked[i])'
    <3>1. CASE x = r
      <4>1. none => requests'[r].revoke \cap TeamsOf(grants) = {}
        BY DEF TeamsOf
      <4>2. QED
        BY <1>3, <2>1, <3>1, <4>1 DEF WorksFor
    <3>2. CASE x # r /\ asked[i] = {}
      <4>1. AtWork(x, i) /\ requests'[x] = requests[x]
        BY <1>5, <2>2, <3>2, OthersStay
      <4>2. requests'[x].pc = "select"
        BY <1>8, <3>2, <4>1 DEF SyncInv, NobodyAheadOfAsked
      <4>3. QED
        BY <4>2 DEF WorksFor
    <3>3. CASE x # r /\ asked[i] # {}
      BY <1>5, <2>1, <2>2, <3>3, OthersWork
    <3>4. QED
      BY <3>1, <3>2, <3>3
  <2>3. ASSUME NEW t \in TeamsOf(grants) PROVE WillGrant(r, t)'
    BY <1>3 DEF WillGrant, TeamsOf
  <2>4. GrantedOrToCome(i)'
    BY <1>5, <2>1, <2>3 DEF GrantedOrToCome
  <2>5. ASSUME NEW t \in Held(i)' PROVE WillGrant(r, t)' \/ WillRevoke(r, t)'
    <3>1. CASE none
      BY <1>1, <1>2, <3>1 DEF SelectGrants, Held
    <3>2. CASE ~none
      BY <1>3, <2>3, <3>2 DEF WillRevoke
    <3>3. QED
      BY <3>1, <3>2
  <2>6. FoundOrToChange(i)'
    BY <1>5, <2>5 DEF FoundOrToChange
  <2>7. Claims(i)' /\ asked'[i] # {}
    BY <2>1, <2>2, <2>4, <2>6 DEF Claims
  <2>8. QED
    BY <1>5, <1>6, <1>8, <2>7, OwnStep
<1>9. QED
  BY <1>7, <1>8

(* A granted team is written, or all of them have been. *)
LEMMA UpsertStep ==
  ASSUME TypeInv, SyncInv, NEW r \in Request, UpsertAccess(r)
  PROVE  SyncInv'
<1>0. requests[r].identity \in Identity
  BY TypeParts DEF RequestsOK, RowOK, UpsertAccess
<1> SUFFICES ASSUME NEW i \in Identity, i = requests[r].identity PROVE SyncInv'
  BY <1>0
<1>1. /\ asked \in [Identity -> GrantSets] /\ RowOK(requests[r])
      /\ requests[r].pc = "upsert"
      /\ requests \in [Request -> RequestState]
      /\ access \in [Identity -> [Team -> Role \cup {"none"}]]
  BY TypeParts DEF RequestsOK, RowOK, UpsertAccess, Histories, Tables
<1>2. AtWork(r, i)
  BY <1>1 DEF AtWork, Syncing
<1>3. ASSUME SyncFails(r), UNCHANGED access PROVE SyncInv'
  <2>1. OnlyMoves(r) /\ ~Syncing(r)' /\ Disturbs({i})
    BY <1>1, <1>3 DEF SyncFails, OnlyMoves, Syncing, Idle
  <2>2. Moves(r, i)
    BY <1>2, <2>1 DEF Moves, AtWork
  <2>3. QED
    BY <1>1, <1>3, <2>1, <2>2, FailStep
<1>4. ASSUME NEW g \in requests[r].todo, access' = [access EXCEPT ![i][g[1]] = g[2]],
             requests' = [requests EXCEPT ![r].todo = @ \ {g}], UNCHANGED <<asked, disturbed>>
      PROVE  SyncInv'
  <2>1. /\ requests'[r].pc = "upsert" /\ requests'[r].identity = i
        /\ requests'[r].grants = requests[r].grants
        /\ requests'[r].todo = requests[r].todo \ {g}
        /\ OnlyMoves(r)
    BY <1>1, <1>4 DEF RequestState, OnlyMoves
  <2>2. Moves(r, i) /\ AtWork(r, i)'
    BY <1>2, <2>1 DEF Moves, AtWork, Syncing
  <2>3. g \in Team \X Role /\ g = <<g[1], g[2]>> /\ g[1] \in Team /\ g[2] # "none"
    BY <1>1, TeamAccessAssumption DEF RowOK, RequestState
  <2>4. \A j \in Identity : j # i => access'[j] = access[j]
    BY <1>1, <1>4
  <2>5. \A t \in Team : access'[i][t] = IF t = g[1] THEN g[2] ELSE access[i][t]
    BY <1>1, <1>4, <2>3
  <2>6. g[1] \in Held(i)' /\ \A t \in Team : t # g[1] => (t \in Held(i)' <=> t \in Held(i))
    BY <2>3, <2>5 DEF Held
  <2>7. ASSUME NEW t, t # g[1]
        PROVE  /\ WillGrant(r, t) => WillGrant(r, t)'
               /\ WillRevoke(r, t) => WillRevoke(r, t)'
    BY <1>1, <2>1, <2>7 DEF WillGrant, WillRevoke, TeamsOf
  <2>8. ASSUME asked[i] # {}, WorksFor(r, asked[i]), GrantedOrToCome(i), FoundOrToChange(i)
        PROVE  /\ AtWork(r, i)' => WorksFor(r, asked[i])'
               /\ GrantedOrToCome(i)'
               /\ FoundOrToChange(i)'
    <3>1. WorksFor(r, asked[i])'
      BY <1>1, <1>4, <2>1, <2>8 DEF WorksFor
    <3>2. GrantedOrToCome(i)'
      BY <1>4, <2>2, <2>6, <2>7, <2>8, OthersStay DEF GrantedOrToCome
    <3>3. Found(i, g[1])'
      BY <1>1, <1>4, <2>3, <2>5, <2>8 DEF Found, WorksFor
    <3>4. \A t \in Team : t # g[1] /\ Found(i, t) => Found(i, t)'
      BY <1>4, <2>5 DEF Found
    <3>5. FoundOrToChange(i)'
      <4> SUFFICES ASSUME NEW t \in Held(i)', t # g[1]
                   PROVE  \/ Found(i, t)'
                          \/ \E x \in Request : AtWork(x, i)' /\ (WillGrant(x, t)' \/ WillRevoke(x, t)')
        BY <3>3 DEF FoundOrToChange
      <4>1. t \in Team /\ t \in Held(i)
        BY <2>6 DEF Held
      <4>2. QED
        BY <2>2, <2>7, <2>8, <3>4, <4>1, OthersStay DEF FoundOrToChange
    <3>6. QED
      BY <3>1, <3>2, <3>5
  <2>9. QED
    BY <1>1, <1>4, <2>2, <2>4, <2>8, OwnClaims
<1>5. ASSUME requests[r].todo = {}, requests' = [requests EXCEPT ![r].pc = "existing"],
             UNCHANGED <<access, asked, disturbed>>
      PROVE  SyncInv'
  <2>1. /\ requests'[r].pc = "existing" /\ requests'[r].identity = i
        /\ requests'[r].grants = requests[r].grants
        /\ OnlyMoves(r)
    BY <1>1, <1>5 DEF RequestState, OnlyMoves
  <2>2. Moves(r, i) /\ AtWork(r, i)'
    BY <1>2, <2>1 DEF Moves, AtWork, Syncing
  <2>3. \A t : ~WillGrant(r, t) /\ (WillRevoke(r, t) => WillRevoke(r, t)')
    BY <1>1, <1>5, <2>1 DEF WillGrant, WillRevoke, TeamsOf
  <2>4. ASSUME asked[i] # {}, WorksFor(r, asked[i]), GrantedOrToCome(i), FoundOrToChange(i)
        PROVE  /\ AtWork(r, i)' => WorksFor(r, asked[i])'
               /\ GrantedOrToCome(i)'
               /\ FoundOrToChange(i)'
    <3>1. WorksFor(r, asked[i])'
      BY <1>1, <1>5, <2>1, <2>4 DEF WorksFor
    <3>2. Held(i)' = Held(i) /\ \A t : Found(i, t) => Found(i, t)'
      BY <1>5 DEF Held, Found
    <3>3. GrantedOrToCome(i)'
      BY <1>5, <2>2, <2>3, <2>4, <3>2, OthersStay DEF GrantedOrToCome
    <3>4. FoundOrToChange(i)'
      BY <2>2, <2>3, <2>4, <3>2, OthersStay DEF FoundOrToChange
    <3>5. QED
      BY <3>1, <3>3, <3>4
  <2>5. QED
    BY <1>1, <1>5, <2>2, <2>4, OwnClaims
<1>6. QED
  BY <1>3, <1>4, <1>5 DEF UpsertAccess

(* The read of what is held, then one revocation after the other. *)
LEMMA ExistingStep ==
  ASSUME TypeInv, SyncInv, NEW r \in Request, SelectExisting(r)
  PROVE  SyncInv'
<1>0. requests[r].identity \in Identity
  BY TypeParts DEF RequestsOK, RowOK, SelectExisting
<1> SUFFICES ASSUME NEW i \in Identity, i = requests[r].identity PROVE SyncInv'
  BY <1>0
<1>1. /\ requests \in [Request -> RequestState] /\ requests[r].pc = "existing"
      /\ asked \in [Identity -> GrantSets]
  BY TypeParts DEF SelectExisting, Histories
<1>2. /\ requests'[r].pc = "revoke" /\ requests'[r].identity = i
      /\ requests'[r].revoke = Held(i) \ TeamsOf(requests[r].grants)
      /\ OnlyMoves(r)
      /\ UNCHANGED <<access, asked, disturbed>>
  BY <1>1 DEF SelectExisting, RequestState, OnlyMoves
<1>3. AtWork(r, i)' /\ Moves(r, i)
  BY <1>1, <1>2 DEF Moves, AtWork, Syncing
<1>4. \A t : ~WillGrant(r, t) /\ (t \in Held(i) /\ WillRevoke(r, t) => WillRevoke(r, t)')
  BY <1>1, <1>2 DEF WillGrant, WillRevoke
<1>5. ASSUME asked[i] # {}, WorksFor(r, asked[i]), GrantedOrToCome(i), FoundOrToChange(i)
      PROVE  /\ AtWork(r, i)' => WorksFor(r, asked[i])'
             /\ GrantedOrToCome(i)'
             /\ FoundOrToChange(i)'
  <2>1. WorksFor(r, asked[i])'
    BY <1>1, <1>2, <1>5 DEF WorksFor
  <2>2. Held(i)' = Held(i) /\ \A t : Found(i, t) => Found(i, t)'
    BY <1>2 DEF Held, Found
  <2>3. GrantedOrToCome(i)'
    BY <1>2, <1>3, <1>4, <1>5, <2>2, OthersStay DEF GrantedOrToCome
  <2>4. FoundOrToChange(i)'
    BY <1>3, <1>4, <1>5, <2>2, OthersStay DEF FoundOrToChange
  <2>5. QED
    BY <2>1, <2>3, <2>4
<1>6. QED
  BY <1>1, <1>2, <1>3, <1>5, OwnClaims

LEMMA RevokeStep ==
  ASSUME TypeInv, SyncInv, NEW r \in Request, RevokeAccess(r)
  PROVE  SyncInv'
<1>0. requests[r].identity \in Identity
  BY TypeParts DEF RequestsOK, RowOK, RevokeAccess
<1> SUFFICES ASSUME NEW i \in Identity, i = requests[r].identity PROVE SyncInv'
  BY <1>0
<1>1. /\ requests \in [Request -> RequestState] /\ requests[r].pc = "revoke"
      /\ access \in [Identity -> [Team -> Role \cup {"none"}]]
      /\ asked \in [Identity -> GrantSets]
      /\ UNCHANGED <<asked, disturbed>>
  BY TypeParts DEF RevokeAccess, Tables, Histories
<1>2. AtWork(r, i) /\ \A t : ~WillGrant(r, t)
  BY <1>1 DEF AtWork, Syncing, WillGrant
<1>3. ASSUME NEW t0 \in requests[r].revoke, access' = [access EXCEPT ![i][t0] = "none"],
             requests' = [requests EXCEPT ![r].revoke = @ \ {t0}]
      PROVE  SyncInv'
  <2>1. /\ requests'[r].pc = "revoke" /\ requests'[r].identity = i
        /\ requests'[r].revoke = requests[r].revoke \ {t0}
        /\ OnlyMoves(r)
    BY <1>1, <1>3 DEF RequestState, OnlyMoves
  <2>2. AtWork(r, i)' /\ Moves(r, i)
    BY <1>2, <2>1 DEF Moves, AtWork, Syncing
  <2>3. \A t : t # t0 /\ WillRevoke(r, t) => WillRevoke(r, t)'
    BY <1>1, <2>1 DEF WillRevoke
  <2>4. \A t \in Team : access'[i][t] = IF t = t0 THEN "none" ELSE access[i][t]
    BY <1>1, <1>3
  <2>5. \A j \in Identity : j # i => access'[j] = access[j]
    BY <1>1, <1>3
  <2>6. /\ \A t \in Held(i)' : t # t0 /\ t \in Held(i)
        /\ \A t \in Held(i) : t # t0 => t \in Held(i)'
    BY <2>4 DEF Held
  <2>7. ASSUME asked[i] # {}, WorksFor(r, asked[i]), GrantedOrToCome(i), FoundOrToChange(i)
        PROVE  /\ AtWork(r, i)' => WorksFor(r, asked[i])'
               /\ GrantedOrToCome(i)'
               /\ FoundOrToChange(i)'
    <3>1. PICK G \in asked[i] : requests[r].revoke \cap TeamsOf(G) = {}
      BY <1>1, <2>7 DEF WorksFor
    <3>2. WorksFor(r, asked[i])'
      BY <1>1, <2>1, <3>1 DEF WorksFor
    <3>3. t0 \notin TeamsOf(G)
      BY <3>1
    <3>4. GrantedOrToCome(i)'
      <4> SUFFICES ASSUME NEW t \in Team, \A H \in asked[i] : t \in TeamsOf(H)
                   PROVE  t \in Held(i)' \/ \E x \in Request : AtWork(x, i)' /\ WillGrant(x, t)'
        BY <1>1 DEF GrantedOrToCome
      <4>1. t # t0
        BY <3>1, <3>3
      <4>2. t \in Held(i) \/ \E x \in Request : AtWork(x, i) /\ WillGrant(x, t)
        BY <2>7 DEF GrantedOrToCome
      <4>3. QED
        BY <1>2, <2>2, <2>6, <4>1, <4>2, OthersStay
    <3>5. FoundOrToChange(i)'
      <4> SUFFICES ASSUME NEW t \in Held(i)'
                   PROVE  \/ Found(i, t)'
                          \/ \E x \in Request : AtWork(x, i)' /\ (WillGrant(x, t)' \/ WillRevoke(x, t)')
        BY DEF FoundOrToChange
      <4>1. t \in Team /\ t # t0 /\ t \in Held(i)
        BY <2>6 DEF Held
      <4>2. Found(i, t) => Found(i, t)'
        BY <1>1, <2>4, <4>1 DEF Found
      <4>3. QED
        BY <1>2, <2>2, <2>3, <2>7, <4>1, <4>2, OthersStay DEF FoundOrToChange
    <3>6. QED
      BY <3>2, <3>4, <3>5
  <2>8. QED
    BY <1>1, <2>2, <2>5, <2>7, OwnClaims
<1>4. ASSUME requests[r].revoke = {}, requests' = [requests EXCEPT ![r] = AfterSync(r)],
             UNCHANGED access
      PROVE  SyncInv'
  <2>1. OnlyMoves(r) /\ requests'[r].pc \in {"teams", "idle", "members"}
    BY <1>1, <1>4 DEF AfterSync, Idle, OnlyMoves
  <2>2. Moves(r, i) /\ ~AtWork(r, i)'
    BY <1>2, <2>1 DEF Moves, AtWork, Syncing
  <2>3. \A t : ~WillGrant(r, t) /\ ~WillRevoke(r, t)
    BY <1>1, <1>2, <1>4 DEF WillRevoke
  <2>4. ASSUME asked[i] # {}, WorksFor(r, asked[i]), GrantedOrToCome(i), FoundOrToChange(i)
        PROVE  /\ AtWork(r, i)' => WorksFor(r, asked[i])'
               /\ GrantedOrToCome(i)'
               /\ FoundOrToChange(i)'
    <3>1. Held(i)' = Held(i) /\ \A t : Found(i, t) => Found(i, t)'
      BY <1>1, <1>4 DEF Held, Found
    <3>2. GrantedOrToCome(i)'
      BY <1>1, <2>2, <2>3, <2>4, <3>1, OthersStay DEF GrantedOrToCome
    <3>3. FoundOrToChange(i)'
      BY <2>2, <2>3, <2>4, <3>1, OthersStay DEF FoundOrToChange
    <3>4. QED
      BY <2>2, <3>2, <3>3
  <2>5. QED
    BY <1>1, <1>4, <2>2, <2>4, OwnClaims
<1>5. QED
  BY <1>3, <1>4 DEF RevokeAccess

LEMMA SyncInvStep == ASSUME TypeInv, SyncInv, [Next]_vars PROVE SyncInv'
<1>1. /\ asked \in [Identity -> GrantSets]
      /\ requests \in [Request -> RequestState]
      /\ RequestsOK
  BY TypeParts DEF Histories
<1>2. ASSUME UNCHANGED <<access, asked, disturbed, requests>> PROVE SyncInv'
  BY <1>2, QuietStep
<1>3. ASSUME NEW r \in Request, NEW row, requests' = [requests EXCEPT ![r] = row],
             requests[r].pc \in {"idle", "load", "groups", "list", "teams"},
             row.pc \in {"idle", "load", "groups", "list", "members"},
             UNCHANGED <<access, asked, disturbed>>
      PROVE  SyncInv'
  <2>1. \A x \in Request : requests'[x] = requests[x] \/ (~Syncing(x) /\ ~Syncing(x)')
    BY <1>1, <1>3 DEF Syncing
  <2>2. QED
    BY <1>3, <2>1, QuietStep
<1>4. ASSUME NEW r \in Request, NEW i \in Identity, HandleCallback(r, i) PROVE SyncInv'
  <2>1. PICK cached \in BOOLEAN :
          requests' = [requests EXCEPT ![r] =
            [Idle EXCEPT !.pc = IF Enabled = {} \/ cached THEN "groups" ELSE "load",
                         !.kind = "login", !.identity = i,
                         !.provider = IF Enabled = {} THEN Nil ELSE FirstOf(Enabled)]]
    BY <1>4 DEF HandleCallback
  <2>2. [Idle EXCEPT !.pc = IF Enabled = {} \/ cached THEN "groups" ELSE "load",
                     !.kind = "login", !.identity = i,
                     !.provider = IF Enabled = {} THEN Nil ELSE FirstOf(Enabled)].pc
          \in {"groups", "load"}
    BY DEF Idle
  <2>3. requests[r].pc = "idle" /\ UNCHANGED <<access, asked, disturbed>>
    BY <1>4 DEF HandleCallback, Idle
  <2>4. QED
    BY <1>3, <2>1, <2>2, <2>3
<1>5. ASSUME NEW r \in Request, LoadProvider(r) \/ LoginRefused(r) \/ CreateSession(r)
      PROVE  SyncInv'
  <2>1. \/ \E p : KnowsProvider(r, p)
        \/ requests' = [requests EXCEPT ![r] = Idle]
    BY <1>5 DEF LoadProvider, LoginRefused, CreateSession
  <2>2. \A i, p : [Idle EXCEPT !.pc = "groups", !.kind = "login",
                              !.identity = i, !.provider = p].pc = "groups"
    BY DEF Idle
  <2>3. Idle.pc = "idle"
    BY DEF Idle
  <2>4. requests[r].pc \in {"load", "groups", "teams"} /\ UNCHANGED <<access, asked, disturbed>>
    BY <1>5 DEF LoadProvider, LoginRefused, CreateSession
  <2>5. ASSUME NEW p, KnowsProvider(r, p) PROVE SyncInv'
    <3> DEFINE row == [Idle EXCEPT !.pc = "groups", !.kind = "login",
                                   !.identity = requests[r].identity, !.provider = p]
    <3>1. requests' = [requests EXCEPT ![r] = row] /\ row.pc = "groups"
      BY <2>2, <2>5 DEF KnowsProvider
    <3> HIDE DEF row
    <3>2. QED
      BY <1>3, <2>4, <3>1
  <2>6. QED
    BY <1>3, <2>1, <2>3, <2>4, <2>5
<1>6. ASSUME NEW r \in Request, ListMembers(r) PROVE SyncInv'
  <2>1. \/ \E members : requests' = [requests EXCEPT ![r] =
                          [requests[r] EXCEPT !.pc = "members", !.rest = members]]
        \/ requests' = [requests EXCEPT ![r] = Idle]
    BY <1>6 DEF ListMembers
  <2>2. \A members : [requests[r] EXCEPT !.pc = "members", !.rest = members].pc = "members"
    BY <1>1 DEF RequestState
  <2>3. QED
    BY <1>3, <1>6, <2>1, <2>2 DEF ListMembers, Idle
<1>7. ASSUME NEW r \in Request, NEW p, NEW g, NEW t, NEW role,
             HandleCreateGroupMapping(r, p, g, t, role)
      PROVE  SyncInv'
  <2>1. [Idle EXCEPT !.pc = "list", !.kind = "provision", !.provider = p, !.groups = {g}].pc
          = "list"
    BY DEF Idle
  <2>2. requests[r].pc = "idle"
    BY <1>7 DEF HandleCreateGroupMapping, Idle
  <2>3. QED
    BY <1>3, <1>7, <2>1, <2>2 DEF HandleCreateGroupMapping
<1>8. ASSUME NEW r \in Request, ReadGroups(r) PROVE SyncInv'
  <2>1. requests[r].identity \in Identity /\ requests[r].pc = "groups"
    BY <1>1, <1>8 DEF ReadGroups, RequestsOK, RowOK
  <2>2. /\ requests'[r].pc = "select" /\ requests'[r].identity = requests[r].identity
        /\ OnlyMoves(r)
    BY <1>1, <1>8 DEF ReadGroups, RequestState, OnlyMoves
  <2>3. UNCHANGED access /\ SyncBegins(r, requests[r].identity)
    BY <1>8 DEF ReadGroups
  <2>4. QED
    BY <1>1, <2>1, <2>2, <2>3, BeginStep DEF Syncing
<1>9. ASSUME NEW r \in Request, ProvisionMember(r) PROVE SyncInv'
  <2>1. PICK i \in requests[r].rest :
          /\ requests' = [requests EXCEPT ![r].pc = "select", ![r].identity = i,
                                          ![r].rest = @ \ {i}]
          /\ SyncBegins(r, i)
    BY <1>9 DEF ProvisionMember
  <2>2. i \in Identity
    BY <1>1 DEF RequestState
  <2>3. requests'[r].pc = "select" /\ requests'[r].identity = i /\ OnlyMoves(r)
    BY <1>1, <2>1 DEF RequestState, OnlyMoves
  <2>4. ~Syncing(r) /\ UNCHANGED access
    BY <1>9 DEF ProvisionMember, Syncing
  <2>5. QED
    BY <1>1, <2>1, <2>2, <2>3, <2>4, BeginStep
<1>10. ASSUME NEW r \in Request, SyncBreaks(r) PROVE SyncInv'
  <2>1. requests[r].identity \in Identity /\ UNCHANGED access
    BY <1>1, <1>10 DEF SyncBreaks, Syncing, RequestsOK, RowOK
  <2>2. OnlyMoves(r) /\ ~Syncing(r)' /\ Disturbs({requests[r].identity})
    BY <1>1, <1>10 DEF SyncBreaks, SyncFails, OnlyMoves, Syncing, Idle
  <2>3. Moves(r, requests[r].identity)
    BY <1>10, <2>2 DEF Moves, AtWork, SyncBreaks
  <2>4. QED
    BY <1>1, <2>1, <2>2, <2>3, FailStep
<1>11. ASSUME NEW t \in Team, HandleDeleteTeam(t) PROVE SyncInv'
  BY <1>1, <1>11, DisturbStep DEF HandleDeleteTeam
<1>12. CASE \/ \E p \in Provider, state \in {"enabled", "disabled"} :
                 HandleCreateSSOProvider(p, state) \/ HandleUpdateSSOProvider(p, state)
            \/ \E p \in Provider : HandleDeleteSSOProvider(p)
            \/ \E g \in Group, t \in Team, role \in Role : BootstrapMapping(g, t, role)
            \/ \E g \in Group, t \in Team : HandleDeleteGroupMapping(g, t)
            \/ \E i \in Identity, g \in Group : DirectoryChanges(i, g)
            \/ UNCHANGED vars
  BY <1>2, <1>12 DEF HandleCreateSSOProvider, HandleUpdateSSOProvider, HandleDeleteSSOProvider,
     BootstrapMapping, HandleDeleteGroupMapping, DirectoryChanges, vars
<1>13. QED
  BY <1>4, <1>5, <1>6, <1>7, <1>8, <1>9, <1>10, <1>11, <1>12,
     SelectStep, UpsertStep, ExistingStep, RevokeStep DEF Next, RequestStep

(* AccessInv is inductive: whatever logins, background jobs, failing       *)
(* statements and deletions interleave, an identity whose syncs were not   *)
(* disturbed has a sync in progress for every difference between its rows  *)
(* and the grants that were found.                                         *)
THEOREM AccessInductive == Spec => []AccessInv
<1>1. Init => AccessInv
  BY InitTypeInv, InitSyncInv DEF AccessInv
<1>2. AccessInv /\ [Next]_vars => AccessInv'
  BY TypeInvStep, SyncInvStep DEF AccessInv
<1>3. QED
  BY <1>1, <1>2, PTL DEF Spec

(* Syncs of one identity, none of which failed, leave every team that all  *)
(* of them found, and no team and role that none of them found, in         *)
(* whatever order their statements came (SyncTeamAccess).                  *)
THEOREM UndisturbedSyncsAgree == Spec => []SyncAgrees
<1>1. ASSUME AccessInv PROVE SyncAgrees
  <2> SUFFICES ASSUME NEW i \in Identity, asked[i] # {},
                      \A r \in Request : Syncing(r) => requests[r].identity # i
               PROVE  /\ \A t \in Team : (\A G \in asked[i] : t \in TeamsOf(G)) => t \in Held(i)
                      /\ \A t \in Held(i) : \E G \in asked[i] : <<t, access[i][t]>> \in G
    BY DEF SyncAgrees
  <2>1. \A r \in Request : ~AtWork(r, i)
    BY DEF AtWork
  <2>2. GrantedOrToCome(i) /\ FoundOrToChange(i)
    BY <1>1 DEF AccessInv, SyncInv, Claims
  <2>3. QED
    BY <2>1, <2>2 DEF GrantedOrToCome, FoundOrToChange, Found
<1>2. QED
  BY <1>1, AccessInductive, PTL
============================================================================

----------------------------- MODULE TeamAccess -----------------------------
(***************************************************************************)
(* Who may see which team through single sign-on: the mappings from groups *)
(* of the identity provider to teams, the table sso_team_access that every *)
(* login reconciles statement by statement, the background job that brings *)
(* in the members of a newly mapped group, and the provider rows that say  *)
(* which mappings count. The cache of providers is left to chance: a login *)
(* may or may not have to load its provider.                               *)
(***************************************************************************)
EXTENDS Naturals, FiniteSets

CONSTANTS
  Identity,        \* sso_identities: people the provider knows
  Group,           \* groups of the provider
  Team, Role,
  Provider,        \* ids of sso_providers rows
  Nil,             \* no identity, no provider (uuid.Nil, NULL)
  Request,         \* logins, provider tests and background jobs at once
  EnvProvider,     \* are the ENTRA_* variables set?
  MaxMappings,     \* bound: mappings that exist at once
  Faults           \* subset of {"graph", "database", "discovery"}

ASSUME TeamAccessAssumption ==
  /\ Nil \notin Identity \cup Provider
  /\ "none" \notin Role
  /\ EnvProvider \in BOOLEAN
  /\ MaxMappings \in Nat
  /\ Faults \subseteq {"graph", "database", "discovery"}

VARIABLES
  memberOf,        \* the provider's directory: identity -> groups
  teams,           \* the teams that exist
  mappings,        \* group_mappings: <<group, team>> -> row
  access,          \* sso_team_access: identity -> team -> role, "none" if absent
  providers,       \* sso_providers: id -> state
  requests,        \* handlers and goroutines in progress
  asked,           \* history: the grants the syncs since the last calm found
  disturbed        \* history: identities for which one of them failed

vars == <<memberOf, teams, mappings, access, providers, requests, asked, disturbed>>

(* provider is sso_provider_id; the unique key has the group and the team. *)
MappingRow == [provider : Provider \cup {Nil}, role : Role \cup {"none"}]
NoMapping == [provider |-> Nil, role |-> "none"]

ProviderState == {"absent", "enabled", "disabled", "deleted"}

RequestState == [pc : {"idle", "load", "groups", "list", "members", "select", "upsert",
                       "existing", "revoke", "teams"},
                 kind : {"none", "login", "provision"},
                 identity : Identity \cup {Nil},
                 rest : SUBSET Identity,                \* members still to come
                 provider : Provider \cup {Nil},
                 groups : SUBSET Group,
                 grants : SUBSET (Team \X Role),
                 todo : SUBSET (Team \X Role),
                 revoke : SUBSET Team]

Idle == [pc |-> "idle", kind |-> "none", identity |-> Nil, rest |-> {}, provider |-> Nil,
         groups |-> {}, grants |-> {}, todo |-> {}, revoke |-> {}]

Syncing(r) == requests[r].pc \in {"select", "upsert", "existing", "revoke"}

TypeOK ==
  /\ memberOf \in [Identity -> SUBSET Group]
  /\ teams \in SUBSET Team
  /\ mappings \in [Group \X Team -> MappingRow]
  /\ access \in [Identity -> [Team -> Role \cup {"none"}]]
  /\ providers \in [Provider -> ProviderState]
  /\ requests \in [Request -> RequestState]
  /\ asked \in [Identity -> SUBSET SUBSET (Team \X Role)]
  /\ disturbed \in SUBSET Identity
  /\ \A r \in Request :
       /\ Syncing(r) => requests[r].identity \in Identity
       /\ requests[r].pc = "load" => requests[r].provider \in Provider
  /\ \A i \in Identity, t \in Team \ teams :
       access[i][t] = "none" /\ \A g \in Group : mappings[<<g, t>>] = NoMapping

Init ==
  /\ memberOf \in [Identity -> SUBSET Group]
  /\ teams = Team
  /\ mappings = [m \in Group \X Team |-> NoMapping]
  /\ access = [i \in Identity |-> [t \in Team |-> "none"]]
  /\ providers = [p \in Provider |-> "absent"]
  /\ requests = [r \in Request |-> Idle]
  /\ asked = [i \in Identity |-> {}]
  /\ disturbed = {}

----------------------------------------------------------------------------
(* Providers *)

Enabled == {p \in Provider : providers[p] = "enabled"}

(* ListSSOProviders orders by name. *)
FirstOf(S) == CHOOSE p \in S : TRUE

GetSSOProvider(p) == providers[p] \in {"enabled", "disabled"}

CreateSSOProvider(p, state) ==
  /\ providers[p] = "absent"
  /\ providers' = [providers EXCEPT ![p] = state]

UpdateSSOProvider(p, state) ==
  /\ GetSSOProvider(p)
  /\ providers' = [providers EXCEPT ![p] = state]

(* ON DELETE SET NULL: its mappings become mappings of no provider. *)
DeleteSSOProvider(p) ==
  /\ GetSSOProvider(p)
  /\ providers' = [providers EXCEPT ![p] = "deleted"]
  /\ mappings' = [m \in Group \X Team |->
                    IF mappings[m].provider = p THEN [mappings[m] EXCEPT !.provider = Nil]
                    ELSE mappings[m]]

HandleCreateSSOProvider(p, state) ==
  /\ CreateSSOProvider(p, state)
  /\ UNCHANGED <<memberOf, teams, mappings, access, requests, asked, disturbed>>

HandleUpdateSSOProvider(p, state) ==
  /\ UpdateSSOProvider(p, state)
  /\ UNCHANGED <<memberOf, teams, mappings, access, requests, asked, disturbed>>

HandleDeleteSSOProvider(p) ==
  /\ DeleteSSOProvider(p)
  /\ UNCHANGED <<memberOf, teams, access, requests, asked, disturbed>>

----------------------------------------------------------------------------
(* HandleCallback *)

(* A login that knows its provider goes on to the token exchange. *)
KnowsProvider(r, p) ==
  requests' = [requests EXCEPT ![r] =
                 [Idle EXCEPT !.pc = "groups", !.kind = "login",
                              !.identity = requests[r].identity, !.provider = p]]

(* GetFirst: no provider, an entry of the cache or a load. Without a      *)
(* provider of its own the server turns the login away.                    *)
HandleCallback(r, i) ==
  /\ requests[r] = Idle
  /\ Enabled # {} \/ EnvProvider
  /\ \E cached \in BOOLEAN :
       requests' = [requests EXCEPT ![r] =
         [Idle EXCEPT !.pc = IF Enabled = {} \/ cached THEN "groups" ELSE "load",
                      !.kind = "login", !.identity = i,
                      !.provider = IF Enabled = {} THEN Nil ELSE FirstOf(Enabled)]]
  /\ UNCHANGED <<memberOf, teams, mappings, access, providers, asked, disturbed>>

(* The discovery of an enabled row: what may come of it. *)
NewOIDCProviderFromRecord == IF "discovery" \in Faults THEN BOOLEAN ELSE {TRUE}

(* ProviderCache.Get: the row, then the discovery. When one fails, only a  *)
(* server with a provider of its own goes on, as if there were no row.     *)
LoadProvider(r) ==
  /\ requests[r].pc = "load"
  /\ \/ /\ providers[requests[r].provider] = "enabled"
        /\ TRUE \in NewOIDCProviderFromRecord
        /\ KnowsProvider(r, requests[r].provider)
     \/ /\ providers[requests[r].provider] # "enabled" \/ FALSE \in NewOIDCProviderFromRecord
        /\ IF EnvProvider THEN KnowsProvider(r, Nil)
           ELSE requests' = [requests EXCEPT ![r] = Idle]
  /\ UNCHANGED <<memberOf, teams, mappings, access, providers, asked, disturbed>>

(* History: a sync begins. The first one after a calm forgets the others.  *)
SyncBegins(r, i) ==
  LET calm == \A x \in Request \ {r} : ~(Syncing(x) /\ requests[x].identity = i)
  IN /\ asked' = [asked EXCEPT ![i] = IF calm THEN {} ELSE @]
     /\ disturbed' = IF calm THEN disturbed \ {i} ELSE disturbed

(* History: nothing is said about these identities until the next calm. *)
Disturbs(I) ==
  /\ disturbed' = disturbed \cup I
  /\ asked' = [i \in Identity |-> IF i \in I THEN {} ELSE asked[i]]

(* The state, the code or the token is refused, or UpsertSSOIdentity fails. *)
LoginRefused(r) ==
  /\ requests[r].pc = "groups"
  /\ requests' = [requests EXCEPT ![r] = Idle]
  /\ UNCHANGED <<memberOf, teams, mappings, access, providers, asked, disturbed>>

(* When Graph cannot be reached the login goes on without any group. *)
GetGroupMemberships(i) == {memberOf[i]} \cup (IF "graph" \in Faults THEN {{}} ELSE {})

(* The groups of the token or of Graph. *)
ReadGroups(r) ==
  LET i == requests[r].identity
  IN /\ requests[r].pc = "groups"
     /\ \E groups \in GetGroupMemberships(i) :
          requests' = [requests EXCEPT ![r].pc = "select", ![r].groups = groups]
     /\ SyncBegins(r, i)
     /\ UNCHANGED <<memberOf, teams, mappings, access, providers>>

----------------------------------------------------------------------------
(* SyncTeamAccess *)

(* The mappings of the groups that belong to the provider or to none. *)
GrantsOf(groups, p) ==
  {<<m[2], mappings[m].role>> :
     m \in {m \in Group \X Team : /\ mappings[m] # NoMapping
                                  /\ m[1] \in groups
                                  /\ mappings[m].provider \in {p, Nil}}}

TeamsOf(grants) == {g[1] : g \in grants}

Held(i) == {t \in Team : access[i][t] # "none"}

(* A login needs its groups and its provider for the query only. *)
Forgetting(r) ==
  IF requests[r].kind = "login"
  THEN [requests[r] EXCEPT !.groups = {}, !.provider = Nil]
  ELSE requests[r]

(* No groups: everything is revoked by one statement. *)
SelectGrants(r) ==
  LET i == requests[r].identity
      grants == IF requests[r].groups = {} THEN {}
                ELSE GrantsOf(requests[r].groups, requests[r].provider)
  IN /\ requests[r].pc = "select"
     /\ access' = IF requests[r].groups = {}
                  THEN [access EXCEPT ![i] = [t \in Team |-> "none"]] ELSE access
     /\ requests' = [requests EXCEPT ![r] =
          [Forgetting(r) EXCEPT !.pc = IF requests[r].groups = {} THEN "revoke" ELSE "upsert",
                                !.grants = grants, !.todo = grants]]
     /\ asked' = IF i \in disturbed THEN asked ELSE [asked EXCEPT ![i] = @ \cup {grants}]
     /\ UNCHANGED <<memberOf, teams, mappings, providers, disturbed>>

(* A failed sync ends a login; the background job tries the next member. *)
SyncFails(r) ==
  /\ requests' = [requests EXCEPT ![r] =
       IF requests[r].kind = "login" \/ requests[r].rest = {} THEN Idle
       ELSE [Idle EXCEPT !.pc = "members", !.kind = "provision", !.rest = requests[r].rest,
                         !.provider = requests[r].provider, !.groups = requests[r].groups]]
  /\ Disturbs({requests[r].identity})

UpsertAccess(r) ==
  LET i == requests[r].identity
  IN /\ requests[r].pc = "upsert"
     /\ \/ \E g \in requests[r].todo :
             /\ g[1] \in teams
             /\ access' = [access EXCEPT ![i][g[1]] = g[2]]
             /\ requests' = [requests EXCEPT ![r].todo = @ \ {g}]
             /\ UNCHANGED <<asked, disturbed>>
        \/ /\ \E g \in requests[r].todo : g[1] \notin teams      \* foreign key
           /\ SyncFails(r)
           /\ UNCHANGED access
        \/ /\ requests[r].todo = {}
           /\ requests' = [requests EXCEPT ![r].pc = "existing"]
           /\ UNCHANGED <<access, asked, disturbed>>
     /\ UNCHANGED <<memberOf, teams, mappings, providers>>

(* Mutant: what is revoked is what the mappings do not name at all. *)
SelectExisting_AllMappings(r) ==
  /\ requests[r].pc = "existing"
  /\ requests' = [requests EXCEPT ![r].pc = "revoke",
       ![r].revoke = Held(requests[r].identity)
                       \ TeamsOf(GrantsOf(Group, requests[r].provider)),
       ![r].grants = {}]
  /\ UNCHANGED <<memberOf, teams, mappings, access, providers, asked, disturbed>>

SelectExisting(r) ==
  /\ requests[r].pc = "existing"
  /\ requests' = [requests EXCEPT ![r].pc = "revoke",
       ![r].revoke = Held(requests[r].identity) \ TeamsOf(requests[r].grants),
       ![r].grants = {}]
  /\ UNCHANGED <<memberOf, teams, mappings, access, providers, asked, disturbed>>

(* The sync of one identity is over: a login reads the teams, the job goes *)
(* on with the next member.                                                *)
AfterSync(r) ==
  IF requests[r].kind = "login"
  THEN [Idle EXCEPT !.pc = "teams", !.kind = "login", !.identity = requests[r].identity]
  ELSE IF requests[r].rest = {} THEN Idle
  ELSE [Idle EXCEPT !.pc = "members", !.kind = "provision", !.rest = requests[r].rest,
                    !.provider = requests[r].provider, !.groups = requests[r].groups]

RevokeAccess(r) ==
  LET i == requests[r].identity
  IN /\ requests[r].pc = "revoke"
     /\ \/ \E t \in requests[r].revoke :
             /\ access' = [access EXCEPT ![i][t] = "none"]
             /\ requests' = [requests EXCEPT ![r].revoke = @ \ {t}]
        \/ /\ requests[r].revoke = {}
           /\ requests' = [requests EXCEPT ![r] = AfterSync(r)]
           /\ UNCHANGED access
     /\ UNCHANGED <<memberOf, teams, mappings, providers, asked, disturbed>>

SyncBreaks(r) ==
  /\ "database" \in Faults
  /\ Syncing(r)
  /\ SyncFails(r)
  /\ UNCHANGED <<memberOf, teams, mappings, access, providers>>

(* A session with the teams that the identity holds at this moment, or a   *)
(* refusal when there are none: nothing here is changed by either.         *)
CreateSession(r) ==
  /\ requests[r].pc = "teams"
  /\ requests' = [requests EXCEPT ![r] = Idle]
  /\ UNCHANGED <<memberOf, teams, mappings, access, providers, asked, disturbed>>

----------------------------------------------------------------------------
(* Mappings, teams and the background job *)

(* The unique key refuses a second mapping of the group to the team. *)
MayMap(g, t) ==
  /\ t \in teams
  /\ mappings[<<g, t>>] = NoMapping
  /\ Cardinality({m \in Group \X Team : mappings[m] # NoMapping}) < MaxMappings

(* sso_provider_id refers to a row. *)
CreateGroupMapping(p, g, t, role) ==
  /\ GetSSOProvider(p)
  /\ MayMap(g, t)
  /\ mappings' = [mappings EXCEPT ![<<g, t>>] = [provider |-> p, role |-> role]]

(* ON CONFLICT DO NOTHING, no provider id *)
EnsureGroupMappingBootstrap(g, t, role) ==
  /\ MayMap(g, t)
  /\ mappings' = [mappings EXCEPT ![<<g, t>>] = [provider |-> Nil, role |-> role]]

DeleteGroupMapping(g, t) ==
  /\ mappings[<<g, t>>] # NoMapping
  /\ mappings' = [mappings EXCEPT ![<<g, t>>] = NoMapping]

(* The goroutine that is started waits for nothing. *)
HandleCreateGroupMapping(r, p, g, t, role) ==
  /\ requests[r] = Idle
  /\ CreateGroupMapping(p, g, t, role)
  /\ requests' = [requests EXCEPT ![r] =
       [Idle EXCEPT !.pc = "list", !.kind = "provision", !.provider = p, !.groups = {g}]]
  /\ UNCHANGED <<memberOf, teams, access, providers, asked, disturbed>>

(* An app token and the members of the group; nobody when either fails. *)
GetGroupMembers(groups) ==
  {{i \in Identity : groups \subseteq memberOf[i]}} \cup (IF "graph" \in Faults THEN {{}} ELSE {})

(* provisionGroupMembers: the provider's row and the members from Graph. *)
ListMembers(r) ==
  LET found == GetSSOProvider(requests[r].provider)
      lists == GetGroupMembers(requests[r].groups)
  IN /\ requests[r].pc = "list"
     /\ \/ /\ found
           /\ \E members \in lists \ {{}} :
                requests' = [requests EXCEPT ![r].pc = "members", ![r].rest = members]
        \/ /\ ~found \/ {} \in lists
           /\ requests' = [requests EXCEPT ![r] = Idle]
     /\ UNCHANGED <<memberOf, teams, mappings, access, providers, asked, disturbed>>

(* Then one member after the other, each synced as if the mapped group     *)
(* were the only one.                                                      *)
ProvisionMember(r) ==
  /\ requests[r].pc = "members"
  /\ \E i \in requests[r].rest :
       /\ requests' = [requests EXCEPT ![r].pc = "select", ![r].identity = i,
                                       ![r].rest = @ \ {i}]
       /\ SyncBegins(r, i)
  /\ UNCHANGED <<memberOf, teams, mappings, access, providers>>

(* bootstrapGroupMappings, for one entry of the configuration *)
BootstrapMapping(g, t, role) ==
  /\ EnsureGroupMappingBootstrap(g, t, role)
  /\ UNCHANGED <<memberOf, teams, access, providers, requests, asked, disturbed>>

HandleDeleteGroupMapping(g, t) ==
  /\ DeleteGroupMapping(g, t)
  /\ UNCHANGED <<memberOf, teams, access, providers, requests, asked, disturbed>>

(* Mutant: the access rows stay. *)
DeleteTeam_KeepsAccess(t) ==
  /\ t \in teams
  /\ teams' = teams \ {t}
  /\ mappings' = [m \in Group \X Team |-> IF m[2] = t THEN NoMapping ELSE mappings[m]]
  /\ UNCHANGED access

(* ON DELETE CASCADE *)
DeleteTeam(t) ==
  /\ t \in teams
  /\ teams' = teams \ {t}
  /\ mappings' = [m \in Group \X Team |-> IF m[2] = t THEN NoMapping ELSE mappings[m]]
  /\ access' = [i \in Identity |-> [access[i] EXCEPT ![t] = "none"]]

HandleDeleteTeam(t) ==
  /\ DeleteTeam(t)
  /\ Disturbs(Identity)
  /\ UNCHANGED <<memberOf, providers, requests>>

(* The administrators of the provider's directory. *)
DirectoryChanges(i, g) ==
  /\ memberOf' = [memberOf EXCEPT ![i] = IF g \in @ THEN @ \ {g} ELSE @ \cup {g}]
  /\ UNCHANGED <<teams, mappings, access, providers, requests, asked, disturbed>>

RequestStep(r) ==
  \/ LoadProvider(r) \/ LoginRefused(r) \/ ReadGroups(r)
  \/ SelectGrants(r) \/ UpsertAccess(r) \/ SelectExisting(r) \/ RevokeAccess(r)
  \/ SyncBreaks(r) \/ CreateSession(r) \/ ListMembers(r) \/ ProvisionMember(r)

Next ==
  \/ \E p \in Provider, state \in {"enabled", "disabled"} :
       HandleCreateSSOProvider(p, state) \/ HandleUpdateSSOProvider(p, state)
  \/ \E p \in Provider : HandleDeleteSSOProvider(p)
  \/ \E r \in Request, i \in Identity : HandleCallback(r, i)
  \/ \E r \in Request : RequestStep(r)
  \/ \E r \in Request, p \in Provider, g \in Group, t \in Team, role \in Role :
       HandleCreateGroupMapping(r, p, g, t, role)
  \/ \E g \in Group, t \in Team, role \in Role : BootstrapMapping(g, t, role)
  \/ \E g \in Group, t \in Team : HandleDeleteGroupMapping(g, t)
  \/ \E t \in Team : HandleDeleteTeam(t)
  \/ \E i \in Identity, g \in Group : DirectoryChanges(i, g)

Spec == Init /\ [][Next]_vars

----------------------------------------------------------------------------
(* The statements of several syncs of one identity may interleave: two     *)
(* devices that log in, a login and the background job, which knows one    *)
(* group only. When they are over and none failed, the identity holds      *)
(* every team that all of them found, and no team and role that none of    *)
(* them found; so exactly the grants if they found the same. Which role of *)
(* a team that several mappings give is left open: the last upsert's, not  *)
(* always the highest.                                                     *)
SyncAgrees ==
  \A i \in Identity :
    asked[i] # {} /\ (\A r \in Request : Syncing(r) => requests[r].identity # i) =>
      /\ \A t \in Team : (\A grants \in asked[i] : t \in TeamsOf(grants)) => t \in Held(i)
      /\ \A t \in Held(i) : \E grants \in asked[i] : <<t, access[i][t]>> \in grants
============================================================================
